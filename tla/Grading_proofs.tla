--------------------------- MODULE Grading_proofs ---------------------------
(***************************************************************************)
(* Theorems about grades: for any tasks, answers, overlapping calls and    *)
(* faults about what an accepted answer has and what calls of gradeAttempt *)
(* hand on to each other; for any reviewers, scores and overlapping        *)
(* transactions about the history of overrides.  Answers and reviewers     *)
(* share no state (PartsRun).                                              *)
(***************************************************************************)
EXTENDS Grading, FiniteSetTheorems, WellFoundedInduction, TLAPS

\* While one part moves the other stutters; what a learner submits is a submission.
LEMMA PartsRun == GradingSpec => AnswerSpec /\ Spec /\ Review!Spec
<1>1. GradingInit => AnswerInit /\ Init /\ Review!Init
  BY DEF GradingInit, AnswerInit
<1>2. AnswerNext => [Next]_vars
  BY DEF AnswerNext, Revise, SubmitAnswer, Grading, Next, Submission
<1>3. [GradingNext]_<<part, answered, reviewed>> =>
        [AnswerNext]_<<answering, vars>> /\ [Next]_vars /\ [Review!Next]_(Review!vars)
  BY <1>2 DEF GradingNext, answered, reviewed, Review!vars
<1> QED BY <1>1, <1>3, PTL DEF GradingSpec, AnswerSpec, Spec, Review!Spec

----------------------------------------------------------------------------
(* GradeAttempt.  What a call keeps between two awaits is said of its       *)
(* locals: a snapshot or a preflight it goes by was there.                  *)

\* A snapshot, stored or remembered, is of a ready run and of measured scores.
Trusted(s) == s # None => ready # {} /\ (s.dims # None => s.dims \in measured)
\* A grade with a score was come to on a ready run, and not past its citations.
Earned(g, strict) ==
    g.status # "execution_failed" => ready # {} /\ (strict => ~submission.claimsFail)

Located == DOMAIN call = Call
Waiting == submission = None => store = None /\ \A c \in Call : call[c].pc = "idle"
StoreEarned ==
    store # None =>
      /\ store.by \in Call /\ call[store.by].pc = "ended"
      /\ Earned(store, call[store.by].strict)
CallEarned(c) ==
    /\ call[c].pc = "check" => Trusted(call[c].cached)
    /\ call[c].pc = "insert" => call[c].grade.by = c /\ Earned(call[c].grade, call[c].in.strict)
IInv ==
    /\ Located
    /\ Waiting
    /\ Trusted(snap)
    /\ StoreEarned
    /\ \A c \in Call : CallEarned(c)

LEMMA InitEarned == Init => IInv
  BY DEF Init, Idle, IInv, Located, Waiting, Trusted, StoreEarned, CallEarned

\* A call that moves leaves the store, the snapshot and what is known of the
\* submission alone; only its own record changes.
LEMMA Quiet ==
    ASSUME IInv, NEW c \in Call, NEW r,
           call[c].pc # "ended", submission # None,
           call' = [call EXCEPT ![c] = r],
           r.pc = "check" => Trusted(r.cached),
           r.pc = "insert" => r.grade.by = c /\ Earned(r.grade, r.in.strict),
           UNCHANGED <<submission, store, snap, ready, measured>>
    PROVE  IInv'
<1> USE DEF IInv, Located
<1>1. DOMAIN call' = Call /\ call'[c] = r /\ \A d \in Call \ {c} : call'[d] = call[d]
  OBVIOUS
<1>2. Waiting'
  BY DEF Waiting
<1>3. Trusted(snap)'
  BY DEF Trusted
<1>4. StoreEarned'
  <2> SUFFICES ASSUME store # None PROVE StoreEarned'
    BY DEF StoreEarned
  <2>1. store.by \in Call \ {c}
    BY DEF StoreEarned
  <2> QED BY <1>1, <2>1 DEF StoreEarned, Earned
<1>5. ASSUME NEW d \in Call PROVE CallEarned(d)'
  <2>1. CASE d = c
    BY <1>1, <2>1 DEF CallEarned, Trusted, Earned
  <2>2. CASE d # c
    BY <1>1, <2>2 DEF CallEarned, Trusted, Earned
  <2> QED BY <2>1, <2>2
<1> QED BY <1>1, <1>2, <1>3, <1>4, <1>5

\* Submitting is the first step: nothing is stored and no call has begun.
LEMMA SubmitKeeps == ASSUME IInv, NEW s \in Submission, Submit(s) PROVE IInv'
<1>1. s # None
  BY GradeAssumption DEF Submission
<1>2. store = None /\ \A c \in Call : call[c].pc = "idle"
  BY DEF Submit, IInv, Waiting
<1>3. UNCHANGED <<store, snap, call, ready, measured>> /\ submission' # None
  BY <1>1 DEF Submit
<1> QED BY <1>2, <1>3 DEF IInv, Located, Waiting, Trusted, StoreEarned, CallEarned

LEMMA BeginKeeps == ASSUME IInv, NEW c \in Call, NEW i \in Input, Begin(c, i) PROVE IInv'
<1>1. call' = [call EXCEPT ![c] = [pc |-> "look", in |-> i]] /\ submission # None
       /\ call[c].pc # "ended" /\ UNCHANGED <<submission, store, snap, ready, measured>>
  BY DEF Begin, Idle
<1> QED BY <1>1, Quiet

LEMMA ReadsKeep ==
    ASSUME IInv, submission # None, NEW c \in Call,
           Look(c) \/ Recall(c) \/ EvidenceMissing(c) \/ CitationRefused(c) \/ InsertRefused(c)
           \/ Throws(c)
    PROVE  IInv'
<1> DEFINE ended == [pc |-> "ended", strict |-> call[c].in.strict]
           asked == [pc |-> "recall", in |-> call[c].in]
           found == [pc |-> "check", in |-> call[c].in, cached |-> snap]
<1>1. UNCHANGED <<submission, store, snap, ready, measured>> /\ call[c].pc # "ended"
  BY DEF Look, Recall, EvidenceMissing, CitationRefused, InsertRefused, Throws
<1>2. CASE call' = [call EXCEPT ![c] = ended]
  BY <1>1, <1>2, Quiet
<1>3. CASE call' = [call EXCEPT ![c] = asked]
  BY <1>1, <1>3, Quiet
<1>4. CASE call' = [call EXCEPT ![c] = found]
  BY <1>1, <1>4, Quiet DEF IInv
<1> QED BY <1>2, <1>3, <1>4
      DEF Look, Recall, EvidenceMissing, CitationRefused, InsertRefused, Throws, Return, IInv, Located

LEMMA ExecutionFailedKeeps ==
    ASSUME IInv, submission # None, NEW c \in Call, ExecutionFailed(c) PROVE IInv'
<1> DEFINE g == [status |-> "execution_failed", score |-> 0,
                 threshold |-> Own(call[c].in), by |-> c]
           r == [pc |-> "insert", in |-> call[c].in, grade |-> g]
<1>1. call' = [call EXCEPT ![c] = r] /\ call[c].pc = "check"
       /\ UNCHANGED <<submission, store, snap, ready, measured>>
  BY DEF ExecutionFailed, IInv, Located
<1>2. r.pc = "insert" /\ r.grade.by = c /\ Earned(r.grade, r.in.strict)
  BY DEF Earned
<1> QED BY <1>1, <1>2, Quiet

\* The call's own preflight or the snapshot it remembers vouches for the run,
\* and the citations are enforced here whatever the snapshot says.
LEMMA EvaluateKeeps ==
    ASSUME IInv, submission # None, NEW c \in Call, NEW o \in Score, Evaluate(c, o)
    PROVE  IInv'
<1> DEFINE input     == call[c].in
           cached    == call[c].cached
           dims      == ScoreBy(input, cached, o)
           threshold == IF cached # None THEN cached.threshold ELSE Own(input)
           g == [status |-> Derived(dims, threshold), score |-> dims,
                 threshold |-> threshold, by |-> c]
           r == [pc |-> "insert", in |-> input, grade |-> g]
           s == [threshold |-> threshold, dims |-> Carried(input.custom, dims, cached)]
<1>1. /\ call[c].pc = "check" /\ call' = [call EXCEPT ![c] = r]
      /\ cached # None \/ Passes(input)
      /\ ~(input.strict /\ submission.claimsFail)
      /\ snap' = s \/ snap' = snap
      /\ UNCHANGED <<submission, store>>
  BY DEF Evaluate, Refused
<1>2. /\ ready' = IF ~RunFailed(input) /\ ~LacksEvidence THEN ready \cup {c} ELSE ready
      /\ measured' = IF ~input.custom THEN measured \cup {dims} ELSE measured
  BY DEF Evaluate
<1>3. Trusted(cached)
  BY <1>1 DEF IInv, CallEarned
<1>4. ready' # {} /\ (ready # {} => ready' # {}) /\ measured \subseteq measured'
  BY <1>1, <1>2, <1>3 DEF Trusted, Passes
<1>5. Trusted(snap)'
  <2>1. CASE snap' = snap
    BY <1>4, <2>1 DEF IInv, Trusted
  <2>2. CASE snap' = s
    <3>1. CASE ~input.custom
      BY <1>2, <1>4, <2>2, <3>1 DEF Trusted, Carried
    <3>2. CASE input.custom
      BY <1>3, <1>4, <2>2, <3>2 DEF Trusted, Carried
    <3> QED BY <3>1, <3>2
  <2> QED BY <1>1, <2>1, <2>2
<1>6. DOMAIN call' = Call /\ call'[c] = r /\ \A d \in Call \ {c} : call'[d] = call[d]
  BY <1>1 DEF IInv, Located
<1>7. Located' /\ Waiting'
  BY <1>1, <1>6 DEF Located, Waiting
<1>8. StoreEarned'
  <2> SUFFICES ASSUME store # None PROVE StoreEarned'
    BY <1>1 DEF StoreEarned
  <2>1. store.by \in Call \ {c}
    BY <1>1 DEF IInv, StoreEarned
  <2> QED BY <1>1, <1>4, <1>6, <2>1 DEF IInv, StoreEarned, Earned
<1>9. ASSUME NEW d \in Call PROVE CallEarned(d)'
  <2>1. CASE d = c
    <3>1. call'[d].pc = "insert" /\ call'[d].grade.by = d /\ call'[d].in = input
      BY <1>6, <2>1
    <3> QED BY <1>1, <1>4, <3>1 DEF CallEarned, Earned
  <2>2. CASE d # c
    <3>1. call'[d] = call[d] /\ CallEarned(d)
      BY <1>6, <2>2 DEF IInv
    <3> QED BY <1>1, <1>4, <3>1 DEF CallEarned, Earned, Trusted
  <2> QED BY <2>1, <2>2
<1> QED BY <1>5, <1>7, <1>8, <1>9 DEF IInv

LEMMA InsertKeeps ==
    ASSUME IInv, submission # None, NEW c \in Call, Insert(c) PROVE IInv'
<1> DEFINE r == [pc |-> "ended", strict |-> call[c].in.strict]
<1>1. /\ call[c].pc = "insert" /\ store' = call[c].grade
      /\ call' = [call EXCEPT ![c] = r]
      /\ UNCHANGED <<submission, snap, ready, measured>>
  BY DEF Insert, Return
<1>2. DOMAIN call' = Call /\ call'[c] = r /\ \A d \in Call \ {c} : call'[d] = call[d]
  BY <1>1 DEF IInv, Located
<1>3. Located' /\ Waiting' /\ Trusted(snap)'
  BY <1>1, <1>2 DEF IInv, Located, Waiting, Trusted
<1>4. StoreEarned'
  <2>1. call[c].grade.by = c /\ Earned(call[c].grade, call[c].in.strict)
    BY <1>1 DEF IInv, CallEarned
  <2>2. store'.by = c /\ call'[c].pc = "ended" /\ call'[c].strict = call[c].in.strict
    BY <1>1, <1>2, <2>1
  <2> QED BY <1>1, <2>1, <2>2 DEF StoreEarned, Earned
<1>5. ASSUME NEW d \in Call PROVE CallEarned(d)'
  <2>1. CASE d = c
    BY <1>2, <2>1 DEF CallEarned
  <2>2. CASE d # c
    <3>1. call'[d] = call[d] /\ CallEarned(d)
      BY <1>2, <2>2 DEF IInv
    <3> QED BY <1>1, <3>1 DEF CallEarned, Earned, Trusted
  <2> QED BY <2>1, <2>2
<1> QED BY <1>3, <1>4, <1>5 DEF IInv

\* No call is past "idle" before there is a submission.
LEMMA StepKeeps == IInv /\ [Next]_vars => IInv'
<1> SUFFICES ASSUME IInv, [Next]_vars PROVE IInv'
  OBVIOUS
<1>1. ASSUME NEW s \in Submission, Submit(s) PROVE IInv'
  BY <1>1, SubmitKeeps
<1>2. ASSUME NEW c \in Call, Attempt(c) PROVE IInv'
  <2>1. ASSUME NEW i \in Input, Begin(c, i) PROVE IInv'
    BY <2>1, BeginKeeps
  <2>2. CASE call[c].pc = "idle"
    BY <1>2, <2>1, <2>2
       DEF Attempt, Look, Recall, ExecutionFailed, EvidenceMissing, CitationRefused,
           Evaluate, Insert, InsertRefused, Throws
  <2>3. CASE call[c].pc # "idle"
    <3>1. submission # None
      BY <2>3 DEF IInv, Waiting
    <3>2. ASSUME NEW o \in Score, Evaluate(c, o) PROVE IInv'
      BY <3>1, <3>2, EvaluateKeeps
    <3> QED BY <1>2, <2>1, <3>1, <3>2, ReadsKeep, ExecutionFailedKeeps, InsertKeeps DEF Attempt
  <2> QED BY <2>2, <2>3
<1>3. CASE UNCHANGED vars
  BY <1>3 DEF vars, IInv, Located, Waiting, Trusted, StoreEarned, Earned, CallEarned
<1> QED BY <1>1, <1>2, <1>3 DEF Next

LEMMA Invariance == GradingSpec => []IInv
<1>1. IInv /\ [Next]_vars => IInv'
  BY StepKeeps
<1> QED BY InitEarned, <1>1, PartsRun, PTL DEF Spec

(* A grade with a score, in the store, stands on a run that passed the      *)
(* preflight of gradeAttempt, its own or the one a snapshot carries over.   *)
THEOREM ScoresStandOnARun == GradingSpec => []ScoredNeedsReadyRun
<1>1. IInv => ScoredNeedsReadyRun
  BY DEF IInv, StoreEarned, Earned, ScoredNeedsReadyRun, Scored
<1> QED BY <1>1, Invariance, PTL

(* The intermediate store never holds a custom scorer's dimensions.         *)
THEOREM SnapshotsAreMeasured == GradingSpec => []SnapshotIsMeasured
<1>1. IInv => SnapshotIsMeasured
  BY DEF IInv, Trusted, SnapshotIsMeasured
<1> QED BY <1>1, Invariance, PTL

(* A strict call never inserts a score for claims that fail the allow-list, *)
(* however much of its preflight a snapshot spared it.                      *)
THEOREM StrictScoresAreBacked == GradingSpec => []StrictIsBacked
<1>1. IInv => StrictIsBacked
  BY DEF IInv, StoreEarned, Earned, StrictIsBacked, Scored
<1> QED BY <1>1, Invariance, PTL

(* The three together: what calls hand on to each other is safe to reuse.   *)
THEOREM ReuseIsAlwaysSafe == GradingSpec => []ReuseIsSafe
<1>1. ScoredNeedsReadyRun /\ SnapshotIsMeasured /\ StrictIsBacked => ReuseIsSafe
  BY DEF ReuseIsSafe
<1> QED BY <1>1, ScoresStandOnARun, SnapshotsAreMeasured, StrictScoresAreBacked, PTL

----------------------------------------------------------------------------
(* GradedAnswer.  The early returns of a check are gone through one by one: *)
(* those that accept give full marks.                                      *)

\* A nonempty set of naturals has a least element, which is what Min chooses.
LEMMA LeastIs ==
    ASSUME NEW S \in SUBSET Nat, S # {}
    PROVE  Min(S) \in S /\ \A y \in S : Min(S) <= y
<1> DEFINE Less == OpToRel(<, Nat)
<1>1. PICK x \in S : \A y \in S : ~ (<<y, x>> \in Less)
  <2>1. IsWellFoundedOn(Less, Nat)
    BY NatLessThanWellFounded
  <2> HIDE DEF Less
  <2> QED BY <2>1, WFMin
<1>2. ASSUME NEW y \in S PROVE x <= y
  <2>1. ~ (<<y, x>> \in Less)
    BY <1>1
  <2>2. ~ (y < x)
    BY <2>1 DEF OpToRel
  <2> QED BY <2>2
<1> QED BY <1>2 DEF Min

\* The rule that decides holds, and none before it does.
LEMMA Decided ==
    ASSUME NEW rules, DOMAIN rules \subseteq Nat, \E i \in DOMAIN rules : rules[i][1]
    PROVE  \E i \in DOMAIN rules :
             /\ rules[i][1] /\ Decide(rules) = rules[i][2]
             /\ \A j \in DOMAIN rules : rules[j][1] => i <= j
<1> DEFINE S == {i \in DOMAIN rules : rules[i][1]}
<1>1. S \in SUBSET Nat /\ S # {}
  OBVIOUS
<1>2. Min(S) \in S /\ \A y \in S : Min(S) <= y
  BY <1>1, LeastIs
<1> QED BY <1>2 DEF Decide

\* The first of n rules that holds decides, when the last always holds.
LEMMA FirstRule ==
    ASSUME NEW rules, NEW n \in Nat, n # 0, DOMAIN rules = 1 .. n, rules[n][1]
    PROVE  \E i \in 1 .. n : /\ rules[i][1] /\ Decide(rules) = rules[i][2]
                             /\ \A j \in 1 .. n : j < i => ~rules[j][1]
<1>1. DOMAIN rules \subseteq Nat /\ n \in DOMAIN rules
  OBVIOUS
<1>2. \E i \in DOMAIN rules : /\ rules[i][1] /\ Decide(rules) = rules[i][2]
                             /\ \A j \in DOMAIN rules : rules[j][1] => i <= j
  BY <1>1, Decided
<1>3. PICK i \in 1 .. n : /\ rules[i][1] /\ Decide(rules) = rules[i][2]
                         /\ \A j \in 1 .. n : rules[j][1] => i <= j
  BY <1>2
<1>4. \A j \in 1 .. n : j < i => ~rules[j][1]
  BY <1>3
<1> QED BY <1>3, <1>4

Good == {"ok", "passed"}
AllFull(r) == \A i \in DOMAIN r.marks : r.marks[i].got = Scale

\* All of something is full marks, provided there is something.
LEMMA WholeShare == ASSUME NEW n \in Nat, n # 0 PROVE Share(n, n) = Scale
<1>1. (120 * n) \div n = 120
  OBVIOUS
<1> QED BY <1>1 DEF Share, Scale

\* What lacks nothing of what is required has its full share.
LEMMA MetInFull ==
    ASSUME NEW required, NEW shown, IsFiniteSet(required), required # {},
           Unmet(required, shown) = {}
    PROVE  Share(Cardinality(required \cap shown), Cardinality(required)) = Scale
<1>1. required \cap shown = required
  BY DEF Unmet
<1>2. Cardinality(required) \in Nat /\ Cardinality(required) # 0
  BY FS_CardinalityType, FS_EmptySet
<1> QED BY <1>1, <1>2, WholeShare

\* What a mark appended to two others leaves.
LEMMA Third ==
    ASSUME NEW x, NEW y, NEW z
    PROVE  LET s == Append(<<x, y>>, z)
           IN  DOMAIN s = 1..3 /\ s[1] = x /\ s[2] = y /\ s[3] = z
<1>1. <<x, y>> \in Seq({x, y, z}) /\ z \in {x, y, z}
  OBVIOUS
<1> QED BY <1>1

\* The steps that are justified and those that are not.
LEMMA HeldIs ==
    ASSUME NEW s \in Seq(BOOLEAN)
    PROVE  LET not == {i \in DOMAIN s : ~s[i]}
           IN  /\ Len(s) \in Nat /\ IsFiniteSet(not) /\ Cardinality(not) \in Nat
               /\ Held(s) \in Nat /\ Held(s) = Len(s) - Cardinality(not)
<1> DEFINE not == {i \in DOMAIN s : ~s[i]}
           all == DOMAIN s
<1>1. Len(s) \in Nat /\ all = 1 .. Len(s)
  OBVIOUS
<1>2. IsFiniteSet(all) /\ Cardinality(all) = Len(s)
  <2>1. PICK n \in Nat : n = Len(s) /\ all = 1 .. n
    BY <1>1
  <2> HIDE DEF all
  <2>2. IsFiniteSet(1 .. n) /\ Cardinality(1 .. n) = n
    BY FS_Interval
  <2> QED BY <2>1, <2>2
<1>3. {i \in DOMAIN s : s[i]} = all \ not /\ not = all \cap not
  OBVIOUS
<1>4. IsFiniteSet(not) /\ Cardinality(not) <= Cardinality(all)
  BY <1>2, FS_Subset
<1>5. Cardinality(all \ not) = Cardinality(all) - Cardinality(all \cap not)
  BY <1>2, FS_Difference
<1>6. Cardinality(not) \in Nat
  BY <1>4, FS_CardinalityType
<1> HIDE DEF all
<1>7. Held(s) = Len(s) - Cardinality(not)
  BY <1>2, <1>3, <1>5 DEF Held
<1> QED BY <1>1, <1>2, <1>4, <1>6, <1>7

\* The early returns of the structural checks, written as choices.
LEMMA OutlineIs ==
    ASSUME NEW a, NEW spec, NEW given,
           given = <<Full(5), Mark(Share(Held(a.steps), Len(a.steps)), 5)>>
    PROVE  ProofOutline(a, spec) =
             IF spec.minSteps < 0 THEN Invalid
             ELSE IF Len(a.steps) < spec.minSteps THEN Result("failed", <<Mark(0, 5)>>)
             ELSE IF ~spec.justify THEN Result("ok", <<Full(5)>>)
             ELSE IF Held(a.steps) < Len(a.steps) THEN Result("failed", given)
             ELSE Result("ok", given)
<1> DEFINE rules == <<
             <<spec.minSteps < 0, Invalid>>,
             <<Len(a.steps) < spec.minSteps, Result("failed", <<Mark(0, 5)>>)>>,
             <<~spec.justify, Result("ok", <<Full(5)>>)>>,
             <<Held(a.steps) < Len(a.steps), Result("failed", given)>>,
             <<TRUE, Result("ok", given)>> >>
<1>1. ProofOutline(a, spec) = Decide(rules)
  BY DEF ProofOutline
<1>2. DOMAIN rules = 1 .. 5 /\ rules[5][1] /\ rules[5][2] = Result("ok", given)
  OBVIOUS
<1>3. (rules[1][1] <=> spec.minSteps < 0) /\ rules[1][2] = Invalid
  OBVIOUS
<1>4. /\ rules[2][1] <=> Len(a.steps) < spec.minSteps
      /\ rules[2][2] = Result("failed", <<Mark(0, 5)>>)
  OBVIOUS
<1>5. (rules[3][1] <=> ~spec.justify) /\ rules[3][2] = Result("ok", <<Full(5)>>)
  OBVIOUS
<1>6. /\ rules[4][1] <=> Held(a.steps) < Len(a.steps)
      /\ rules[4][2] = Result("failed", given)
  OBVIOUS
<1> HIDE DEF rules
<1>7. PICK i \in 1 .. 5 : /\ rules[i][1] /\ Decide(rules) = rules[i][2]
                         /\ \A j \in 1 .. 5 : j < i => ~rules[j][1]
  BY <1>2, FirstRule, 5 \in Nat, 5 # 0
<1> QED BY <1>1, <1>2, <1>3, <1>4, <1>5, <1>6, <1>7

LEMMA ExplanationIs ==
    ASSUME NEW a, NEW spec, NEW c,
           c = Mark(Share(Cardinality(spec.concepts \cap a.concepts),
                          Cardinality(spec.concepts)), 5)
    PROVE  Explanation(a, spec) =
             IF \/ spec.minWords < 0
                \/ spec.maxWords # Absent /\ spec.maxWords < spec.minWords THEN Invalid
             ELSE IF spec.concepts = {} THEN Invalid
             ELSE IF \/ a.words < spec.minWords
                     \/ spec.maxWords # Absent /\ a.words > spec.maxWords
                  THEN Result("failed", <<c, Mark(0, 5)>>)
             ELSE IF Unmet(spec.concepts, a.concepts) # {} THEN Result("failed", <<c, Full(5)>>)
             ELSE Result("ok", <<c, Full(5)>>)
<1> DEFINE unsound == spec.minWords < 0 \/ (spec.maxWords # Absent /\ spec.maxWords < spec.minWords)
           misfit == a.words < spec.minWords \/ (spec.maxWords # Absent /\ a.words > spec.maxWords)
           rules == <<
             <<unsound, Invalid>>,
             <<spec.concepts = {}, Invalid>>,
             <<misfit, Result("failed", <<c, Mark(0, 5)>>)>>,
             <<Unmet(spec.concepts, a.concepts) # {}, Result("failed", <<c, Full(5)>>)>>,
             <<TRUE, Result("ok", <<c, Full(5)>>)>> >>
<1>1. Explanation(a, spec) = Decide(rules)
  BY DEF Explanation
<1>2. DOMAIN rules = 1 .. 5 /\ rules[5][1] /\ rules[5][2] = Result("ok", <<c, Full(5)>>)
  OBVIOUS
<1>3. (rules[1][1] <=> unsound) /\ rules[1][2] = Invalid
  OBVIOUS
<1>4. (rules[2][1] <=> spec.concepts = {}) /\ rules[2][2] = Invalid
  OBVIOUS
<1>5. (rules[3][1] <=> misfit) /\ rules[3][2] = Result("failed", <<c, Mark(0, 5)>>)
  OBVIOUS
<1>6. /\ rules[4][1] <=> Unmet(spec.concepts, a.concepts) # {}
      /\ rules[4][2] = Result("failed", <<c, Full(5)>>)
  OBVIOUS
<1> HIDE DEF rules
<1>7. PICK i \in 1 .. 5 : /\ rules[i][1] /\ Decide(rules) = rules[i][2]
                         /\ \A j \in 1 .. 5 : j < i => ~rules[j][1]
  BY <1>2, FirstRule, 5 \in Nat, 5 # 0
<1> QED BY <1>1, <1>2, <1>3, <1>4, <1>5, <1>6, <1>7

LEMMA CounterexampleIs ==
    ASSUME NEW a, NEW spec, NEW c,
           c = Mark(Share(Cardinality(spec.mustViolate \cap a.violates),
                          Cardinality(spec.mustViolate)), 3)
    PROVE  Counterexample(a, spec) =
             IF spec.mustViolate = {} THEN Invalid
             ELSE IF ~a.witness THEN Result("failed", <<Mark(0, 5)>>)
             ELSE IF Unmet(spec.mustViolate, a.violates) # {} THEN Result("failed", <<Full(3), c>>)
             ELSE IF spec.verifier = "none" THEN Result("ok", <<Full(3), c>>)
             ELSE IF spec.verifier = "throws" THEN Result("spec_invalid", <<Full(3), c>>)
             ELSE IF spec.verifier = "rejects"
                  THEN Result("failed", Append(<<Full(3), c>>, Mark(0, 4)))
             ELSE Result("ok", Append(<<Full(3), c>>, Full(4)))
<1> DEFINE lacks  == Unmet(spec.mustViolate, a.violates) # {}
           claims == <<Full(3), c>>
           rejected == Append(claims, Mark(0, 4))
           verified == Append(claims, Full(4))
           rules == <<
             <<spec.mustViolate = {}, Invalid>>,
             <<~a.witness, Result("failed", <<Mark(0, 5)>>)>>,
             <<lacks, Result("failed", claims)>>,
             <<spec.verifier = "none", Result("ok", claims)>>,
             <<spec.verifier = "throws", Result("spec_invalid", claims)>>,
             <<spec.verifier = "rejects", Result("failed", rejected)>>,
             <<TRUE, Result("ok", verified)>> >>
<1>1. Counterexample(a, spec) = Decide(rules)
  BY DEF Counterexample
<1> HIDE DEF claims, rejected, verified, lacks
<1>2. DOMAIN rules = 1 .. 7 /\ rules[7][1] /\ rules[7][2] = Result("ok", verified)
  OBVIOUS
<1>3. (rules[1][1] <=> spec.mustViolate = {}) /\ rules[1][2] = Invalid
  OBVIOUS
<1>4. (rules[2][1] <=> ~a.witness) /\ rules[2][2] = Result("failed", <<Mark(0, 5)>>)
  OBVIOUS
<1>5. (rules[3][1] <=> lacks) /\ rules[3][2] = Result("failed", claims)
  BY DEF lacks
<1>6. (rules[4][1] <=> spec.verifier = "none") /\ rules[4][2] = Result("ok", claims)
  OBVIOUS
<1>7. (rules[5][1] <=> spec.verifier = "throws") /\ rules[5][2] = Result("spec_invalid", claims)
  OBVIOUS
<1>8. (rules[6][1] <=> spec.verifier = "rejects") /\ rules[6][2] = Result("failed", rejected)
  OBVIOUS
<1> HIDE DEF rules
<1>9. PICK i \in 1 .. 7 : /\ rules[i][1] /\ Decide(rules) = rules[i][2]
                         /\ \A j \in 1 .. 7 : j < i => ~rules[j][1]
  BY <1>2, FirstRule, 7 \in Nat, 7 # 0
<1>10. Counterexample(a, spec) =
         IF spec.mustViolate = {} THEN Invalid
         ELSE IF ~a.witness THEN Result("failed", <<Mark(0, 5)>>)
         ELSE IF lacks THEN Result("failed", claims)
         ELSE IF spec.verifier = "none" THEN Result("ok", claims)
         ELSE IF spec.verifier = "throws" THEN Result("spec_invalid", claims)
         ELSE IF spec.verifier = "rejects" THEN Result("failed", rejected)
         ELSE Result("ok", verified)
  BY <1>1, <1>2, <1>3, <1>4, <1>5, <1>6, <1>7, <1>8, <1>9
<1> QED BY <1>10 DEF claims, rejected, verified, lacks
LEMMA StatusOf ==
    /\ \A v, m : Result(v, m).status = v /\ Result(v, m).marks = m
    /\ "ok" \in Good /\ "failed" \notin Good /\ Invalid.status \notin Good
    /\ "spec_invalid" \notin Good
BY DEF Result, Invalid, Good

\* An outline with steps is ok only when each is justified, or none has to be.
LEMMA OutlineIsFull ==
    ASSUME NEW a, NEW spec, a.steps \in Seq(BOOLEAN), a.steps # <<>>,
           ProofOutline(a, spec).status \in Good
    PROVE  AllFull(ProofOutline(a, spec))
<1> DEFINE given == <<Full(5), Mark(Share(Held(a.steps), Len(a.steps)), 5)>>
<1>1. \/ ProofOutline(a, spec) = Result("ok", <<Full(5)>>)
      \/ ProofOutline(a, spec) = Result("ok", given) /\ ~(Held(a.steps) < Len(a.steps))
  <2> HIDE DEF given
  <2>1. ProofOutline(a, spec) =
          IF spec.minSteps < 0 THEN Invalid
          ELSE IF Len(a.steps) < spec.minSteps THEN Result("failed", <<Mark(0, 5)>>)
          ELSE IF ~spec.justify THEN Result("ok", <<Full(5)>>)
          ELSE IF Held(a.steps) < Len(a.steps) THEN Result("failed", given)
          ELSE Result("ok", given)
    BY OutlineIs DEF given
  <2> QED BY <2>1, StatusOf
<1>2. ASSUME ~(Held(a.steps) < Len(a.steps)) PROVE Share(Held(a.steps), Len(a.steps)) = Scale
  <2>1. /\ Len(a.steps) \in Nat /\ Len(a.steps) # 0 /\ Held(a.steps) \in Nat
        /\ Held(a.steps) <= Len(a.steps)
    <3>1. a.steps \in Seq(BOOLEAN) /\ a.steps # <<>>
      OBVIOUS
    <3>2. /\ Held(a.steps) \in Nat /\ Cardinality({i \in DOMAIN a.steps : ~a.steps[i]}) \in Nat
          /\ Held(a.steps) = Len(a.steps) - Cardinality({i \in DOMAIN a.steps : ~a.steps[i]})
      BY <3>1, HeldIs
    <3> QED BY <3>1, <3>2
  <2>2. Held(a.steps) = Len(a.steps)
    BY <1>2, <2>1
  <2> QED BY <2>1, <2>2, WholeShare
<1> QED BY <1>1, <1>2 DEF Result, Full, Mark, AllFull

\* A counterexample is ok only when it violates every claim and the verifier agrees.
LEMMA CounterexampleIsFull ==
    ASSUME NEW a, NEW spec, IsFiniteSet(spec.mustViolate),
           Counterexample(a, spec).status \in Good
    PROVE  AllFull(Counterexample(a, spec))
<1> DEFINE share == Share(Cardinality(spec.mustViolate \cap a.violates),
                          Cardinality(spec.mustViolate))
           claims == <<Full(3), Mark(share, 3)>>
           all == Append(claims, Full(4))
<1>1. /\ \/ Counterexample(a, spec) = Result("ok", claims)
         \/ Counterexample(a, spec) = Result("ok", all)
      /\ spec.mustViolate # {} /\ Unmet(spec.mustViolate, a.violates) = {}
  <2> HIDE DEF share
  <2>1. Counterexample(a, spec) =
          IF spec.mustViolate = {} THEN Invalid
          ELSE IF ~a.witness THEN Result("failed", <<Mark(0, 5)>>)
          ELSE IF Unmet(spec.mustViolate, a.violates) # {} THEN Result("failed", claims)
          ELSE IF spec.verifier = "none" THEN Result("ok", claims)
          ELSE IF spec.verifier = "throws" THEN Result("spec_invalid", claims)
          ELSE IF spec.verifier = "rejects" THEN Result("failed", Append(claims, Mark(0, 4)))
          ELSE Result("ok", all)
    BY CounterexampleIs DEF share
  <2> HIDE DEF claims, all
  <2> QED BY <2>1, StatusOf
<1>2. share = Scale
  BY <1>1, MetInFull
<1> HIDE DEF share
<1>3. DOMAIN all = 1..3 /\ \A k \in 1..3 : all[k].got = Scale
  BY <1>2, Third DEF Full, Mark
<1>4. DOMAIN claims = 1..2 /\ \A k \in 1..2 : claims[k].got = Scale
  BY <1>2 DEF Full, Mark
<1> HIDE DEF all, claims
<1> QED BY <1>1, <1>3, <1>4 DEF Result, AllFull

\* An explanation is ok only when it is of the right length and names every concept.
LEMMA ExplanationIsFull ==
    ASSUME NEW a, NEW spec, IsFiniteSet(spec.concepts), Explanation(a, spec).status \in Good
    PROVE  AllFull(Explanation(a, spec))
<1> DEFINE share == Share(Cardinality(spec.concepts \cap a.concepts),
                          Cardinality(spec.concepts))
<1>1. /\ Explanation(a, spec) = Result("ok", <<Mark(share, 5), Full(5)>>)
      /\ spec.concepts # {} /\ Unmet(spec.concepts, a.concepts) = {}
  <2> DEFINE c == Mark(share, 5)
             unsound == \/ spec.minWords < 0
                        \/ spec.maxWords # Absent /\ spec.maxWords < spec.minWords
             misfit == \/ a.words < spec.minWords
                       \/ spec.maxWords # Absent /\ a.words > spec.maxWords
  <2>1. Explanation(a, spec) =
          IF unsound THEN Invalid
          ELSE IF spec.concepts = {} THEN Invalid
          ELSE IF misfit THEN Result("failed", <<c, Mark(0, 5)>>)
          ELSE IF Unmet(spec.concepts, a.concepts) # {} THEN Result("failed", <<c, Full(5)>>)
          ELSE Result("ok", <<c, Full(5)>>)
    BY ExplanationIs
  <2> HIDE DEF share, unsound, misfit
  <2> QED BY <2>1, StatusOf
<1>2. share = Scale
  BY <1>1, MetInFull
<1> HIDE DEF share
<1> QED BY <1>1, <1>2 DEF Result, Full, Mark, AllFull

\* Batches of values, bounds and claims are ok when each of them is.
LEMMA BatchIsFull ==
    ASSUME NEW reasons, Batch(reasons).status \in Good
    PROVE  AllFull(Batch(reasons)) /\ \A i \in DOMAIN reasons : reasons[i] = "ok"
BY DEF Batch, Result, Mark, Good, AllFull

\* A derivation is ok when each step passed.
LEMMA DerivationIsFull ==
    ASSUME NEW a, NEW spec, Derivation(a, spec).status \in Good
    PROVE  AllFull(Derivation(a, spec))
BY DEF Derivation, Result, Mark, Good, AllFull

\* A shape table is ok when each name has its shape.
LEMMA ShapesAreFull ==
    ASSUME NEW a, NEW spec, IsFiniteSet(DOMAIN spec.expected), ShapeTable(a, spec).status \in Good
    PROVE  AllFull(ShapeTable(a, spec))
<1> DEFINE names == DOMAIN spec.expected
           right == {n \in names : n \in DOMAIN a.shapes /\ a.shapes[n] = spec.expected[n]}
           share == Share(Cardinality(right), Cardinality(names))
<1>1. right = names /\ names # {} /\ ShapeTable(a, spec).marks = <<Mark(share, 10)>>
  BY DEF ShapeTable, Result, Good
<1>2. Cardinality(names) \in Nat /\ Cardinality(names) # 0
  BY <1>1, FS_CardinalityType, FS_EmptySet
<1>3. share = Scale
  BY <1>1, <1>2, WholeShare
<1> HIDE DEF share
<1> QED BY <1>1, <1>3 DEF AllFull, Mark

\* A value passes only when each of its leaves is within the tolerance.
LEMMA NumbersAreRight ==
    ASSUME NEW seen, NEW spec, seen.value # Absent => DOMAIN seen.value.leaves \subseteq Nat,
           Numeric(seen, spec) = "ok"
    PROVE  \A i \in DOMAIN seen.value.leaves :
             LeafReason(seen.value.leaves[i], spec.expected.leaves[i], spec) = "ok"
<1> DEFINE reason == [i \in DOMAIN seen.value.leaves |->
                        LeafReason(seen.value.leaves[i], spec.expected.leaves[i], spec)]
           wrong == {i \in DOMAIN reason : reason[i] # "ok"}
<1>1. seen.value # Absent /\ ReasonOfLeaves(seen.value, spec) = "ok"
  BY DEF Numeric
<1>2. wrong \in SUBSET Nat
  BY <1>1
<1>3. wrong # {} => reason[Min(wrong)] # "ok"
  BY <1>2, LeastIs
<1>4. wrong = {}
  BY <1>1, <1>3 DEF ReasonOfLeaves
<1> QED BY <1>4

\* Until it is submitted the answer is one to the task.
Answering == submission = None => task \in Task /\ answer \in Answers(task)

LEMMA AnsweringIsTyped == GradingSpec => []Answering
<1>1. AnswerInit => Answering
  BY DEF AnswerInit, Answering
<1>2. Answering /\ [AnswerNext]_<<answering, vars>> => Answering'
  <2> SUFFICES ASSUME Answering, [AnswerNext]_<<answering, vars>>, submission' = None
               PROVE  task' \in Task /\ answer' \in Answers(task')
    BY DEF Answering
  <2>1. CASE Revise
    BY <2>1 DEF Revise, Answering
  <2>2. ASSUME NEW e \in BOOLEAN, SubmitAnswer(e) PROVE FALSE
    <3>1. submission' \in Submission
      BY <2>2 DEF SubmitAnswer, Submit, Submission
    <3> QED BY <3>1, GradeAssumption
  <2>3. CASE Grading
    <3>1. submission' = submission /\ UNCHANGED answering
      BY <2>3 DEF Grading, Attempt, Begin, Look, Recall, ExecutionFailed, EvidenceMissing,
                  CitationRefused, Evaluate, Insert, InsertRefused, Throws
    <3> QED BY <3>1 DEF Answering, answering
  <2>4. CASE UNCHANGED <<answering, vars>>
    BY <2>4 DEF Answering, answering, vars
  <2> QED BY <2>1, <2>2, <2>3, <2>4 DEF AnswerNext
<1> QED BY <1>1, <1>2, PartsRun, PTL DEF AnswerSpec

(* Whatever the author asks and the learner answers: the deterministic      *)
(* checks of the evaluator SDK accept only what has full marks, and a value *)
(* only when each leaf is within the tolerance (math-fallback.ts).          *)
THEOREM AcceptedIsRight == GradingSpec => []AcceptedHasFullMarks
<1>1. Answering => AcceptedHasFullMarks
  <2> SUFFICES ASSUME Answering, submission = None, task.kind # "web", Accepted(answer)
               PROVE  /\ AllFull(Checked(answer)) \/ (task.kind = "proof" /\ answer.steps = <<>>)
                      /\ task.kind = "numeric" =>
                           \A i \in DOMAIN answer.value.leaves :
                              LeafReason(answer.value.leaves[i], task.spec.expected.leaves[i],
                                         task.spec) = "ok"
    BY DEF AcceptedHasFullMarks, AllFull
  <2> DEFINE spec == task.spec
  <2>1. /\ task.kind \in Kind
        /\ task.kind = "proof" => answer.steps \in Seq(BOOLEAN)
        /\ task.kind = "counterexample" => IsFiniteSet(spec.mustViolate)
        /\ task.kind = "explanation" => IsFiniteSet(spec.concepts)
        /\ task.kind = "shapes" => IsFiniteSet(DOMAIN spec.expected)
        /\ task.kind = "numeric" /\ answer.value # Absent =>
             DOMAIN answer.value.leaves \subseteq Nat
    <3>1. Asked(task) /\ AnswerTo(task, answer)
      BY AnswerAssumption DEF Answering
    <3>2. task.kind = "numeric" /\ answer.value # Absent => Leaves(answer.value)
      BY <3>1 DEF AnswerTo
    <3> QED BY <3>1, <3>2 DEF Asked, AnswerTo, Leaves
  <2>2. Checked(answer).status \in Good
    BY DEF Accepted, Good
  <2>3. CASE task.kind = "proof"
    <3>1. Checked(answer) = ProofOutline(answer, spec)
      BY <2>3 DEF Checked
    <3>2. answer.steps # <<>> => AllFull(Checked(answer))
      BY <2>1, <2>2, <2>3, <3>1, OutlineIsFull
    <3> QED BY <2>3, <3>2
  <2>4. CASE task.kind = "counterexample"
    <3>1. Checked(answer) = Counterexample(answer, spec)
      BY <2>4 DEF Checked
    <3>2. AllFull(Checked(answer))
      BY <2>1, <2>2, <2>4, <3>1, CounterexampleIsFull
    <3> QED BY <2>4, <3>2
  <2>5. CASE task.kind = "explanation"
    <3>1. Checked(answer) = Explanation(answer, spec)
      BY <2>5 DEF Checked
    <3>2. AllFull(Checked(answer))
      BY <2>1, <2>2, <2>5, <3>1, ExplanationIsFull
    <3> QED BY <2>5, <3>2
  <2>6. CASE task.kind = "derivation"
    <3>1. Checked(answer) = Derivation(answer, spec)
      BY <2>6 DEF Checked
    <3>2. AllFull(Checked(answer))
      BY <2>2, <2>6, <3>1, DerivationIsFull
    <3> QED BY <2>6, <3>2
  <2>7. CASE task.kind = "numeric"
    <3>1. Checked(answer) = Batch(<<Numeric(answer, spec)>>)
      BY <2>7 DEF Checked
    <3>2. AllFull(Checked(answer)) /\ Numeric(answer, spec) = "ok"
      BY <2>2, <3>1, BatchIsFull
    <3>3. answer.value # Absent
      BY <3>2 DEF Numeric
    <3> QED BY <2>1, <2>7, <3>2, <3>3, NumbersAreRight
  <2>8. CASE task.kind = "complexity"
    <3>1. Checked(answer) = Batch(<<Complexity(answer, spec)>>)
      BY <2>8 DEF Checked
    <3>2. AllFull(Checked(answer))
      BY <2>2, <2>8, <3>1, BatchIsFull
    <3> QED BY <2>8, <3>2
  <2>9. CASE task.kind = "shapes"
    <3>1. Checked(answer) = ShapeTable(answer, spec)
      BY <2>9 DEF Checked
    <3>2. AllFull(Checked(answer))
      BY <2>1, <2>2, <2>9, <3>1, ShapesAreFull
    <3> QED BY <2>9, <3>2
  <2>10. CASE task.kind = "writing"
    <3>1. Checked(answer) = Writing(answer, spec)
      BY <2>10 DEF Checked
    <3>2. AllFull(Checked(answer))
      BY <2>2, <2>10, <3>1, BatchIsFull DEF Writing
    <3> QED BY <2>10, <3>2
  <2> QED BY <2>1, <2>3, <2>4, <2>5, <2>6, <2>7, <2>8, <2>9, <2>10 DEF Kind
<1> QED BY <1>1, AnsweringIsTyped, PTL

----------------------------------------------------------------------------
(* What marks add up to.  The sums of the first marks are a function that is *)
(* defined by recursion; that there is one, and what it is for two lists of  *)
(* marks, is shown of the least length for which it would fail.              *)

Sums(f, marks, n) ==
    f = [i \in 0 .. n |-> IF i = 0 THEN <<0, 0>> ELSE Added(f[i - 1], marks[i])]
Total(sum) == IF sum[2] = 0 THEN <<0, 1>> ELSE <<sum[1], Scale * sum[2]>>

LEMMA SumsExist ==
    ASSUME NEW marks, NEW n \in Nat
    PROVE  \E f : Sums(f, marks, n)
<1>1. PICK without \in SUBSET Nat : without = {k \in Nat : ~ \E f : Sums(f, marks, k)}
  OBVIOUS
<1>2. ASSUME without # {} PROVE FALSE
  <2>1. PICK k \in without : \A j \in without : k <= j
    BY <1>2, LeastIs
  <2>2. CASE k = 0
    <3>1. PICK f : f = [i \in 0 .. 0 |-> <<0, 0>>]
      OBVIOUS
    <3>2. Sums(f, marks, 0)
      BY <3>1 DEF Sums
    <3> QED BY <1>1, <2>1, <2>2, <3>2
  <2>3. CASE k # 0
    <3>1. PICK f : Sums(f, marks, k - 1)
      BY <1>1, <2>1, <2>3
    <3>2. PICK g : g = [i \in 0 .. k |-> IF i = k THEN Added(f[k - 1], marks[k]) ELSE f[i]]
      OBVIOUS
    <3>3. ASSUME NEW i \in 0 .. k
          PROVE  g[i] = IF i = 0 THEN <<0, 0>> ELSE Added(g[i - 1], marks[i])
      <4>1. CASE i = k
        <5>1. k \in 0 .. k /\ k - 1 \in 0 .. k /\ k - 1 # k
          BY <2>3
        <5>2. g[k] = Added(f[k - 1], marks[k]) /\ g[k - 1] = f[k - 1]
          BY <3>2, <5>1
        <5> QED BY <2>3, <4>1, <5>2
      <4>2. CASE i # k
        <5>1. i \in 0 .. (k - 1) /\ (i # 0 => i - 1 \in 0 .. k /\ i - 1 # k)
          BY <2>3, <4>2
        <5>2. f[i] = IF i = 0 THEN <<0, 0>> ELSE Added(f[i - 1], marks[i])
          BY <3>1, <5>1 DEF Sums
        <5>3. g[i] = f[i] /\ (i # 0 => g[i - 1] = f[i - 1])
          BY <3>2, <4>2, <5>1
        <5> QED BY <5>2, <5>3
      <4> QED BY <4>1, <4>2
    <3>4. Sums(g, marks, k)
      <4>1. g = [i \in 0 .. k |-> g[i]]
        BY <3>2
      <4> QED BY <3>3, <4>1 DEF Sums
    <3> QED BY <1>1, <2>1, <3>4
  <2> QED BY <2>2, <2>3
<1> QED BY <1>1, <1>2

LEMMA AggregateIs ==
    ASSUME NEW marks, NEW n \in Nat, n = Len(marks)
    PROVE  \E f : Sums(f, marks, n) /\ Aggregate(marks) = Total(f[n])
<1>1. PICK f : f = (CHOOSE g : Sums(g, marks, Len(marks)))
  OBVIOUS
<1>2. Sums(f, marks, n)
  BY <1>1, SumsExist
<1>3. Aggregate(marks) = Total(f[Len(marks)])
  BY <1>1 DEF Aggregate, Sums, Total
<1> QED BY <1>2, <1>3

LEMMA SumsStep ==
    ASSUME NEW marks, NEW n \in Nat, NEW f, Sums(f, marks, n)
    PROVE  /\ f[0] = <<0, 0>>
           /\ \A i \in 1 .. n : f[i] = Added(f[i - 1], marks[i])
BY DEF Sums

\* What is true of nothing, and of a sum after a mark when it was before, is
\* true of the sums of two lists.
LEMMA ProductIsNat == ASSUME NEW a \in Nat, NEW c \in Nat PROVE a * c \in Nat
OBVIOUS
LEMMA ProductGrows ==
    ASSUME NEW a \in Nat, NEW b \in Nat, NEW c \in Nat, a <= b
    PROVE  a * c \in Nat /\ b * c \in Nat /\ a * c <= b * c
<1>1. a * c <= b * c
  BY Z3
<1> QED BY <1>1, ProductIsNat

MarkRec == [got : Nat, weight : Nat]
\* Two lists of marks of which each is worth the same, and the second has as much.
Worth(a, b, n) ==
    \A i \in 1 .. n : /\ a[i] \in MarkRec /\ b[i] \in MarkRec
                      /\ a[i].weight = b[i].weight /\ a[i].got <= b[i].got
Sides(s, t) == s \in Nat \X Nat /\ t \in Nat \X Nat /\ s[2] = t[2] /\ s[1] <= t[1]

LEMMA AddedSides ==
    ASSUME NEW s, NEW t, Sides(s, t), NEW a \in MarkRec, NEW b \in MarkRec,
           a.weight = b.weight, a.got <= b.got
    PROVE  Sides(Added(s, a), Added(t, b))
<1>1. PICK p \in Nat, q \in Nat, w \in Nat : s = <<p, w>> /\ t = <<q, w>> /\ p <= q
  BY DEF Sides
<1>2. PICK x \in Nat, y \in Nat, v \in Nat : /\ x = a.got /\ y = b.got /\ x <= y
                                             /\ v = a.weight /\ v = b.weight
  BY DEF MarkRec
<1>3. PICK l \in Nat, m \in Nat : l = x * v /\ m = y * v /\ l <= m
  BY <1>2, ProductGrows
<1>4. Added(s, a) = <<p + l, w + v>> /\ Added(t, b) = <<q + m, w + v>>
  BY <1>1, <1>2, <1>3 DEF Added
<1> QED BY <1>1, <1>2, <1>3, <1>4 DEF Sides

LEMMA SumsGrow ==
    ASSUME NEW a, NEW b, NEW n \in Nat, NEW f, NEW g, Sums(f, a, n), Sums(g, b, n),
           Worth(a, b, n)
    PROVE  Sides(f[n], g[n])
<1>1. f[0] = <<0, 0>> /\ \A i \in 1 .. n : f[i] = Added(f[i - 1], a[i])
  BY SumsStep
<1>2. g[0] = <<0, 0>> /\ \A i \in 1 .. n : g[i] = Added(g[i - 1], b[i])
  BY SumsStep
<1>3. PICK wrong \in SUBSET (0 .. n) : wrong = {i \in 0 .. n : ~Sides(f[i], g[i])}
  OBVIOUS
<1>4. ASSUME wrong # {} PROVE FALSE
  <2>1. PICK i \in wrong : \A j \in wrong : i <= j
    <3>1. wrong \in SUBSET Nat
      OBVIOUS
    <3> QED BY <1>4, <3>1, LeastIs
  <2>2. i \in 0 .. n /\ ~Sides(f[i], g[i])
    BY <1>3, <2>1
  <2>3. i # 0
    <3>1. Sides(<<0, 0>>, <<0, 0>>)
      BY DEF Sides
    <3> QED BY <1>1, <1>2, <2>2, <3>1
  <2>4. i \in 1 .. n /\ i - 1 \in 0 .. n /\ i - 1 \notin wrong
    BY <2>1, <2>2, <2>3
  <2>5. Sides(f[i - 1], g[i - 1])
    BY <1>3, <2>4
  <2>6. f[i] = Added(f[i - 1], a[i]) /\ g[i] = Added(g[i - 1], b[i])
    BY <1>1, <1>2, <2>4
  <2>7. /\ a[i] \in MarkRec /\ b[i] \in MarkRec
        /\ a[i].weight = b[i].weight /\ a[i].got <= b[i].got
    BY <2>4 DEF Worth
  <2> QED BY <2>2, <2>5, <2>6, <2>7, AddedSides
<1> QED BY <1>3, <1>4

Outscores(s, t) == \E x \in Nat, y \in Nat, d \in Nat : x <= y /\ t = <<x, d>> /\ s = <<y, d>>

\* Of two such lists the scores are shares of the same whole.
LEMMA MoreMarksMore ==
    ASSUME NEW a, NEW b, NEW n \in Nat, n = Len(a), n = Len(b), Worth(a, b, n)
    PROVE  Outscores(Aggregate(b), Aggregate(a))
<1>1. PICK f : Sums(f, a, n) /\ Aggregate(a) = Total(f[n])
  BY AggregateIs
<1>2. PICK g : Sums(g, b, n) /\ Aggregate(b) = Total(g[n])
  BY AggregateIs
<1>3. Sides(f[n], g[n])
  BY <1>1, <1>2, SumsGrow
<1>4. PICK x \in Nat, y \in Nat, w \in Nat : f[n] = <<x, w>> /\ g[n] = <<y, w>> /\ x <= y
  BY <1>3 DEF Sides
<1>5. PICK d \in Nat : d = Scale * w
  BY DEF Scale
<1>6. CASE w = 0
  BY <1>1, <1>2, <1>4, <1>6 DEF Total, Outscores
<1>7. CASE w # 0
  BY <1>1, <1>2, <1>4, <1>5, <1>7 DEF Total, Outscores
<1> QED BY <1>6, <1>7

LEMMA OutscoresIs ==
    ASSUME NEW s, NEW t, Outscores(s, t)
    PROVE  /\ AtLeast(s, t)
           /\ \A u \in Nat \X Nat : AtLeast(t, u) => AtLeast(s, u)
<1>1. PICK x \in Nat, y \in Nat, d \in Nat : x <= y /\ t = <<x, d>> /\ s = <<y, d>>
  BY DEF Outscores
<1>2. x * d <= y * d
  BY <1>1, ProductGrows
<1>3. ASSUME NEW p \in Nat, NEW q \in Nat, AtLeast(t, <<p, q>>) PROVE AtLeast(s, <<p, q>>)
  <2>1. PICK l \in Nat, m \in Nat, r \in Nat :
          l = x * q /\ m = y * q /\ l <= m /\ r = p * d
    BY <1>1, ProductGrows
  <2>2. l >= r
    BY <1>1, <1>3, <2>1 DEF AtLeast
  <2>3. m >= r
    BY <2>1, <2>2
  <2> QED BY <1>1, <2>1, <2>3 DEF AtLeast
<1>4. ASSUME NEW u \in Nat \X Nat, AtLeast(t, u) PROVE AtLeast(s, u)
  <2>1. PICK p \in Nat, q \in Nat : u = <<p, q>>
    OBVIOUS
  <2> QED BY <1>3, <1>4, <2>1
<1> QED BY <1>1, <1>2, <1>4 DEF AtLeast
\* The scores of one, two and three marks.
LEMMA ScoreOfOne ==
    ASSUME NEW marks, Len(marks) = 1
    PROVE  Aggregate(marks) = Total(Added(<<0, 0>>, marks[1]))
<1>1. PICK f : Sums(f, marks, 1) /\ Aggregate(marks) = Total(f[1])
  BY AggregateIs
<1>2. f[0] = <<0, 0>> /\ \A i \in 1 .. 1 : f[i] = Added(f[i - 1], marks[i])
  BY <1>1, SumsStep
<1>3. f[1] = Added(f[0], marks[1])
  BY <1>2
<1> QED BY <1>1, <1>2, <1>3

LEMMA ScoreOfTwo ==
    ASSUME NEW marks, Len(marks) = 2
    PROVE  Aggregate(marks) = Total(Added(Added(<<0, 0>>, marks[1]), marks[2]))
<1>1. PICK f : Sums(f, marks, 2) /\ Aggregate(marks) = Total(f[2])
  BY AggregateIs
<1>2. f[0] = <<0, 0>> /\ \A i \in 1 .. 2 : f[i] = Added(f[i - 1], marks[i])
  BY <1>1, SumsStep
<1>3. f[1] = Added(f[0], marks[1]) /\ f[2] = Added(f[1], marks[2])
  BY <1>2
<1> QED BY <1>1, <1>2, <1>3

LEMMA ScoreOfThree ==
    ASSUME NEW marks, Len(marks) = 3
    PROVE  Aggregate(marks)
             = Total(Added(Added(Added(<<0, 0>>, marks[1]), marks[2]), marks[3]))
<1>1. PICK f : Sums(f, marks, 3) /\ Aggregate(marks) = Total(f[3])
  BY AggregateIs
<1>2. f[0] = <<0, 0>> /\ \A i \in 1 .. 3 : f[i] = Added(f[i - 1], marks[i])
  BY <1>1, SumsStep
<1>3. f[1] = Added(f[0], marks[1]) /\ f[2] = Added(f[1], marks[2]) /\ f[3] = Added(f[2], marks[3])
  BY <1>2
<1> QED BY <1>1, <1>2, <1>3

\* A score, and that a mark of nothing scores least.
IsScore(s) == s \in Nat \X Nat
LEMMA NothingIsLeast ==
    ASSUME NEW s, IsScore(s), NEW w \in Nat
    PROVE  AtLeast(s, Aggregate(<<Mark(0, w)>>))
<1>1. PICK x \in Nat, d \in Nat : s = <<x, d>>
  BY DEF IsScore
<1>2. Added(<<0, 0>>, Mark(0, w)) = <<0, w>>
  BY DEF Added, Mark
<1>3. PICK e \in Nat : Aggregate(<<Mark(0, w)>>) = <<0, e>>
  <2>1. Aggregate(<<Mark(0, w)>>) = Total(<<0, w>>)
    BY <1>2, ScoreOfOne
  <2>2. PICK v \in Nat : v = Scale * w
    BY DEF Scale
  <2> QED BY <2>1, <2>2 DEF Total
<1>4. x * e \in Nat /\ 0 * d = 0
  BY ProductIsNat
<1> QED BY <1>1, <1>3, <1>4 DEF AtLeast

LEMMA ScoresAreScores ==
    ASSUME NEW s, NEW t, Outscores(s, t)
    PROVE  IsScore(s) /\ IsScore(t)
BY DEF Outscores, IsScore

----------------------------------------------------------------------------
(* Shares. *)

LEMMA QuotientIs ==
    ASSUME NEW x \in Nat, NEW m \in Nat \ {0}
    PROVE  x \div m \in Nat /\ (x \div m) * m <= x /\ x < (x \div m + 1) * m
BY Z3

LEMMA QuotientsGrow ==
    ASSUME NEW x \in Nat, NEW y \in Nat, NEW m \in Nat \ {0}, NEW n \in Nat \ {0},
           x * n <= y * m
    PROVE  x \div m <= y \div n
<1>1. PICK q \in Nat, r \in Nat : /\ q = x \div m /\ q * m <= x
                                  /\ r = y \div n /\ y < (r + 1) * n
  BY QuotientIs
<1>2. q * n <= y
  BY <1>1, Z3
<1>3. q <= r
  BY <1>1, <1>2, Z3
<1> QED BY <1>1, <1>3

\* A larger share of a whole, and one that is not larger than the whole.
LEMMA SharesGrow ==
    ASSUME NEW p \in Nat, NEW q \in Nat, NEW m \in Nat, NEW n \in Nat,
           p <= m, q <= n, p * n <= q * m, m <= n
    PROVE  /\ Share(p, m) \in Nat /\ Share(q, n) \in Nat
           /\ Share(p, m) <= Share(q, n) /\ Share(q, n) <= Scale
<1>1. CASE n = 0
  BY <1>1 DEF Share, Scale
<1>2. CASE n # 0
  <2>1. PICK y \in Nat : y = Scale * q /\ Share(q, n) = y \div n
    BY <1>2 DEF Share, Scale
  <2>2. y \div n \in Nat
    BY <1>2, <2>1, QuotientIs
  <2>3. y \div n <= Scale
    <3>1. y * 1 <= Scale * n
      BY <2>1 DEF Scale
    <3>2. y \div n <= Scale \div 1
      BY <1>2, <3>1, QuotientsGrow DEF Scale
    <3> QED BY <3>2 DEF Scale
  <2>4. CASE m = 0
    BY <2>1, <2>2, <2>3, <2>4 DEF Share
  <2>5. CASE m # 0
    <3>1. PICK x \in Nat : x = Scale * p /\ Share(p, m) = x \div m
      BY <2>5 DEF Share, Scale
    <3>2. x * n <= y * m
      <4>1. x * n = Scale * (p * n) /\ y * m = Scale * (q * m)
        BY <2>1, <3>1, Z3 DEF Scale
      <4>2. PICK k \in Nat, l \in Nat : k = p * n /\ l = q * m
        BY ProductIsNat
      <4> QED BY <4>1, <4>2 DEF Scale
    <3>3. x \div m \in Nat
      BY <2>5, QuotientIs
    <3> QED BY <1>2, <2>1, <2>2, <2>3, <2>5, <3>1, <3>2, <3>3, QuotientsGrow
  <2> QED BY <2>4, <2>5
<1> QED BY <1>1, <1>2

LEMMA SharesOfOne ==
    ASSUME NEW p \in Nat, NEW q \in Nat, NEW n \in Nat, p <= q, q <= n
    PROVE  /\ Share(p, n) \in Nat /\ Share(q, n) \in Nat
           /\ Share(p, n) <= Share(q, n) /\ Share(q, n) <= Scale
<1>1. p * n <= q * n /\ p <= n /\ n <= n
  BY ProductGrows
<1> QED BY <1>1, SharesGrow

\* Showing more of what is required.
LEMMA ShownMore ==
    ASSUME NEW R, IsFiniteSet(R), NEW A, NEW B, R \cap A \subseteq B
    PROVE  LET s == Share(Cardinality(R \cap A), Cardinality(R))
               t == Share(Cardinality(R \cap B), Cardinality(R))
           IN  s \in Nat /\ t \in Nat /\ s <= t /\ t <= Scale
<1>1. /\ IsFiniteSet(R \cap B) /\ Cardinality(R \cap B) <= Cardinality(R)
      /\ Cardinality(R \cap A) <= Cardinality(R \cap B) /\ IsFiniteSet(R \cap A)
  <2>1. IsFiniteSet(R \cap B) /\ Cardinality(R \cap B) <= Cardinality(R)
    BY FS_Subset, R \cap B \subseteq R
  <2>2. IsFiniteSet(R \cap A) /\ Cardinality(R \cap A) <= Cardinality(R \cap B)
    BY <2>1, FS_Subset, R \cap A \subseteq R \cap B
  <2> QED BY <2>1, <2>2
<1>2. PICK p \in Nat, q \in Nat, n \in Nat :
        p = Cardinality(R \cap A) /\ q = Cardinality(R \cap B) /\ n = Cardinality(R)
  BY <1>1, FS_CardinalityType
<1> QED BY <1>1, <1>2, SharesOfOne
LEMMA OneGrows ==
    ASSUME NEW x \in Nat, NEW y \in Nat, NEW w \in Nat, x <= y
    PROVE  Outscores(Aggregate(<<Mark(y, w)>>), Aggregate(<<Mark(x, w)>>))
<1> DEFINE a == <<Mark(x, w)>>
           b == <<Mark(y, w)>>
<1>1. 1 = Len(a) /\ 1 = Len(b) /\ Worth(a, b, 1)
  BY DEF Worth, MarkRec, Mark
<1> HIDE DEF a, b
<1>2. Outscores(Aggregate(b), Aggregate(a))
  BY <1>1, MoreMarksMore
<1> QED BY <1>2 DEF a, b

LEMMA PairGrows ==
    ASSUME NEW x \in Nat, NEW y \in Nat, NEW w \in Nat, x <= y,
           NEW u \in Nat, NEW z \in Nat, NEW v \in Nat, u <= z
    PROVE  Outscores(Aggregate(<<Mark(y, w), Mark(z, v)>>), Aggregate(<<Mark(x, w), Mark(u, v)>>))
<1> DEFINE a == <<Mark(x, w), Mark(u, v)>>
           b == <<Mark(y, w), Mark(z, v)>>
<1>1. 2 = Len(a) /\ 2 = Len(b) /\ Worth(a, b, 2)
  BY DEF Worth, MarkRec, Mark
<1> HIDE DEF a, b
<1>2. Outscores(Aggregate(b), Aggregate(a))
  BY <1>1, MoreMarksMore
<1> QED BY <1>2 DEF a, b

\* What the property says of a check's results for two answers.
NoWorse(r, s) ==
    /\ AtLeast(Aggregate(r.marks), Aggregate(s.marks))
    /\ s.status \in Good => r.status \in Good

LEMMA SameIsNoWorse ==
    ASSUME NEW r, NEW n \in Nat, n = Len(r.marks), Worth(r.marks, r.marks, n)
    PROVE  NoWorse(r, r)
<1>1. Outscores(Aggregate(r.marks), Aggregate(r.marks))
  BY MoreMarksMore
<1> QED BY <1>1, OutscoresIs DEF NoWorse

LEMMA NothingIsNoWorse == NoWorse(Invalid, Invalid)
<1>1. Invalid.marks = <<>> /\ 0 = Len(<<>>) /\ Worth(<<>>, <<>>, 0)
  BY DEF Invalid, Result, Worth
<1> QED BY <1>1, SameIsNoWorse

----------------------------------------------------------------------------
(* Proof outlines. *)

LEMMA CrossProducts ==
    ASSUME NEW p \in Nat, NEW q \in Nat, NEW m \in Nat, NEW n \in Nat,
           p <= m, m <= n, q >= p + (n - m)
    PROVE  p * n <= q * m
BY Z3

\* More steps, of which none that was justified or is new is not.
LEMMA OutlineGrows ==
    ASSUME NEW a \in Seq(BOOLEAN), NEW b \in Seq(BOOLEAN), Extends(a, b)
    PROVE  /\ Len(a) <= Len(b)
           /\ Held(a) <= Len(a) /\ Held(b) <= Len(b)
           /\ Held(b) >= Held(a) + (Len(b) - Len(a))
           /\ LET s == Share(Held(a), Len(a))
                  t == Share(Held(b), Len(b))
              IN s \in Nat /\ t \in Nat /\ s <= t
<1> DEFINE not(s) == {i \in DOMAIN s : ~s[i]}
<1>1. Len(a) <= Len(b) /\ not(b) \in SUBSET not(a)
  BY DEF Extends
<1>2. /\ Len(a) \in Nat /\ IsFiniteSet(not(a)) /\ Cardinality(not(a)) \in Nat
      /\ Held(a) \in Nat /\ Held(a) = Len(a) - Cardinality(not(a))
  BY HeldIs
<1>3. /\ Len(b) \in Nat /\ Cardinality(not(b)) \in Nat
      /\ Held(b) \in Nat /\ Held(b) = Len(b) - Cardinality(not(b))
  BY HeldIs
<1>4. Cardinality(not(b)) <= Cardinality(not(a))
  BY <1>1, <1>2, FS_Subset
<1> HIDE DEF not
<1>5. PICK p \in Nat, q \in Nat, m \in Nat, n \in Nat :
        /\ p = Held(a) /\ q = Held(b) /\ m = Len(a) /\ n = Len(b)
        /\ p <= m /\ q <= n /\ m <= n /\ q >= p + (n - m)
  BY <1>1, <1>2, <1>3, <1>4
<1>6. p * n <= q * m
  BY <1>5, CrossProducts
<1>7. Share(p, m) \in Nat /\ Share(q, n) \in Nat /\ Share(p, m) <= Share(q, n)
  BY <1>5, <1>6, SharesGrow
<1> QED BY <1>5, <1>7

LEMMA OutlineIsNoWorse ==
    ASSUME NEW a, NEW b, NEW spec, spec.minSteps \in Int,
           a.steps \in Seq(BOOLEAN), b.steps \in Seq(BOOLEAN), Extends(a.steps, b.steps)
    PROVE  NoWorse(ProofOutline(b, spec), ProofOutline(a, spec))
<1>1. PICK p \in Nat, q \in Nat, m \in Nat, n \in Nat, s \in Nat, t \in Nat :
        /\ p = Held(a.steps) /\ q = Held(b.steps) /\ m = Len(a.steps) /\ n = Len(b.steps)
        /\ s = Share(p, m) /\ t = Share(q, n)
        /\ s <= t /\ p <= m /\ q <= n /\ m <= n /\ q >= p + (n - m)
  <2>1. /\ Len(a.steps) <= Len(b.steps)
        /\ Held(a.steps) <= Len(a.steps) /\ Held(b.steps) <= Len(b.steps)
        /\ Held(b.steps) >= Held(a.steps) + (Len(b.steps) - Len(a.steps))
        /\ Share(Held(a.steps), Len(a.steps)) \in Nat /\ Share(Held(b.steps), Len(b.steps)) \in Nat
        /\ Share(Held(a.steps), Len(a.steps)) <= Share(Held(b.steps), Len(b.steps))
    BY OutlineGrows
  <2>2. /\ Len(a.steps) \in Nat /\ Len(b.steps) \in Nat
        /\ Held(a.steps) \in Nat /\ Held(b.steps) \in Nat
    BY HeldIs
  <2> QED BY <2>1, <2>2
<1> DEFINE less == Result("failed", <<Mark(0, 5)>>)
           one == Result("ok", <<Full(5)>>)
           r(v, x) == Result(v, <<Full(5), Mark(x, 5)>>)
<1>2. ProofOutline(a, spec) =
        IF spec.minSteps < 0 THEN Invalid ELSE IF m < spec.minSteps THEN less
        ELSE IF ~spec.justify THEN one
        ELSE IF p < m THEN r("failed", s) ELSE r("ok", s)
  BY <1>1, OutlineIs DEF Result
<1>3. ProofOutline(b, spec) =
        IF spec.minSteps < 0 THEN Invalid ELSE IF n < spec.minSteps THEN less
        ELSE IF ~spec.justify THEN one
        ELSE IF q < n THEN r("failed", t) ELSE r("ok", t)
  BY <1>1, OutlineIs DEF Result
<1>4. /\ less.marks = <<Mark(0, 5)>> /\ less.status \notin Good
      /\ one.marks = <<Mark(Scale, 5)>> /\ one.status \in Good
      /\ \A v, x : r(v, x).marks = <<Mark(Scale, 5), Mark(x, 5)>> /\ r(v, x).status = v
  BY DEF Result, Full, Good
<1> HIDE DEF less, one, r
<1>5. Scale \in Nat
  BY DEF Scale
<1>6. /\ Outscores(Aggregate(one.marks), Aggregate(one.marks))
      /\ Outscores(Aggregate(less.marks), Aggregate(less.marks))
  BY <1>4, <1>5, OneGrows
<1>7. \A v, w : Outscores(Aggregate(r(v, t).marks), Aggregate(r(w, s).marks))
  <2>1. Outscores(Aggregate(<<Mark(Scale, 5), Mark(t, 5)>>), Aggregate(<<Mark(Scale, 5), Mark(s, 5)>>))
    <3>1. s \in Nat /\ t \in Nat /\ s <= t /\ Scale <= Scale /\ 5 \in Nat
      BY <1>1, <1>5
    <3> QED BY <1>5, <3>1, PairGrows
  <2> QED BY <1>4, <2>1
<1>8. \A v : /\ AtLeast(Aggregate(r(v, t).marks), Aggregate(less.marks))
             /\ AtLeast(Aggregate(one.marks), Aggregate(less.marks))
  BY <1>4, <1>6, <1>7, ScoresAreScores, NothingIsLeast
<1>9. /\ AtLeast(Aggregate(one.marks), Aggregate(one.marks))
      /\ AtLeast(Aggregate(less.marks), Aggregate(less.marks))
      /\ \A v, w : AtLeast(Aggregate(r(v, t).marks), Aggregate(r(w, s).marks))
  BY <1>6, <1>7, OutscoresIs
<1>10. p < m \/ ~(q < n)
  <2>1. p <= m /\ q >= p + (n - m)
    BY <1>1
  <2> QED BY <2>1
<1>11. CASE spec.minSteps < 0
  BY <1>2, <1>3, <1>11, NothingIsNoWorse
<1>12. CASE ~(spec.minSteps < 0) /\ m < spec.minSteps
  BY <1>1, <1>2, <1>3, <1>4, <1>8, <1>9, <1>12 DEF NoWorse, Good
<1>13. CASE ~(spec.minSteps < 0) /\ ~(m < spec.minSteps)
  <2>1. ~(n < spec.minSteps)
    BY <1>1, <1>13
  <2>2. CASE spec.justify
    <3>1. ProofOutline(a, spec) = IF p < m THEN r("failed", s) ELSE r("ok", s)
      BY <1>2, <1>13, <2>2
    <3>2. ProofOutline(b, spec) = IF q < n THEN r("failed", t) ELSE r("ok", t)
      BY <1>3, <1>13, <2>1, <2>2
    <3>3. "failed" \notin Good /\ "ok" \in Good
      BY DEF Good
    <3> QED BY <1>4, <1>9, <1>10, <3>1, <3>2, <3>3 DEF NoWorse
  <2>3. CASE ~spec.justify
    BY <1>2, <1>3, <1>4, <1>9, <1>13, <2>1, <2>3 DEF NoWorse
  <2> QED BY <2>2, <2>3
<1> QED BY <1>11, <1>12, <1>13
----------------------------------------------------------------------------
(* Explanations. *)

LEMMA ExplanationIsNoWorse ==
    ASSUME NEW a, NEW b, NEW spec, IsFiniteSet(spec.concepts),
           spec.minWords \in Int, spec.maxWords \in Int \cup {Absent},
           a.words \in Nat, b.words \in Nat, a.words <= b.words, a.concepts \subseteq b.concepts,
           spec.maxWords # Absent => b.words <= spec.maxWords
    PROVE  NoWorse(Explanation(b, spec), Explanation(a, spec))
<1>1. PICK s \in Nat, t \in Nat :
        /\ s = Share(Cardinality(spec.concepts \cap a.concepts), Cardinality(spec.concepts))
        /\ t = Share(Cardinality(spec.concepts \cap b.concepts), Cardinality(spec.concepts))
        /\ s <= t
  <2>1. spec.concepts \cap a.concepts \subseteq b.concepts
    OBVIOUS
  <2> QED BY <2>1, ShownMore
<1> DEFINE r(v, x, y) == Result(v, <<Mark(x, 5), Mark(y, 5)>>)
           misfit(d) == \/ d.words < spec.minWords
                        \/ spec.maxWords # Absent /\ d.words > spec.maxWords
           unsound == \/ spec.minWords < 0
                      \/ spec.maxWords # Absent /\ spec.maxWords < spec.minWords
           lacks(d) == Unmet(spec.concepts, d.concepts) # {}
<1>2. Explanation(a, spec) =
        IF unsound THEN Invalid ELSE IF spec.concepts = {} THEN Invalid
        ELSE IF misfit(a) THEN r("failed", s, 0)
        ELSE IF lacks(a) THEN r("failed", s, Scale) ELSE r("ok", s, Scale)
  BY <1>1, ExplanationIs DEF Full
<1>3. Explanation(b, spec) =
        IF unsound THEN Invalid ELSE IF spec.concepts = {} THEN Invalid
        ELSE IF misfit(b) THEN r("failed", t, 0)
        ELSE IF lacks(b) THEN r("failed", t, Scale) ELSE r("ok", t, Scale)
  BY <1>1, ExplanationIs DEF Full
<1>4. misfit(b) => misfit(a)
  OBVIOUS
<1>5. lacks(b) => lacks(a)
  BY DEF Unmet
<1>6. \A v, x, y : r(v, x, y).marks = <<Mark(x, 5), Mark(y, 5)>> /\ r(v, x, y).status = v
  BY DEF Result
<1>7. "failed" \notin Good /\ "ok" \in Good /\ Scale \in Nat
  BY DEF Good, Scale
<1>8. \A y, z \in Nat : y <= z =>
        \A v, w : AtLeast(Aggregate(r(v, t, z).marks), Aggregate(r(w, s, y).marks))
  <2> SUFFICES ASSUME NEW y \in Nat, NEW z \in Nat, y <= z
               PROVE  AtLeast(Aggregate(<<Mark(t, 5), Mark(z, 5)>>), Aggregate(<<Mark(s, 5), Mark(y, 5)>>))
    BY <1>6
  <2>1. s <= t /\ 5 \in Nat
    BY <1>1
  <2>2. Outscores(Aggregate(<<Mark(t, 5), Mark(z, 5)>>), Aggregate(<<Mark(s, 5), Mark(y, 5)>>))
    BY <2>1, PairGrows
  <2> QED BY <2>2, OutscoresIs
<1> HIDE DEF r, misfit, unsound, lacks
<1>9. /\ \A v, w : AtLeast(Aggregate(r(v, t, 0).marks), Aggregate(r(w, s, 0).marks))
      /\ \A v, w : AtLeast(Aggregate(r(v, t, Scale).marks), Aggregate(r(w, s, 0).marks))
      /\ \A v, w : AtLeast(Aggregate(r(v, t, Scale).marks), Aggregate(r(w, s, Scale).marks))
  <2>1. 0 \in Nat /\ 0 <= Scale /\ 0 <= 0 /\ Scale <= Scale
    BY DEF Scale
  <2> QED BY <1>7, <1>8, <2>1
<1>10. CASE unsound \/ spec.concepts = {}
  BY <1>2, <1>3, <1>10, NothingIsNoWorse
<1>11. CASE ~unsound /\ spec.concepts # {} /\ misfit(a)
  <2>1. Explanation(a, spec) = r("failed", s, 0)
    BY <1>2, <1>11
  <2>2. \E v : Explanation(b, spec) \in {r(v, t, 0), r(v, t, Scale)}
    BY <1>3, <1>11
  <2> QED BY <1>6, <1>7, <1>9, <2>1, <2>2 DEF NoWorse
<1>12. CASE ~unsound /\ spec.concepts # {} /\ ~misfit(a)
  <2>1. Explanation(a, spec) = IF lacks(a) THEN r("failed", s, Scale) ELSE r("ok", s, Scale)
    BY <1>2, <1>12
  <2>2. Explanation(b, spec) = IF lacks(b) THEN r("failed", t, Scale) ELSE r("ok", t, Scale)
    BY <1>3, <1>4, <1>12
  <2> QED BY <1>5, <1>6, <1>7, <1>9, <2>1, <2>2 DEF NoWorse
<1> QED BY <1>10, <1>11, <1>12

----------------------------------------------------------------------------
(* Counterexamples, unless the author's verifier rejects the witness. *)

\* The score of a counterexample that the verifier accepts is the most there is.
LEMMA VerifiedScore ==
    LET all == Append(<<Full(3), Full(3)>>, Full(4)) IN Aggregate(all) = <<1200, 1200>>
<1> DEFINE all == Append(<<Full(3), Full(3)>>, Full(4))
<1>1. Len(all) = 3 /\ all[1] = Mark(120, 3) /\ all[2] = Mark(120, 3) /\ all[3] = Mark(120, 4)
  <2>1. DOMAIN all = 1 .. 3 /\ all[1] = Full(3) /\ all[2] = Full(3) /\ all[3] = Full(4)
    BY Third
  <2>2. Len(all) = 3
    OBVIOUS
  <2> QED BY <2>1, <2>2 DEF Full, Scale
<1> HIDE DEF all
<1>2. Aggregate(all) = Total(Added(Added(Added(<<0, 0>>, Mark(120, 3)), Mark(120, 3)), Mark(120, 4)))
  BY <1>1, ScoreOfThree
<1>3. Added(<<0, 0>>, Mark(120, 3)) = <<360, 3>>
  BY DEF Added, Mark
<1>4. Added(<<360, 3>>, Mark(120, 3)) = <<720, 6>>
  BY DEF Added, Mark
<1>5. Added(<<720, 6>>, Mark(120, 4)) = <<1200, 10>>
  BY DEF Added, Mark
<1>6. Aggregate(all) = Total(<<1200, 10>>)
  BY <1>2, <1>3, <1>4, <1>5
<1> QED BY <1>6 DEF all, Total, Scale

LEMMA VerifiedIsMost ==
    ASSUME NEW s \in Nat, s <= Scale
    PROVE  AtLeast(<<1200, 1200>>, Aggregate(<<Full(3), Mark(s, 3)>>))
<1> DEFINE some == <<Full(3), Mark(s, 3)>>
<1>1. Len(some) = 2 /\ some[1] = Mark(120, 3) /\ some[2] = Mark(s, 3)
  BY DEF Full, Scale
<1> HIDE DEF some
<1>2. Aggregate(some) = Total(Added(Added(<<0, 0>>, Mark(120, 3)), Mark(s, 3)))
  BY <1>1, ScoreOfTwo
<1>3. Added(<<0, 0>>, Mark(120, 3)) = <<360, 3>>
  BY DEF Added, Mark
<1>4. Added(<<360, 3>>, Mark(s, 3)) = <<360 + s * 3, 6>>
  BY DEF Added, Mark
<1>5. Aggregate(some) = <<360 + s * 3, 720>>
  BY <1>2, <1>3, <1>4 DEF Total, Scale
<1>6. 1200 * 720 >= (360 + s * 3) * 1200
  BY DEF Scale
<1> QED BY <1>5, <1>6 DEF AtLeast, some

LEMMA ScoreIsNoLess == ASSUME NEW s, IsScore(s) PROVE AtLeast(s, s)
<1>1. PICK x \in Nat, d \in Nat : s = <<x, d>>
  BY DEF IsScore
<1>2. x * d \in Nat
  BY ProductIsNat
<1> QED BY <1>1, <1>2 DEF AtLeast

LEMMA CounterexampleIsNoWorse ==
    ASSUME NEW a, NEW b, NEW spec, IsFiniteSet(spec.mustViolate),
           a.witness => b.witness, a.violates \subseteq b.violates, spec.verifier # "rejects"
    PROVE  NoWorse(Counterexample(b, spec), Counterexample(a, spec))
<1>1. PICK s \in Nat, t \in Nat :
        /\ s = Share(Cardinality(spec.mustViolate \cap a.violates), Cardinality(spec.mustViolate))
        /\ t = Share(Cardinality(spec.mustViolate \cap b.violates), Cardinality(spec.mustViolate))
        /\ s <= t /\ t <= Scale
  <2>1. spec.mustViolate \cap a.violates \subseteq b.violates
    OBVIOUS
  <2> QED BY <2>1, ShownMore
<1> DEFINE lacks(d) == Unmet(spec.mustViolate, d.violates) # {}
           claims(x) == <<Full(3), Mark(x, 3)>>
           verified(x) == Append(claims(x), Full(4))
           less == Result("failed", <<Mark(0, 5)>>)
           some(v, x) == Result(v, claims(x))
           all(x) == Result("ok", verified(x))
           worth(x) == IF spec.verifier = "none" THEN some("ok", x)
                       ELSE IF spec.verifier = "throws" THEN some("spec_invalid", x) ELSE all(x)
<1>2. Counterexample(a, spec) =
        IF spec.mustViolate = {} THEN Invalid ELSE IF ~a.witness THEN less
        ELSE IF lacks(a) THEN some("failed", s) ELSE worth(s)
  BY <1>1, CounterexampleIs
<1>3. Counterexample(b, spec) =
        IF spec.mustViolate = {} THEN Invalid ELSE IF ~b.witness THEN less
        ELSE IF lacks(b) THEN some("failed", t) ELSE worth(t)
  BY <1>1, CounterexampleIs
<1>4. lacks(b) => lacks(a)
  BY DEF Unmet
<1>5. spec.mustViolate # {} => (~lacks(a) => s = Scale) /\ (~lacks(b) => t = Scale)
  BY <1>1, MetInFull
<1>6. less.marks = <<Mark(0, 5)>> /\ less.status = "failed"
  BY DEF Result
<1>7. \A v, x : some(v, x).marks = <<Mark(Scale, 3), Mark(x, 3)>> /\ some(v, x).status = v
  BY DEF Result, Full
<1>8. all(Scale).marks = Append(<<Full(3), Full(3)>>, Full(4)) /\ all(Scale).status = "ok"
  BY DEF Result, Full
<1>9. "failed" \notin Good /\ "ok" \in Good /\ "spec_invalid" \notin Good /\ Scale \in Nat
  BY DEF Good, Scale
<1> HIDE DEF less, some, all, lacks
<1>10. \A v, w : Outscores(Aggregate(some(v, t).marks), Aggregate(some(w, s).marks))
  <2>1. Scale <= Scale /\ s <= t /\ 3 \in Nat
    BY <1>1, <1>9
  <2>2. Outscores(Aggregate(<<Mark(Scale, 3), Mark(t, 3)>>), Aggregate(<<Mark(Scale, 3), Mark(s, 3)>>))
    BY <1>9, <2>1, PairGrows
  <2> QED BY <1>7, <2>2
<1>11. Aggregate(all(Scale).marks) = <<1200, 1200>> /\ IsScore(<<1200, 1200>>)
  BY <1>8, VerifiedScore DEF IsScore
<1>12. \A v : AtLeast(Aggregate(all(Scale).marks), Aggregate(some(v, s).marks))
  <2>1. s <= Scale
    BY <1>1, <1>9
  <2> QED BY <1>7, <1>11, <2>1, VerifiedIsMost DEF Full
<1>13. IsScore(Aggregate(less.marks))
  <2>1. Outscores(Aggregate(<<Mark(0, 5)>>), Aggregate(<<Mark(0, 5)>>))
    BY OneGrows, 0 \in Nat, 5 \in Nat, 0 <= 0
  <2> QED BY <1>6, <2>1, ScoresAreScores
<1>14. \A v : IsScore(Aggregate(some(v, t).marks))
  BY <1>10, ScoresAreScores
<1>15. CASE spec.mustViolate = {}
  BY <1>2, <1>3, <1>15, NothingIsNoWorse
<1>16. CASE spec.mustViolate # {} /\ ~a.witness
  <2>1. Counterexample(a, spec) = less
    BY <1>2, <1>16
  <2>2. \/ Counterexample(b, spec) = less
        \/ \E v : Counterexample(b, spec) = some(v, t)
        \/ Counterexample(b, spec) = all(Scale)
    BY <1>3, <1>5, <1>16
  <2>3. IsScore(Aggregate(Counterexample(b, spec).marks))
    BY <1>11, <1>13, <1>14, <2>2
  <2>4. AtLeast(Aggregate(Counterexample(b, spec).marks), Aggregate(less.marks))
    BY <1>6, <2>3, NothingIsLeast, 5 \in Nat
  <2> QED BY <1>6, <1>9, <2>1, <2>4 DEF NoWorse
<1>17. CASE spec.mustViolate # {} /\ a.witness /\ lacks(a)
  <2>1. Counterexample(a, spec) = some("failed", s)
    BY <1>2, <1>17
  <2>2. \/ \E v : Counterexample(b, spec) = some(v, t)
        \/ Counterexample(b, spec) = all(Scale)
    BY <1>3, <1>5, <1>17
  <2>3. AtLeast(Aggregate(Counterexample(b, spec).marks), Aggregate(some("failed", s).marks))
    BY <1>10, <1>12, <2>2, OutscoresIs
  <2> QED BY <1>7, <1>9, <2>1, <2>3 DEF NoWorse
<1>18. CASE spec.mustViolate # {} /\ a.witness /\ ~lacks(a)
  <2>1. s = t /\ t = Scale
    BY <1>4, <1>5, <1>18
  <2>2. Counterexample(b, spec) = worth(t) /\ Counterexample(a, spec) = worth(t)
    BY <1>2, <1>3, <1>4, <1>18, <2>1
  <2>3. worth(t) = all(Scale) \/ \E v : worth(t) = some(v, t)
    BY <2>1
  <2>4. IsScore(Aggregate(worth(t).marks))
    BY <1>11, <1>14, <2>3
  <2> QED BY <2>2, <2>4, ScoreIsNoLess DEF NoWorse
<1> QED BY <1>15, <1>16, <1>17, <1>18
----------------------------------------------------------------------------
(* Lists of values, bounds, steps and claims. *)

LEMMA ListIs ==
    ASSUME NEW n \in Nat, NEW f, DOMAIN f = 1 .. n, f = [i \in 1 .. n |-> f[i]]
    PROVE  Len(f) = n
<1>1. f \in Seq({f[i] : i \in 1 .. n})
  OBVIOUS
<1> QED BY <1>1

\* Two lists of n results of which each is right when it was before.
LEMMA BatchIsNoWorse ==
    ASSUME NEW n \in Nat, NEW a, DOMAIN a = 1 .. n, NEW b, DOMAIN b = 1 .. n,
           a = <<>> <=> n = 0, b = <<>> <=> n = 0,
           \A i \in 1 .. n : a[i] = "ok" => b[i] = "ok"
    PROVE  NoWorse(Batch(b), Batch(a))
<1> DEFINE marks(r) == [i \in 1 .. n |-> Mark(IF r[i] = "ok" THEN Scale ELSE 0, 10)]
<1>1. /\ Batch(a).marks = marks(a) /\ Batch(b).marks = marks(b)
      /\ Batch(a).status \in Good => Batch(b).status \in Good
  BY DEF Batch, Result, Good
<1>2. Len(marks(a)) = n /\ Len(marks(b)) = n
  BY ListIs
<1>3. Worth(marks(a), marks(b), n)
  BY DEF Worth, MarkRec, Mark, Scale
<1> HIDE DEF marks
<1>4. Outscores(Aggregate(marks(b)), Aggregate(marks(a)))
  BY <1>2, <1>3, MoreMarksMore
<1> QED BY <1>1, <1>4, OutscoresIs DEF NoWorse

LEMMA OneIsNoWorse ==
    ASSUME NEW r, NEW s, s = "ok" => r = "ok"
    PROVE  NoWorse(Batch(<<r>>), Batch(<<s>>))
<1> DEFINE a == <<s>>
           b == <<r>>
<1>1. /\ DOMAIN a = 1 .. 1 /\ DOMAIN b = 1 .. 1 /\ a # <<>> /\ b # <<>> /\ 1 \in Nat /\ 1 # 0
      /\ a[1] = s /\ b[1] = r
  OBVIOUS
<1> HIDE DEF a, b
<1>2. \A i \in 1 .. 1 : a[i] = "ok" => b[i] = "ok"
  BY <1>1
<1>3. NoWorse(Batch(b), Batch(a))
  BY <1>1, <1>2, BatchIsNoWorse
<1> QED BY <1>3 DEF a, b

LEMMA StatusIs ==
    ASSUME NEW entries, NEW step
    PROVE  StepStatus(entries, step) =
             IF ~step.hasForms THEN "spec_invalid"
             ELSE IF LastForm(entries, step.id) = "blank" THEN "missing"
             ELSE IF LastForm(entries, step.id) = "accepted" THEN "passed" ELSE "mismatch"
<1> DEFINE form == LastForm(entries, step.id)
           rules == << <<~step.hasForms, "spec_invalid">>, <<form = "blank", "missing">>,
                       <<form = "accepted", "passed">>, <<TRUE, "mismatch">> >>
<1>1. StepStatus(entries, step) = Decide(rules)
  BY DEF StepStatus
<1> HIDE DEF form
<1>2. DOMAIN rules = 1 .. 4 /\ rules[4][1] /\ rules[4][2] = "mismatch"
  OBVIOUS
<1>3. (rules[1][1] <=> ~step.hasForms) /\ rules[1][2] = "spec_invalid"
  OBVIOUS
<1>4. (rules[2][1] <=> form = "blank") /\ rules[2][2] = "missing"
  OBVIOUS
<1>5. (rules[3][1] <=> form = "accepted") /\ rules[3][2] = "passed"
  OBVIOUS
<1> HIDE DEF rules
<1>6. PICK i \in 1 .. 4 : /\ rules[i][1] /\ Decide(rules) = rules[i][2]
                         /\ \A j \in 1 .. 4 : j < i => ~rules[j][1]
  BY <1>2, FirstRule, 4 \in Nat, 4 # 0
<1> QED BY <1>1, <1>2, <1>3, <1>4, <1>5, <1>6 DEF form

LEMMA DerivationIsNoWorse ==
    ASSUME NEW a, NEW b, NEW spec, List(spec.steps),
           \A i \in DOMAIN spec.steps : spec.steps[i].weight \in Nat,
           \A i \in DOMAIN spec.steps :
              LastForm(b.entries, spec.steps[i].id)
                \in {"accepted", LastForm(a.entries, spec.steps[i].id)}
    PROVE  NoWorse(Derivation(b, spec), Derivation(a, spec))
<1>1. PICK n \in Nat : n = Len(spec.steps) /\ DOMAIN spec.steps = 1 .. n
  BY DEF List
<1> DEFINE status(d, i) == StepStatus(d.entries, spec.steps[i])
           earned(d, i) == \/ status(d, i) = "passed"
                           \/ status(d, i) = "missing" /\ ~spec.steps[i].required
           marks(d) == [i \in 1 .. n |-> Mark(IF earned(d, i) THEN Scale ELSE 0,
                                              spec.steps[i].weight)]
<1>2. ASSUME NEW i \in 1 .. n
      PROVE  /\ status(a, i) = "passed" => status(b, i) = "passed"
             /\ earned(a, i) => earned(b, i)
  BY <1>1, StatusIs
<1>3. /\ Derivation(a, spec).marks = marks(a) /\ Derivation(b, spec).marks = marks(b)
      /\ Derivation(a, spec).status \in Good =>
           spec.steps # <<>> /\ \A i \in 1 .. n : status(a, i) = "passed"
      /\ spec.steps # <<>> /\ (\A i \in 1 .. n : status(b, i) = "passed") =>
           Derivation(b, spec).status \in Good
  BY <1>1 DEF Derivation, Result, Good
<1> HIDE DEF status
<1>4. Len(marks(a)) = n /\ Len(marks(b)) = n
  BY ListIs
<1>5. Worth(marks(a), marks(b), n)
  BY <1>1, <1>2 DEF Worth, MarkRec, Mark, Scale
<1> HIDE DEF marks
<1>6. Outscores(Aggregate(marks(b)), Aggregate(marks(a)))
  BY <1>4, <1>5, MoreMarksMore
<1> QED BY <1>2, <1>3, <1>6, OutscoresIs DEF NoWorse

\* Shapes: the ones that are right, and the ones nobody asked for.
LEMMA ShapesAreNoWorse ==
    ASSUME NEW a, NEW b, NEW spec, IsFiniteSet(DOMAIN spec.expected),
           Matching(a.shapes, spec.expected) \subseteq Matching(b.shapes, spec.expected),
           DOMAIN b.shapes \ DOMAIN spec.expected \subseteq DOMAIN a.shapes
    PROVE  NoWorse(ShapeTable(b, spec), ShapeTable(a, spec))
<1> DEFINE names == DOMAIN spec.expected
           right(d) == Matching(d.shapes, spec.expected)
           extra(d) == IF spec.allowExtra THEN {} ELSE DOMAIN d.shapes \ names
           share(d) == Share(Cardinality(right(d)), Cardinality(names))
<1>1. \A d : {n \in names : n \in DOMAIN d.shapes /\ d.shapes[n] = spec.expected[n]} = right(d)
  BY DEF Matching
<1>2. \A d : /\ ShapeTable(d, spec).marks = <<Mark(share(d), 10)>>
             /\ ShapeTable(d, spec).status \in Good <=>
                  names # {} /\ right(d) = names /\ extra(d) = {}
  BY <1>1 DEF ShapeTable, Result, Good
<1>3. \A d : right(d) = names \cap right(d)
  BY DEF Matching
<1>4. share(a) \in Nat /\ share(b) \in Nat /\ share(a) <= share(b)
  <2>1. names \cap right(a) \subseteq right(b)
    OBVIOUS
  <2> HIDE DEF names, right
  <2>2. IsFiniteSet(names)
    BY DEF names
  <2> QED BY <1>3, <2>1, <2>2, ShownMore
<1>5. ShapeTable(a, spec).status \in Good => ShapeTable(b, spec).status \in Good
  BY <1>2, <1>3
<1> HIDE DEF share
<1>6. Outscores(Aggregate(<<Mark(share(b), 10)>>), Aggregate(<<Mark(share(a), 10)>>))
  BY <1>4, OneGrows, 10 \in Nat
<1> QED BY <1>2, <1>5, <1>6, OutscoresIs DEF NoWorse
----------------------------------------------------------------------------
(* Claims. *)

LEMMA ClaimIs ==
    ASSUME NEW claim, NEW policy, NEW accepted, NEW holders,
           accepted = claim.refs \cap policy.allowed,
           holders = (claim.refs \ policy.allowed) \cap policy.placeholders
    PROVE  ClaimReason(claim, policy) =
             IF ~claim.wellFormed THEN "spec_invalid"
             ELSE IF Outside(claim, policy) # {} THEN "disallowed_citation"
             ELSE IF accepted # {} THEN "ok"
             ELSE IF holders # {} /\ ~policy.allowHolders THEN "placeholder_disallowed"
             ELSE IF holders # {} \/ ~claim.required THEN "ok" ELSE "no_citation"
<1> DEFINE rules == <<
             <<~claim.wellFormed, "spec_invalid">>,
             <<claim.refs \ (accepted \cup holders) # {}, "disallowed_citation">>,
             <<accepted # {}, "ok">>,
             <<holders # {} /\ ~policy.allowHolders, "placeholder_disallowed">>,
             <<holders # {} \/ ~claim.required, "ok">>,
             <<TRUE, "no_citation">> >>
<1>1. ClaimReason(claim, policy) = Decide(rules)
  BY DEF ClaimReason
<1>2. DOMAIN rules = 1 .. 6 /\ rules[6][1] /\ rules[6][2] = "no_citation"
  OBVIOUS
<1>3. (rules[1][1] <=> ~claim.wellFormed) /\ rules[1][2] = "spec_invalid"
  OBVIOUS
<1>4. /\ rules[2][1] <=> claim.refs \ (accepted \cup holders) # {}
      /\ rules[2][2] = "disallowed_citation"
  OBVIOUS
<1>5. (rules[3][1] <=> accepted # {}) /\ rules[3][2] = "ok"
  OBVIOUS
<1>6. /\ rules[4][1] <=> holders # {} /\ ~policy.allowHolders
      /\ rules[4][2] = "placeholder_disallowed"
  OBVIOUS
<1>7. (rules[5][1] <=> holders # {} \/ ~claim.required) /\ rules[5][2] = "ok"
  OBVIOUS
<1> HIDE DEF rules
<1>8. PICK i \in 1 .. 6 : /\ rules[i][1] /\ Decide(rules) = rules[i][2]
                         /\ \A j \in 1 .. 6 : j < i => ~rules[j][1]
  BY <1>2, FirstRule, 6 \in Nat, 6 # 0
<1>9. claim.refs \ (accepted \cup holders) = Outside(claim, policy)
  BY DEF Outside
<1> QED BY <1>1, <1>2, <1>3, <1>4, <1>5, <1>6, <1>7, <1>8, <1>9

LEMMA NothingListed ==
    ASSUME NEW n \in Nat, NEW f, DOMAIN f = 1 .. n, f = [i \in 1 .. n |-> f[i]]
    PROVE  f = <<>> <=> n = 0
<1>1. n # 0 => 1 \in DOMAIN f
  OBVIOUS
<1>2. n # 0 => f # <<>>
  BY <1>1
<1>3. ASSUME n = 0 PROVE f = <<>>
  <2>1. DOMAIN f = {} /\ f = [i \in {} |-> f[i]]
    BY <1>3
  <2> QED BY <2>1
<1> QED BY <1>2, <1>3

\* A claim that keeps its authorised references and adds nothing else.
AsBacked(claim, other, policy) ==
    /\ other.required = claim.required
    /\ other.wellFormed => claim.wellFormed
    /\ Outside(claim, policy) \subseteq Outside(other, policy)
    /\ other.refs \cap policy.allowed \subseteq claim.refs
    /\ claim.refs \cap policy.placeholders \subseteq other.refs
    /\ other.refs # {} => claim.refs # {}

LEMMA ClaimIsNoWorse ==
    ASSUME NEW claim, NEW other, NEW policy, AsBacked(claim, other, policy),
           ClaimReason(other, policy) = "ok"
    PROVE  ClaimReason(claim, policy) = "ok"
<1> DEFINE accepted(c) == c.refs \cap policy.allowed
           holders(c) == (c.refs \ policy.allowed) \cap policy.placeholders
           reason(c) == IF ~c.wellFormed THEN "spec_invalid"
                        ELSE IF Outside(c, policy) # {} THEN "disallowed_citation"
                        ELSE IF accepted(c) # {} THEN "ok"
                        ELSE IF holders(c) # {} /\ ~policy.allowHolders
                             THEN "placeholder_disallowed"
                        ELSE IF holders(c) # {} \/ ~c.required THEN "ok" ELSE "no_citation"
<1>1. ClaimReason(other, policy) = reason(other) /\ ClaimReason(claim, policy) = reason(claim)
  BY ClaimIs
<1>2. /\ \A c : c.refs = accepted(c) \cup holders(c) \cup Outside(c, policy)
      /\ accepted(other) \subseteq accepted(claim)
      /\ holders(claim) \subseteq other.refs
  BY DEF Outside, AsBacked
<1>3. /\ other.required = claim.required /\ (other.wellFormed => claim.wellFormed)
      /\ Outside(claim, policy) \subseteq Outside(other, policy)
      /\ other.refs # {} => claim.refs # {}
  BY DEF AsBacked
<1> HIDE DEF accepted, holders
<1>4. /\ other.wellFormed /\ Outside(other, policy) = {}
      /\ \/ accepted(other) # {}
         \/ holders(other) # {} /\ policy.allowHolders
         \/ holders(other) = {} /\ ~other.required
  BY <1>1
<1>5. claim.wellFormed /\ Outside(claim, policy) = {}
  BY <1>3, <1>4
<1>6. CASE accepted(claim) # {}
  BY <1>1, <1>5, <1>6
<1>7. CASE accepted(claim) = {}
  <2>1. accepted(other) = {}
    BY <1>2, <1>7
  <2>2. CASE holders(other) # {} /\ policy.allowHolders
    <3>1. claim.refs # {}
      BY <1>2, <1>3, <2>2
    <3>2. holders(claim) # {}
      BY <1>2, <1>5, <1>7, <3>1
    <3> QED BY <1>1, <1>5, <1>7, <2>2, <3>2
  <2>3. CASE holders(other) = {} /\ ~other.required
    <3>1. other.refs = {}
      BY <1>2, <1>4, <2>1, <2>3
    <3>2. holders(claim) = {}
      BY <1>2, <3>1
    <3> QED BY <1>1, <1>3, <1>5, <1>7, <2>3, <3>2
  <2> QED BY <1>4, <2>1, <2>2, <2>3
<1> QED BY <1>6, <1>7

LEMMA WritingIsNoWorse ==
    ASSUME NEW a, NEW b, NEW spec, List(a.claims), List(b.claims),
           Len(a.claims) = Len(b.claims),
           \A i \in DOMAIN a.claims : AsBacked(b.claims[i], a.claims[i], spec.policy)
    PROVE  NoWorse(Writing(b, spec), Writing(a, spec))
<1>1. PICK n \in Nat : /\ n = Len(a.claims) /\ DOMAIN a.claims = 1 .. n
                       /\ n = Len(b.claims) /\ DOMAIN b.claims = 1 .. n
  BY DEF List
<1> DEFINE reasons(d) == [i \in DOMAIN d.claims |-> ClaimReason(d.claims[i], spec.policy)]
<1>2. DOMAIN reasons(a) = 1 .. n /\ DOMAIN reasons(b) = 1 .. n
  BY <1>1
<1>3. (reasons(a) = <<>> <=> n = 0) /\ (reasons(b) = <<>> <=> n = 0)
  BY <1>1, NothingListed
<1>4. \A i \in 1 .. n : reasons(a)[i] = "ok" => reasons(b)[i] = "ok"
  BY <1>1, ClaimIsNoWorse
<1> HIDE DEF reasons
<1>5. NoWorse(Batch(reasons(b)), Batch(reasons(a)))
  BY <1>2, <1>3, <1>4, BatchIsNoWorse
<1> QED BY <1>5 DEF Writing, reasons

----------------------------------------------------------------------------
(* Values and bounds. *)

LEMMA LeafIsNoWorse ==
    ASSUME NEW a \in Int \cup {NotFinite}, NEW b \in Int \cup {NotFinite}, NEW e \in Int,
           NEW spec, {spec.absolute, spec.relative} \subseteq Int \cup {Absent},
           AsClose(a, b, e), LeafReason(a, e, spec) = "ok"
    PROVE  LeafReason(b, e, spec) = "ok"
<1>1. a # NotFinite /\ b # NotFinite /\ Magnitude(b - e) <= Magnitude(a - e)
  BY DEF LeafReason, AsClose
<1>2. PICK x \in Int, y \in Int : /\ x = Magnitude(a - e) /\ y = Magnitude(b - e) /\ y <= x
  <2>1. a \in Int /\ b \in Int
    BY <1>1
  <2>2. Magnitude(a - e) \in Int /\ Magnitude(b - e) \in Int
    BY <2>1 DEF Magnitude
  <2> QED BY <1>1, <2>2
<1>3. PICK z : z = 10 * Given(spec.absolute) + Given(spec.relative) * Magnitude(e)
  OBVIOUS
<1>4. z \in Int
  <2>1. PICK p \in Int, q \in Int, m \in Int :
          p = Given(spec.absolute) /\ q = Given(spec.relative) /\ m = Magnitude(e)
    BY DEF Given, Magnitude
  <2> QED BY <1>3, <2>1
<1>5. 10 * x <= z
  BY <1>1, <1>2, <1>3 DEF LeafReason
<1>6. 10 * y <= z
  BY <1>2, <1>4, <1>5
<1> QED BY <1>1, <1>2, <1>3, <1>6 DEF LeafReason

LEMMA NumericIsNoWorse ==
    ASSUME NEW a, NEW b, NEW spec, spec.expected.leaves \in Seq(Int),
           {spec.absolute, spec.relative} \subseteq Int \cup {Absent},
           a.value # Absent, b.value # Absent,
           a.value.leaves \in Seq(Int \cup {NotFinite}), b.value.leaves \in Seq(Int \cup {NotFinite}),
           a.unit = b.unit, a.value.shape = b.value.shape, a.value.uniform => b.value.uniform,
           Len(a.value.leaves) = Len(spec.expected.leaves),
           Len(b.value.leaves) = Len(a.value.leaves),
           \A i \in DOMAIN a.value.leaves :
              AsClose(a.value.leaves[i], b.value.leaves[i], spec.expected.leaves[i])
    PROVE  NoWorse(Batch(<<Numeric(b, spec)>>), Batch(<<Numeric(a, spec)>>))
<1> SUFFICES ASSUME Numeric(a, spec) = "ok" PROVE Numeric(b, spec) = "ok"
  BY OneIsNoWorse
<1>1. \A i \in DOMAIN a.value.leaves :
        LeafReason(a.value.leaves[i], spec.expected.leaves[i], spec) = "ok"
  <2>1. DOMAIN a.value.leaves \subseteq Nat
    OBVIOUS
  <2> QED BY <2>1, NumbersAreRight
<1>2. ASSUME NEW i \in DOMAIN b.value.leaves
      PROVE  LeafReason(b.value.leaves[i], spec.expected.leaves[i], spec) = "ok"
  <2>1. i \in DOMAIN a.value.leaves /\ i \in DOMAIN spec.expected.leaves
    OBVIOUS
  <2>2. /\ a.value.leaves[i] \in Int \cup {NotFinite} /\ b.value.leaves[i] \in Int \cup {NotFinite}
        /\ spec.expected.leaves[i] \in Int
    BY <2>1
  <2>3. AsClose(a.value.leaves[i], b.value.leaves[i], spec.expected.leaves[i])
    BY <2>1
  <2> QED BY <1>1, <2>1, <2>2, <2>3, LeafIsNoWorse
<1>3. ReasonOfLeaves(b.value, spec) = "ok"
  BY <1>2 DEF ReasonOfLeaves
<1> QED BY <1>3 DEF Numeric

LEMMA ComplexityIsNoWorse ==
    ASSUME NEW a, NEW b, NEW spec, {spec.max, spec.min} \subseteq Int \cup {Absent},
           a.value # Absent, b.value # Absent, Leaves(a.value), Leaves(b.value), a.unit = b.unit,
           a.value.shape = <<>>, b.value.shape = <<>>,
           b.value.leaves[1] # NotFinite, a.value.leaves[1] # NotFinite,
           b.value.leaves[1] <= a.value.leaves[1],
           spec.min # Absent => b.value.leaves[1] >= spec.min
    PROVE  NoWorse(Batch(<<Complexity(b, spec)>>), Batch(<<Complexity(a, spec)>>))
<1> SUFFICES ASSUME Complexity(a, spec) = "ok" PROVE Complexity(b, spec) = "ok"
  BY OneIsNoWorse
<1>1. PICK x \in Int, y \in Int : x = a.value.leaves[1] /\ y = b.value.leaves[1] /\ y <= x
  <2>1. \A v : Leaves(v) /\ v.shape = <<>> => v.leaves[1] \in Int \cup {NotFinite}
    BY DEF Leaves
  <2> QED BY <2>1
<1>2. /\ spec.unit # Absent => a.unit = spec.unit
      /\ spec.max # Absent => ~(x > spec.max)
      /\ spec.max # Absent \/ spec.min # Absent
      /\ ~(spec.max # Absent /\ spec.min # Absent /\ Given(spec.max) < Given(spec.min))
  BY <1>1 DEF Complexity
<1>3. /\ spec.max # Absent => ~(y > spec.max)
      /\ spec.min # Absent => ~(y < spec.min)
  BY <1>1, <1>2
<1> QED BY <1>1, <1>2, <1>3 DEF Complexity
----------------------------------------------------------------------------
(* The web grader. *)

LEMMA ThreeRules ==
    ASSUME NEW rules, DOMAIN rules = 1 .. 3, rules[3][1]
    PROVE  Decide(rules) = IF rules[1][1] THEN rules[1][2]
                           ELSE IF rules[2][1] THEN rules[2][2] ELSE rules[3][2]
<1>1. PICK i \in 1 .. 3 : /\ rules[i][1] /\ Decide(rules) = rules[i][2]
                         /\ \A j \in 1 .. 3 : j < i => ~rules[j][1]
  BY FirstRule, 3 \in Nat, 3 # 0
<1> QED BY <1>1

LEMMA SmallerIs ==
    ASSUME NEW x \in Nat, NEW y \in Nat
    PROVE  Min({x, y}) = IF x <= y THEN x ELSE y
<1>1. {x, y} \in SUBSET Nat /\ {x, y} # {}
  OBVIOUS
<1>2. Min({x, y}) \in {x, y} /\ \A z \in {x, y} : Min({x, y}) <= z
  BY <1>1, LeastIs
<1> QED BY <1>2

LEMMA LengthGrows ==
    ASSUME NEW x \in Nat, NEW y \in Nat, x <= y
    PROVE  LengthShare(x) \in Nat /\ LengthShare(y) \in Nat /\ LengthShare(x) <= LengthShare(y)
<1>1. ASSUME NEW w \in Nat
      PROVE  LengthShare(w) = IF w >= 80 THEN 120 ELSE IF w <= 20 THEN 3 * w ELSE w + 40
  <2> DEFINE rules == << <<w >= 80, Scale>>, <<w <= 20, 3 * w>>, <<TRUE, w + 40>> >>
  <2>1. DOMAIN rules = 1 .. 3 /\ rules[3][1] /\ rules[3][2] = w + 40
    OBVIOUS
  <2>2. (rules[1][1] <=> w >= 80) /\ rules[1][2] = Scale
    OBVIOUS
  <2>3. (rules[2][1] <=> w <= 20) /\ rules[2][2] = 3 * w
    OBVIOUS
  <2>4. LengthShare(w) = Decide(rules)
    BY DEF LengthShare
  <2> HIDE DEF rules
  <2>5. Decide(rules) = IF rules[1][1] THEN rules[1][2]
                        ELSE IF rules[2][1] THEN rules[2][2] ELSE rules[3][2]
    BY <2>1, ThreeRules
  <2> QED BY <2>1, <2>2, <2>3, <2>4, <2>5 DEF Scale
<1> QED BY <1>1

LEMMA EvidenceGrows ==
    ASSUME NEW x \in Nat, NEW y \in Nat, x <= y
    PROVE  EvidenceShare(x) \in Nat /\ EvidenceShare(y) \in Nat /\ EvidenceShare(x) <= EvidenceShare(y)
<1>1. \A n \in Nat : EvidenceShare(n) = IF 40 * n <= 120 THEN 40 * n ELSE 120
  BY SmallerIs DEF EvidenceShare, Scale
<1> QED BY <1>1

LEMMA StructureGrows ==
    ASSUME NEW a, NEW b, {a.paragraphs, a.bullets, b.paragraphs, b.bullets} \subseteq Nat,
           a.paragraphs <= b.paragraphs, a.bullets <= b.bullets
    PROVE  StructureShare(a) \in Nat /\ StructureShare(b) \in Nat /\ StructureShare(a) <= StructureShare(b)
<1>1. \A d : d.paragraphs \in Nat /\ d.bullets \in Nat =>
        \E n \in Nat : /\ n = d.paragraphs + (IF d.bullets <= 3 THEN d.bullets ELSE 3)
                       /\ StructureShare(d) = IF 30 * n <= 120 THEN 30 * n ELSE 120
  <2> SUFFICES ASSUME NEW d, d.paragraphs \in Nat, d.bullets \in Nat
               PROVE \E n \in Nat : /\ n = d.paragraphs + (IF d.bullets <= 3 THEN d.bullets ELSE 3)
                                    /\ StructureShare(d) = IF 30 * n <= 120 THEN 30 * n ELSE 120
    OBVIOUS
  <2>1. PICK n \in Nat : n = d.paragraphs + (IF d.bullets <= 3 THEN d.bullets ELSE 3)
    OBVIOUS
  <2>2. Min({d.bullets, 3}) = IF d.bullets <= 3 THEN d.bullets ELSE 3
    BY SmallerIs
  <2>3. StructureShare(d) = Min({30 * n, 120})
    BY <2>1, <2>2 DEF StructureShare, Scale
  <2> QED BY <2>1, <2>3, SmallerIs
<1>2. PICK m \in Nat : /\ m = a.paragraphs + (IF a.bullets <= 3 THEN a.bullets ELSE 3)
                       /\ StructureShare(a) = IF 30 * m <= 120 THEN 30 * m ELSE 120
  BY <1>1
<1>3. PICK n \in Nat : /\ n = b.paragraphs + (IF b.bullets <= 3 THEN b.bullets ELSE 3)
                       /\ StructureShare(b) = IF 30 * n <= 120 THEN 30 * n ELSE 120
  BY <1>1
<1>4. m <= n
  BY <1>2, <1>3
<1> QED BY <1>2, <1>3, <1>4

MoreWritten(a, b) ==
    /\ {a.words, a.hits, a.paragraphs, a.bullets} \subseteq Nat
    /\ {b.words, b.hits, b.paragraphs, b.bullets} \subseteq Nat
    /\ a.words <= b.words /\ a.hits <= b.hits
    /\ a.paragraphs <= b.paragraphs /\ a.bullets <= b.bullets

LEMMA WebShareGrows ==
    ASSUME NEW a, NEW b, MoreWritten(a, b), NEW label \in DOMAIN Lens
    PROVE  /\ WebShare(label, a) \in Nat /\ WebShare(label, b) \in Nat
           /\ WebShare(label, a) <= WebShare(label, b)
<1>1. PICK u \in Nat, v \in Nat, w \in Nat : Lens[label] = <<u, v, w>>
  BY DEF Lens
<1>2. PICK l \in Nat, m \in Nat : l = LengthShare(a.words) /\ m = LengthShare(b.words) /\ l <= m
  BY LengthGrows DEF MoreWritten
<1>3. PICK p \in Nat, q \in Nat : p = EvidenceShare(a.hits) /\ q = EvidenceShare(b.hits) /\ p <= q
  BY EvidenceGrows DEF MoreWritten
<1>4. PICK r \in Nat, s \in Nat : r = StructureShare(a) /\ s = StructureShare(b) /\ r <= s
  BY StructureGrows DEF MoreWritten
<1>5. PICK x \in Nat, y \in Nat : x = u * l + v * p + w * r /\ y = u * m + v * q + w * s /\ x <= y
  <2>1. u * l <= u * m /\ u * l \in Nat /\ u * m \in Nat
    BY <1>2, Z3
  <2>2. v * p <= v * q /\ v * p \in Nat /\ v * q \in Nat
    BY <1>3, Z3
  <2>3. w * r <= w * s /\ w * r \in Nat /\ w * s \in Nat
    BY <1>4, Z3
  <2>4. PICK c \in Nat, d \in Nat, e \in Nat, f \in Nat, g \in Nat, h \in Nat :
          /\ c = u * l /\ d = u * m /\ c <= d
          /\ e = v * p /\ f = v * q /\ e <= f
          /\ g = w * r /\ h = w * s /\ g <= h
    BY <2>1, <2>2, <2>3
  <2>5. c + e + g \in Nat /\ d + f + h \in Nat /\ c + e + g <= d + f + h
    BY <2>4
  <2> QED BY <2>4, <2>5
<1>6. WebShare(label, a) = x \div 10 /\ WebShare(label, b) = y \div 10
  BY <1>1, <1>2, <1>3, <1>4, <1>5 DEF WebShare
<1>7. x \div 10 \in Nat /\ y \div 10 \in Nat /\ x \div 10 <= y \div 10
  BY <1>5
<1> QED BY <1>6, <1>7

LEMMA GradedIs ==
    ASSUME NEW score, NEW threshold
    PROVE  Graded(score, threshold) \in Good <=> AtLeast(score, threshold)
<1> DEFINE rules == << <<AtLeast(score, threshold), "passed">>, <<score[1] > 0, "partial">>,
                       <<TRUE, "failed">> >>
<1>1. DOMAIN rules = 1 .. 3 /\ rules[3][1] /\ rules[3][2] = "failed"
  OBVIOUS
<1>2. (rules[1][1] <=> AtLeast(score, threshold)) /\ rules[1][2] = "passed"
  OBVIOUS
<1>3. rules[2][2] = "partial"
  OBVIOUS
<1>4. Graded(score, threshold) = Decide(rules)
  BY DEF Graded
<1> HIDE DEF rules
<1>5. Decide(rules) = IF rules[1][1] THEN rules[1][2]
                      ELSE IF rules[2][1] THEN rules[2][2] ELSE rules[3][2]
  BY <1>1, ThreeRules
<1> QED BY <1>1, <1>2, <1>3, <1>4, <1>5 DEF Good

LEMMA WebIsNoWorse ==
    ASSUME NEW a, NEW b, NEW spec, spec.rubric \in Seq([got : DOMAIN Lens, weight : Nat]),
           spec.threshold \in Nat \X Nat, MoreWritten(a, b)
    PROVE  NoWorse(WebAnswer(b, spec), WebAnswer(a, spec))
<1>1. PICK rubric \in Seq([got : DOMAIN Lens, weight : Nat]) :
        rubric = IF spec.rubric = <<>> THEN FallbackRubric ELSE spec.rubric
  <2>1. FallbackRubric \in Seq([got : DOMAIN Lens, weight : Nat])
    BY DEF FallbackRubric, Mark, Lens
  <2> QED BY <2>1
<1>2. PICK n \in Nat : n = Len(rubric) /\ DOMAIN rubric = 1 .. n
  OBVIOUS
<1> DEFINE marks(d) == [i \in 1 .. n |-> Mark(WebShare(rubric[i].got, d), rubric[i].weight)]
           status(d) == IF d.words = 0 THEN "failed"
                        ELSE Graded(Aggregate(marks(d)), spec.threshold)
<1>3. \A d : WebAnswer(d, spec) = Result(status(d), marks(d))
  BY <1>1, <1>2 DEF WebAnswer
<1>4. Len(marks(a)) = n /\ Len(marks(b)) = n
  BY ListIs
<1>5. Worth(marks(a), marks(b), n)
  <2> SUFFICES ASSUME NEW i \in 1 .. n
               PROVE  /\ marks(a)[i] \in MarkRec /\ marks(b)[i] \in MarkRec
                      /\ marks(a)[i].weight = marks(b)[i].weight
                      /\ marks(a)[i].got <= marks(b)[i].got
    BY DEF Worth
  <2>1. rubric[i].got \in DOMAIN Lens /\ rubric[i].weight \in Nat
    <3>1. rubric[i] \in [got : DOMAIN Lens, weight : Nat]
      <4>1. \A R : rubric \in Seq(R) => \A j \in 1 .. Len(rubric) : rubric[j] \in R
        OBVIOUS
      <4> QED BY <1>2, <4>1, Zenon
    <3> QED BY <3>1
  <2>2. PICK x \in Nat, y \in Nat : /\ x = WebShare(rubric[i].got, a)
                                    /\ y = WebShare(rubric[i].got, b) /\ x <= y
    BY <2>1, WebShareGrows
  <2> QED BY <2>1, <2>2 DEF MarkRec, Mark
<1> HIDE DEF marks
<1>6. Outscores(Aggregate(marks(b)), Aggregate(marks(a)))
  BY <1>4, <1>5, MoreMarksMore
<1>7. status(a) \in Good => status(b) \in Good
  <2> SUFFICES ASSUME status(a) \in Good PROVE status(b) \in Good
    OBVIOUS
  <2>1. a.words # 0 /\ AtLeast(Aggregate(marks(a)), spec.threshold)
    BY GradedIs DEF Good
  <2>2. b.words # 0
    BY <2>1 DEF MoreWritten
  <2>3. AtLeast(Aggregate(marks(b)), spec.threshold)
    BY <1>6, <2>1, OutscoresIs
  <2> QED BY <2>2, <2>3, GradedIs
<1> HIDE DEF status
<1>8. WebAnswer(a, spec).marks = marks(a) /\ WebAnswer(a, spec).status = status(a)
  BY <1>3 DEF Result
<1>9. WebAnswer(b, spec).marks = marks(b) /\ WebAnswer(b, spec).status = status(b)
  BY <1>3 DEF Result
<1> QED BY <1>6, <1>7, <1>8, <1>9, OutscoresIs DEF NoWorse
----------------------------------------------------------------------------
(* Every kind. *)

LEMMA BetterChecksNoWorse ==
    ASSUME task \in Task, NEW a \in Answers(task), NEW b \in Answers(task), AtLeastAsGood(b, a)
    PROVE  NoWorse(Checked(b), Checked(a))
<1> DEFINE spec == task.spec
<1>1. Asked(task) /\ AnswerTo(task, a) /\ AnswerTo(task, b)
  BY AnswerAssumption
<1>2. CASE task.kind = "web"
  <2>1. spec.rubric \in Seq([got : DOMAIN Lens, weight : Nat]) /\ spec.threshold \in Nat \X Nat
    BY <1>1, <1>2 DEF Asked
  <2>2. MoreWritten(a, b)
    <3>1. \A x \in {"words", "hits", "paragraphs", "bullets"} : a[x] <= b[x]
      BY <1>2 DEF AtLeastAsGood
    <3>2. /\ {a.words, a.hits, a.paragraphs, a.bullets} \subseteq Nat
          /\ {b.words, b.hits, b.paragraphs, b.bullets} \subseteq Nat
      BY <1>1, <1>2 DEF AnswerTo
    <3> QED BY <3>1, <3>2 DEF MoreWritten
  <2>3. Checked(a) = WebAnswer(a, spec) /\ Checked(b) = WebAnswer(b, spec)
    BY <1>2 DEF Checked
  <2> QED BY <2>1, <2>2, <2>3, WebIsNoWorse
<1>3. CASE task.kind = "proof"
  <2>1. /\ spec.minSteps \in Int /\ a.steps \in Seq(BOOLEAN) /\ b.steps \in Seq(BOOLEAN)
        /\ Extends(a.steps, b.steps)
    BY <1>1, <1>3 DEF Asked, AnswerTo, AtLeastAsGood
  <2>2. Checked(a) = ProofOutline(a, spec) /\ Checked(b) = ProofOutline(b, spec)
    BY <1>3 DEF Checked
  <2> QED BY <2>1, <2>2, OutlineIsNoWorse
<1>4. CASE task.kind = "counterexample"
  <2>1. /\ IsFiniteSet(spec.mustViolate) /\ (a.witness => b.witness)
        /\ a.violates \subseteq b.violates /\ spec.verifier # "rejects"
    BY <1>1, <1>4 DEF Asked, AtLeastAsGood
  <2>2. Checked(a) = Counterexample(a, spec) /\ Checked(b) = Counterexample(b, spec)
    BY <1>4 DEF Checked
  <2> QED BY <2>1, <2>2, CounterexampleIsNoWorse
<1>5. CASE task.kind = "explanation"
  <2>1. /\ IsFiniteSet(spec.concepts) /\ spec.minWords \in Int
        /\ spec.maxWords \in Int \cup {Absent} /\ a.words \in Nat /\ b.words \in Nat
    BY <1>1, <1>5 DEF Asked, AnswerTo
  <2>2. /\ a.words <= b.words /\ a.concepts \subseteq b.concepts
        /\ spec.maxWords # Absent => b.words <= spec.maxWords
    BY <1>5 DEF AtLeastAsGood
  <2>3. Checked(a) = Explanation(a, spec) /\ Checked(b) = Explanation(b, spec)
    BY <1>5 DEF Checked
  <2> QED BY <2>1, <2>2, <2>3, ExplanationIsNoWorse
<1>6. CASE task.kind = "derivation"
  <2>1. List(spec.steps) /\ \A i \in DOMAIN spec.steps : spec.steps[i].weight \in Nat
    BY <1>1, <1>6 DEF Asked
  <2>2. \A i \in DOMAIN spec.steps :
          LastForm(b.entries, spec.steps[i].id)
            \in {"accepted", LastForm(a.entries, spec.steps[i].id)}
    BY <1>6 DEF AtLeastAsGood
  <2>3. Checked(a) = Derivation(a, spec) /\ Checked(b) = Derivation(b, spec)
    BY <1>6 DEF Checked
  <2> QED BY <2>1, <2>2, <2>3, DerivationIsNoWorse
<1>7. CASE task.kind = "numeric"
  <2>1. /\ a.value # Absent /\ b.value # Absent
        /\ a.unit = b.unit /\ a.value.shape = b.value.shape
        /\ a.value.uniform => b.value.uniform
        /\ Len(a.value.leaves) = Len(spec.expected.leaves)
        /\ Len(b.value.leaves) = Len(a.value.leaves)
        /\ \A i \in DOMAIN a.value.leaves :
             AsClose(a.value.leaves[i], b.value.leaves[i], spec.expected.leaves[i])
    BY <1>7 DEF AtLeastAsGood
  <2>2. /\ spec.expected.leaves \in Seq(Int)
        /\ {spec.absolute, spec.relative} \subseteq Int \cup {Absent}
        /\ a.value.leaves \in Seq(Int \cup {NotFinite})
        /\ b.value.leaves \in Seq(Int \cup {NotFinite})
    BY <1>1, <1>7, <2>1 DEF Asked, AnswerTo, Leaves
  <2>3. Checked(a) = Batch(<<Numeric(a, spec)>>) /\ Checked(b) = Batch(<<Numeric(b, spec)>>)
    BY <1>7 DEF Checked
  <2> HIDE DEF spec
  <2> QED BY <2>1, <2>2, <2>3, NumericIsNoWorse
<1>8. CASE task.kind = "complexity"
  <2>1. /\ a.value # Absent /\ b.value # Absent /\ a.unit = b.unit
        /\ a.value.shape = <<>> /\ b.value.shape = <<>>
        /\ b.value.leaves[1] # NotFinite /\ a.value.leaves[1] # NotFinite
        /\ b.value.leaves[1] <= a.value.leaves[1]
        /\ spec.min # Absent => b.value.leaves[1] >= spec.min
    BY <1>8 DEF AtLeastAsGood
  <2>2. /\ {spec.max, spec.min} \subseteq Int \cup {Absent}
        /\ Leaves(a.value) /\ Leaves(b.value)
    BY <1>1, <1>8, <2>1 DEF Asked, AnswerTo
  <2>3. Checked(a) = Batch(<<Complexity(a, spec)>>) /\ Checked(b) = Batch(<<Complexity(b, spec)>>)
    BY <1>8 DEF Checked
  <2> HIDE DEF spec
  <2> QED BY <2>1, <2>2, <2>3, ComplexityIsNoWorse
<1>9. CASE task.kind = "shapes"
  <2>1. /\ IsFiniteSet(DOMAIN spec.expected)
        /\ Matching(a.shapes, spec.expected) \subseteq Matching(b.shapes, spec.expected)
        /\ DOMAIN b.shapes \ DOMAIN spec.expected \subseteq DOMAIN a.shapes
    BY <1>1, <1>9 DEF Asked, AtLeastAsGood
  <2>2. Checked(a) = ShapeTable(a, spec) /\ Checked(b) = ShapeTable(b, spec)
    BY <1>9 DEF Checked
  <2> QED BY <2>1, <2>2, ShapesAreNoWorse
<1>10. CASE task.kind = "writing"
  <2>1. List(a.claims) /\ List(b.claims)
    BY <1>1, <1>10 DEF AnswerTo
  <2>2. /\ Len(a.claims) = Len(b.claims)
        /\ \A i \in DOMAIN a.claims : AsBacked(b.claims[i], a.claims[i], spec.policy)
    BY <1>10 DEF AtLeastAsGood, AsBacked
  <2>3. Checked(a) = Writing(a, spec) /\ Checked(b) = Writing(b, spec)
    BY <1>10 DEF Checked
  <2> QED BY <2>1, <2>2, <2>3, WritingIsNoWorse
<1> QED BY <1>1, <1>2, <1>3, <1>4, <1>5, <1>6, <1>7, <1>8, <1>9, <1>10 DEF Asked, Kind

(* A learner who keeps what was right and adds to it never scores less, and *)
(* what was accepted stays accepted: the checks are monotone.               *)
THEOREM BetterIsNeverWorse == GradingSpec => BetterIsNoWorse
<1>1. Answering /\ Answering' /\ [AnswerNext]_<<answering, vars>> =>
        [submission' = None /\ AtLeastAsGood(answer', answer) =>
           /\ AtLeast(Aggregate(Checked(answer').marks), Aggregate(Checked(answer).marks))
           /\ Accepted(answer) => Accepted(answer')]_<<answering, vars>>
  <2> SUFFICES ASSUME Answering, Answering', AnswerNext, submission' = None,
                      AtLeastAsGood(answer', answer)
               PROVE  /\ AtLeast(Aggregate(Checked(answer').marks),
                                 Aggregate(Checked(answer).marks))
                      /\ Accepted(answer) => Accepted(answer')
    OBVIOUS
  <2>1. submission = None /\ task' = task
    <3>1. CASE Revise
      BY <3>1 DEF Revise
    <3>2. ASSUME NEW e \in BOOLEAN, SubmitAnswer(e) PROVE FALSE
      <4>1. submission' \in Submission
        BY <3>2 DEF SubmitAnswer, Submit, Submission
      <4> QED BY <4>1, GradeAssumption
    <3>3. CASE Grading
      BY <3>3 DEF Grading, answering, Attempt, Begin, Look, Recall, ExecutionFailed,
                  EvidenceMissing, CitationRefused, Evaluate, Insert, InsertRefused, Throws
    <3> QED BY <3>1, <3>2, <3>3 DEF AnswerNext
  <2>2. task \in Task /\ answer \in Answers(task) /\ answer' \in Answers(task)
    BY <2>1 DEF Answering
  <2>3. PICK a \in Answers(task), b \in Answers(task) : a = answer /\ b = answer'
    BY <2>2
  <2>4. AtLeastAsGood(b, a)
    BY <2>3
  <2>5. NoWorse(Checked(b), Checked(a))
    BY <2>2, <2>4, BetterChecksNoWorse
  <2> QED BY <2>3, <2>5 DEF NoWorse, Accepted, Good
<1> QED BY <1>1, AnsweringIsTyped, PartsRun, PTL DEF AnswerSpec, BetterIsNoWorse

----------------------------------------------------------------------------
(* GradeOverride.  OverrideInv is inductive, however many transactions run *)
(* at once: commits are numbered, every entry a history lacks is of an     *)
(* override that another overtook, and the columns are those of the last   *)
(* commit that set them.                                                   *)

\* The entry comes last and the others stay where they were.
LEMMA AppendKeeps ==
    ASSUME NEW h \in Seq(Review!Entry), NEW e \in Review!Entry
    PROVE  /\ Append(h, e) \in Seq(Review!Entry)
           /\ Len(h) \in Nat
           /\ Len(Append(h, e)) = Len(h) + 1
           /\ DOMAIN h = 1..Len(h)
           /\ DOMAIN Append(h, e) = 1..(Len(h) + 1)
           /\ \A i \in 1..Len(h) : Append(h, e)[i] = h[i]
           /\ Append(h, e)[Len(h) + 1] = e
  OBVIOUS

\* A history's entries are of overrides.
LEMMA EntriesAre ==
    ASSUME NEW h \in Seq(Review!Entry), NEW i \in DOMAIN h
    PROVE  h[i] \in Review!Entry /\ h[i].by \in Override /\ h[i].patch \in Review!Patch
<1>1. h[i] \in Review!Entry
  OBVIOUS
<1> QED
  BY <1>1 DEF Review!Entry

\* The latest position of a set is the one no other exceeds.
LEMMA LatestIs ==
    ASSUME NEW n \in Nat, NEW S \in SUBSET (1..n), NEW m \in S, \A j \in S : j <= m
    PROVE  Review!Latest(S) = m
<1>1. \A i \in S : (\A j \in S : j <= i) => i = m
  <2> SUFFICES ASSUME NEW i \in S, \A j \in S : j <= i PROVE i = m
    OBVIOUS
  <2>1. i <= m /\ m <= i /\ i \in Nat /\ m \in Nat
    OBVIOUS
  <2> QED
    BY <2>1
<1> QED
  BY <1>1 DEF Review!Latest

\* What the types say of the variables, field by field.
LEMMA TypedFields ==
    ASSUME Review!TypeOK
    PROVE  /\ request \in [Override -> Review!Request]
           /\ grade.history \in Seq(Review!Entry)
           /\ grade.there \in BOOLEAN /\ grade.passed \in BOOLEAN /\ grade.score \in Points
           /\ commits \in Nat
           /\ \A q \in Override : /\ request[q] \in Review!Request
                                  /\ request[q].at \in Nat /\ request[q].base \in Nat
                                  /\ request[q].seen \in Seq(Review!Entry)
                                  /\ request[q].patch \in Review!Patch
                                  /\ Review!EntryOf(q) \in Review!Entry
<1>1. request \in [Override -> Review!Request] /\ grade \in Review!GradeRow /\ commits \in Nat
  BY DEF Review!TypeOK
<1>2. \A q \in Override : request[q] \in Review!Request
  BY <1>1
<1>3. ASSUME NEW q \in Override
      PROVE  /\ request[q].at \in Nat /\ request[q].base \in Nat
             /\ request[q].seen \in Seq(Review!Entry)
             /\ request[q].patch \in Review!Patch
  BY <1>2 DEF Review!Request
<1>4. \A q \in Override : Review!EntryOf(q) \in Review!Entry
  BY <1>3 DEF Review!EntryOf, Review!Entry
<1> QED
  BY <1>1, <1>2, <1>3, <1>4 DEF Review!GradeRow

----------------------------------------------------------------------------
(* What a commit leaves as it is. *)

\* A step that keeps the numbers and patches of the committed, and gives no new
\* one a number but a later one, keeps the histories in order and what was overtaken.
LEMMA CommittedStay ==
    ASSUME Review!TypeOK, Review!TypeOK',
           \A q \in Override : Review!Committed(q) =>
              /\ request'[q].at = request[q].at /\ request'[q].base = request[q].base
              /\ request'[q].patch = request[q].patch
    PROVE  /\ \A q \in Override : Review!Committed(q) =>
                /\ Review!Committed(q)' /\ Review!EntryOf(q)' = Review!EntryOf(q)
                /\ Review!Overtaken(q) => Review!Overtaken(q)'
           /\ \A h \in Seq(Review!Entry) : Review!InOrder(h) => Review!InOrder(h)'
           /\ \A h \in Seq(Review!Entry), q \in Override :
                Review!Committed(q) /\ Review!Holds(h, q) => Review!Holds(h, q)'
<1>1. \A q \in Override : request[q].at \in Nat /\ request[q].base \in Nat
  BY TypedFields
<1>2. ASSUME NEW q \in Override, Review!Committed(q)
      PROVE  Review!Committed(q)' /\ Review!EntryOf(q)' = Review!EntryOf(q)
  BY <1>2 DEF Review!Committed, Review!EntryOf
<1>3. ASSUME NEW q \in Override, Review!Committed(q), Review!Overtaken(q)
      PROVE  Review!Overtaken(q)'
  <2>1. PICK p \in Override : /\ request[p].base < request[q].at
                              /\ request[q].at < request[p].at
    BY <1>3 DEF Review!Overtaken
  <2>2. Review!Committed(p)
    BY <1>1, <2>1 DEF Review!Committed
  <2> QED
    BY <1>2, <1>3, <2>1, <2>2 DEF Review!Overtaken
<1>4. ASSUME NEW h \in Seq(Review!Entry), Review!InOrder(h) PROVE Review!InOrder(h)'
  <2>1. \A i \in DOMAIN h : h[i].by \in Override /\ Review!Committed(h[i].by)
    BY <1>4, EntriesAre DEF Review!InOrder
  <2>2. \A i \in DOMAIN h : /\ request'[h[i].by].at = request[h[i].by].at
                            /\ Review!Committed(h[i].by)'
                            /\ Review!EntryOf(h[i].by)' = Review!EntryOf(h[i].by)
    BY <1>2, <2>1
  <2> QED
    BY <1>4, <2>2 DEF Review!InOrder
<1>5. ASSUME NEW h \in Seq(Review!Entry), NEW q \in Override, Review!Committed(q),
             Review!Holds(h, q)
      PROVE  Review!Holds(h, q)'
  BY <1>2, <1>5 DEF Review!Holds
<1> QED
  BY <1>2, <1>3, <1>4, <1>5

----------------------------------------------------------------------------
(* The invariant, one lemma per action that touches the grade. *)

LEMMA InitInv == ASSUME Review!Init PROVE Review!OverrideInv
<1> USE GradingAssumption DEF Review!OverrideAssumption, Review!Init
<1>1. Review!TypeOK
  <2>1. grade \in Review!GradeRow
    BY DEF Review!GradeRow
  <2>2. request \in [Override -> Review!Request]
    <3>1. <<>> \in Seq(Review!Entry)
      OBVIOUS
    <3>2. ASSUME NEW q \in [pc: {"new"}, patch: Review!Patch, seen: {<<>>}, reply: {"none"},
                            base: {0}, at: {0}]
          PROVE  q \in Review!Request
      <4>1. /\ q.pc = "new" /\ q.patch \in Review!Patch /\ q.seen = <<>> /\ q.reply = "none"
            /\ q.base = 0 /\ q.at = 0
            /\ q = [pc |-> q.pc, patch |-> q.patch, seen |-> q.seen, reply |-> q.reply,
                    base |-> q.base, at |-> q.at]
        OBVIOUS
      <4>2. /\ q.pc \in {"new", "read", "write", "done"} /\ q.seen \in Seq(Review!Entry)
            /\ q.reply \in {"none", "ok", "not_found", "error"}
            /\ q.base \in Nat /\ q.at \in Nat
        BY <3>1, <4>1
      <4> QED
        BY <4>1, <4>2 DEF Review!Request
    <3>3. request \in [Override -> [pc: {"new"}, patch: Review!Patch, seen: {<<>>},
                                    reply: {"none"}, base: {0}, at: {0}]]
      OBVIOUS
    <3> QED
      BY <3>2, <3>3
  <2> QED
    BY <2>1, <2>2 DEF Review!TypeOK
<1>2. \A o \in Override : /\ request[o].pc = "new" /\ request[o].at = 0 /\ request[o].base = 0
                          /\ request[o].reply = "none" /\ ~Review!Committed(o)
  BY DEF Review!Committed
<1>3. Review!CommitsAreNumbered
  BY <1>2 DEF Review!CommitsAreNumbered
<1>4. Review!OnlyOvertakenMissing
  BY <1>2 DEF Review!OnlyOvertakenMissing, Review!InOrder
<1>5. Review!ColumnsAreLatest
  BY <1>2 DEF Review!ColumnsAreLatest, Review!ScoreSetters, Review!InTransaction
<1> QED
  BY <1>1, <1>3, <1>4, <1>5 DEF Review!OverrideInv

LEMMA InsertInv == ASSUME Review!OverrideInv, Review!Insert PROVE Review!OverrideInv'
<1> USE DEF Review!OverrideInv, Review!Insert
<1>1. Review!TypeOK'
  BY DEF Review!TypeOK, Review!GradeRow
<1>2. /\ grade'.history = grade.history /\ grade'.score = grade.score
      /\ grade'.passed = graded.passed /\ grade'.there
      /\ request' = request /\ graded' = graded /\ commits' = commits
  BY DEF Review!TypeOK, Review!GradeRow
<1>3. \A o \in Override : ~Review!Committed(o)
  BY DEF Review!ColumnsAreLatest
<1>4. Review!CommitsAreNumbered'
  BY <1>2 DEF Review!CommitsAreNumbered, Review!Committed
<1>5. Review!OnlyOvertakenMissing'
  BY <1>2, SMTT(60)
     DEF Review!OnlyOvertakenMissing, Review!InOrder, Review!Holds, Review!Overtaken,
              Review!Committed, Review!EntryOf
<1>6. Review!ColumnsAreLatest'
  <2>1. \A o \in Override : ~Review!Committed(o)'
    BY <1>2, <1>3 DEF Review!Committed
  <2>2. Review!StatusSetters' = {} /\ Review!ScoreSetters' = {} /\ Review!ScoreSetters = {}
    BY <1>3, <2>1 DEF Review!StatusSetters, Review!ScoreSetters
  <2>3. grade.score = graded.score
    BY <2>2 DEF Review!ColumnsAreLatest, Review!IsLast
  <2> QED
    BY <1>2, <2>2, <2>3 DEF Review!ColumnsAreLatest
<1> QED
  BY <1>1, <1>4, <1>5, <1>6

\* Steps of a request that leave the grade alone keep what is said of it.
LEMMA RequestInv ==
    ASSUME Review!OverrideInv, NEW o \in Override,
           Review!Receive(o) \/ Review!ReadHistory(o) \/ Review!Abort(o) \/ Review!TimeOut(o)
    PROVE  Review!OverrideInv'
<1>1. /\ Review!TypeOK /\ Review!CommitsAreNumbered /\ Review!OnlyOvertakenMissing
      /\ Review!ColumnsAreLatest
  BY DEF Review!OverrideInv
<1>2. /\ request \in [Override -> Review!Request] /\ request[o] \in Review!Request
      /\ grade.history \in Seq(Review!Entry) /\ commits \in Nat
      /\ \A q \in Override : /\ request[q].at \in Nat /\ request[q].base \in Nat
                             /\ request[q].seen \in Seq(Review!Entry)
  BY <1>1, TypedFields
<1>3. /\ grade' = grade /\ graded' = graded /\ commits' = commits
      /\ \A q \in Override \ {o} : request'[q] = request[q]
      /\ request'[o].patch = request[o].patch /\ request'[o].at = request[o].at
      /\ request'[o].reply # "ok" \/ request[o].reply = "ok"
      /\ request[o].pc # "done"
  BY <1>2 DEF Review!Receive, Review!ReadHistory, Review!Abort, Review!TimeOut,
        Review!InTransaction, Review!Request
<1>4. request[o].at = 0 /\ ~Review!Committed(o) /\ request'[o].at = 0
  BY <1>1, <1>2, <1>3 DEF Review!CommitsAreNumbered, Review!Committed
<1>5. \/ request'[o].pc = "write" /\ request'[o].seen = grade.history /\ request'[o].base = commits
      \/ /\ request'[o].pc = "write" => request[o].pc = "write"
         /\ request'[o].seen = request[o].seen /\ request'[o].base = request[o].base
  BY <1>2 DEF Review!Receive, Review!ReadHistory, Review!Abort, Review!TimeOut, Review!Request
<1>6. Review!TypeOK'
  <2>1. request' \in [Override -> Review!Request]
    <3>2. CASE Review!Receive(o)
      <4>1. CASE request' = [request EXCEPT ![o].pc = "read"]
        BY <1>2, <4>1 DEF Review!Request
      <4>2. CASE request' = [request EXCEPT ![o].pc = "done", ![o].reply = "not_found"]
        BY <1>2, <4>2, ZenonT(60) DEF Review!Request
      <4> QED
        BY <3>2, <4>1, <4>2 DEF Review!Receive
    <3>3. CASE Review!ReadHistory(o)
      <4>1. [request[o] EXCEPT !.pc = "write", !.seen = grade.history,
                               !.base = commits] \in Review!Request
        BY <1>2 DEF Review!Request
      <4>2. request' = [request EXCEPT ![o] = [request[o] EXCEPT !.pc = "write",
                                      !.seen = grade.history, !.base = commits]]
        BY <1>2, <3>3 DEF Review!ReadHistory
      <4> QED
        BY <1>2, <4>1, <4>2
    <3>4. CASE Review!Abort(o)
      BY <1>2, <3>4, ZenonT(60) DEF Review!Abort, Review!Request
    <3>5. CASE Review!TimeOut(o)
      BY <1>2, <3>5 DEF Review!TimeOut, Review!Request
    <3> QED
      BY <3>2, <3>3, <3>4, <3>5
  <2>2. failures' \in Nat
    BY <1>1 DEF Review!Receive, Review!ReadHistory, Review!Abort, Review!TimeOut, Review!Fault,
          Review!TypeOK
  <2> QED
    BY <1>1, <1>3, <2>1, <2>2 DEF Review!TypeOK
<1>7. \A q \in Override : /\ request'[q].at = request[q].at
                          /\ request'[q].patch = request[q].patch
                          /\ Review!Committed(q)' <=> Review!Committed(q)
                          /\ Review!Committed(q) => request'[q] = request[q]
  BY <1>3, <1>4 DEF Review!Committed
<1>8. /\ \A q \in Override : Review!Committed(q) /\ Review!Overtaken(q) =>
            Review!Overtaken(q)'
      /\ \A h \in Seq(Review!Entry) : Review!InOrder(h) => Review!InOrder(h)'
      /\ \A h \in Seq(Review!Entry), q \in Override :
            Review!Committed(q) /\ Review!Holds(h, q) => Review!Holds(h, q)'
  BY <1>1, <1>6, <1>7, CommittedStay
<1>9. Review!CommitsAreNumbered'
  <2>1. \A q \in Override : request'[q].base <= commits /\ request'[q].at <= commits
    BY <1>1, <1>2, <1>3, <1>5, <1>7 DEF Review!CommitsAreNumbered
  <2>2. \A q \in Override : request'[q].reply = "ok" => request[q].reply = "ok"
    BY <1>3
  <2> QED
    BY <1>1, <1>3, <1>7, <2>1, <2>2 DEF Review!CommitsAreNumbered
<1>10. Review!OnlyOvertakenMissing'
  <2>1. Review!InOrder(grade.history)'
    BY <1>1, <1>2, <1>3, <1>8 DEF Review!OnlyOvertakenMissing
  <2>2. \A q \in Override : Review!Committed(q)' =>
            Review!Holds(grade.history, q)' \/ Review!Overtaken(q)'
    BY <1>1, <1>2, <1>3, <1>7, <1>8 DEF Review!OnlyOvertakenMissing
  <2>3. ASSUME NEW q \in Override, request'[q].pc = "write"
        PROVE  /\ Review!InOrder(request[q].seen)'
               /\ \A i \in DOMAIN request'[q].seen :
                    request'[request'[q].seen[i].by].at <= request'[q].base
               /\ \A p \in Override : Review!Committed(p)' /\ request'[p].at <= request'[q].base =>
                    Review!Holds(request[q].seen, p)' \/ Review!Overtaken(p)'
    <3>1. CASE /\ request[q].pc = "write" /\ request'[q].seen = request[q].seen
               /\ request'[q].base = request[q].base
      <4> DEFINE h == request[q].seen
      <4>1. h \in Seq(Review!Entry) /\ \A i \in DOMAIN h : h[i].by \in Override
        BY <1>2, EntriesAre
      <4>2. /\ Review!InOrder(h)
            /\ \A i \in DOMAIN h : request[h[i].by].at <= request[q].base
            /\ \A p \in Override : Review!Committed(p) /\ request[p].at <= request[q].base =>
                 Review!Holds(h, p) \/ Review!Overtaken(p)
        BY <1>1, <3>1 DEF Review!OnlyOvertakenMissing
      <4>3. Review!InOrder(request[q].seen)'
        <5> HIDE DEF h
        <5>1. \A g \in {h} : Review!InOrder(g)'
          BY <1>8, <4>1, <4>2
        <5> QED
          BY <3>1, <5>1 DEF h, Review!InOrder
      <4>4. \A i \in DOMAIN request'[q].seen :
              request'[request'[q].seen[i].by].at <= request'[q].base
        BY <1>7, <3>1, <4>1, <4>2
      <4>5. ASSUME NEW p \in Override, Review!Committed(p)', request'[p].at <= request'[q].base
            PROVE  Review!Holds(request[q].seen, p)' \/ Review!Overtaken(p)'
        <5>1. Review!Committed(p) /\ (Review!Holds(h, p) \/ Review!Overtaken(p))
          BY <1>7, <3>1, <4>2, <4>5
        <5>2. CASE Review!Holds(h, p)
          BY <1>7, <3>1, <5>1, <5>2 DEF Review!Holds, Review!EntryOf
        <5> QED
          BY <1>8, <5>1, <5>2
      <4> QED
        BY <4>3, <4>4, <4>5
    <3>2. CASE request'[q].seen = grade.history /\ request'[q].base = commits
      <4>1. Review!InOrder(request[q].seen)'
        BY <1>3, <2>1, <3>2 DEF Review!InOrder
      <4>2. \A i \in DOMAIN request'[q].seen :
              request'[request'[q].seen[i].by].at <= request'[q].base
        BY <1>1, <1>2, <1>7, <3>2, EntriesAre DEF Review!CommitsAreNumbered
      <4>3. \A p \in Override : Review!Committed(p)' =>
              Review!Holds(request[q].seen, p)' \/ Review!Overtaken(p)'
        BY <1>3, <2>2, <3>2 DEF Review!Holds
      <4> QED
        BY <4>1, <4>2, <4>3
    <3> QED
      BY <1>3, <1>5, <2>3, <3>1, <3>2
  <2> QED
    BY <2>1, <2>2, <2>3 DEF Review!OnlyOvertakenMissing
<1>11. Review!ColumnsAreLatest'
  <2>1. Review!StatusSetters' = Review!StatusSetters /\ Review!ScoreSetters' = Review!ScoreSetters
    BY <1>7 DEF Review!StatusSetters, Review!ScoreSetters
  <2>2. \A q \in Override : /\ Review!IsLast(q, Review!StatusSetters) =>
                                 Review!IsLast(q, Review!StatusSetters)'
                            /\ Review!IsLast(q, Review!ScoreSetters) =>
                                 Review!IsLast(q, Review!ScoreSetters)'
    BY <1>7, <2>1 DEF Review!IsLast, Review!StatusSetters, Review!ScoreSetters
  <2>3. \A q \in Override : (Review!InTransaction(q) \/ Review!Committed(q))' => grade.there
    <3>1. Review!InTransaction(o)' => grade.there
      BY <1>1, <1>2 DEF Review!Receive, Review!ReadHistory, Review!Abort, Review!TimeOut,
                  Review!InTransaction, Review!Request, Review!ColumnsAreLatest
    <3>2. \A q \in Override \ {o} : Review!InTransaction(q)' => grade.there
      BY <1>1, <1>3 DEF Review!InTransaction, Review!ColumnsAreLatest
    <3> QED
      BY <1>1, <1>7, <3>1, <3>2 DEF Review!ColumnsAreLatest
  <2> QED
    BY <1>1, <1>3, <1>7, <2>1, <2>2, <2>3 DEF Review!ColumnsAreLatest
<1> QED
  BY <1>6, <1>9, <1>10, <1>11 DEF Review!OverrideInv

\* A commit overtakes what committed since its transaction read, and no other.
LEMMA WriteInv ==
    ASSUME Review!OverrideInv, NEW o \in Override, Review!WriteHistory(o)
    PROVE  Review!OverrideInv'
<1>0. PICK h \in {request[o].seen}, e \in {Review!EntryOf(o)} : TRUE
  OBVIOUS
<1> DEFINE g == Append(h, e)
<1>1. /\ Review!TypeOK /\ Review!CommitsAreNumbered /\ Review!OnlyOvertakenMissing
      /\ Review!ColumnsAreLatest
  BY DEF Review!OverrideInv
<1>2. /\ request \in [Override -> Review!Request] /\ request[o] \in Review!Request
      /\ h \in Seq(Review!Entry) /\ e \in Review!Entry
      /\ h = request[o].seen /\ e = Review!EntryOf(o)
      /\ e.by = o /\ e.patch = request[o].patch /\ e.patch \in Review!Patch /\ commits \in Nat
      /\ grade.passed \in BOOLEAN /\ grade.score \in Points
      /\ \A q \in Override : /\ request[q].at \in Nat /\ request[q].base \in Nat
                             /\ request[q].seen \in Seq(Review!Entry)
  <2>1. h = request[o].seen /\ e = Review!EntryOf(o)
    OBVIOUS
  <2>2. e \in Review!Entry /\ e.by = o /\ e.patch = request[o].patch /\ e.patch \in Review!Patch
    BY <1>1, <2>1, TypedFields DEF Review!EntryOf
  <2> QED
    BY <1>1, <2>1, <2>2, TypedFields
<1>3. request[o].pc = "write" /\ request[o].at = 0 /\ ~Review!Committed(o) /\ grade.there
  BY <1>1, <1>2 DEF Review!WriteHistory, Review!CommitsAreNumbered, Review!Committed,
                    Review!ColumnsAreLatest, Review!InTransaction
<1>4. /\ grade'.history = g /\ grade'.there /\ graded' = graded /\ failures' = failures
      /\ grade'.passed = Review!NextPassed(o) /\ grade'.score = Review!NextScore(o)
      /\ commits' = commits + 1
  BY <1>1, <1>2, <1>3 DEF Review!WriteHistory, Review!NextHistory, Review!TypeOK, Review!GradeRow
<1>5. /\ \A q \in Override \ {o} : request'[q] = request[q]
      /\ request'[o].pc = "done" /\ request'[o].patch = request[o].patch
      /\ request'[o].base = request[o].base /\ request'[o].at = commits + 1
  BY <1>2 DEF Review!WriteHistory, Review!Request
<1>6. /\ Len(h) \in Nat
      /\ DOMAIN h = 1..Len(h)
      /\ DOMAIN g = 1..(Len(h) + 1)
      /\ \A i \in 1..Len(h) : g[i] = h[i]
      /\ g[Len(h) + 1] = e
      /\ g \in Seq(Review!Entry)
  BY <1>2, AppendKeeps
<1>7. \A i \in DOMAIN h : h[i].by \in Override
  BY <1>2, EntriesAre
<1>8. /\ Review!InOrder(h)
      /\ \A i \in DOMAIN h : request[h[i].by].at <= request[o].base
      /\ \A q \in Override : Review!Committed(q) /\ request[q].at <= request[o].base =>
           Review!Holds(h, q) \/ Review!Overtaken(q)
  BY <1>1, <1>2, <1>3 DEF Review!OnlyOvertakenMissing
<1>9. Review!EntryOf(o)' = e
  BY <1>2, <1>5 DEF Review!EntryOf
<1> HIDE DEF g
<1>10. Review!TypeOK'
  <2>1. request' \in [Override -> Review!Request]
    <3> DEFINE reply == IF request[o].reply = "none" THEN "ok" ELSE request[o].reply
    <3>1. reply \in {"none", "ok", "not_found", "error"}
      BY <1>2 DEF Review!Request
    <3>2. request' = [request EXCEPT ![o] = [request[o] EXCEPT !.pc = "done", !.reply = reply,
                                                               !.at = commits + 1]]
      BY <1>2 DEF Review!WriteHistory
    <3> HIDE DEF reply
    <3>3. [request[o] EXCEPT !.pc = "done", !.reply = reply, !.at = commits + 1] \in Review!Request
      <4>1. [request[o] EXCEPT !.pc = "done", !.reply = reply] \in Review!Request
        BY <1>2, <3>1 DEF Review!Request
      <4>2. commits + 1 \in Nat
        BY <1>2
      <4>3. \A q \in Review!Request, n \in Nat : [q EXCEPT !.at = n] \in Review!Request
        BY DEF Review!Request
      <4> QED
        BY <4>1, <4>2, <4>3
    <3> QED
      BY <1>2, <3>2, <3>3
  <2>2. Review!NextPassed(o) \in BOOLEAN /\ Review!NextScore(o) \in Points
    BY <1>2 DEF Review!NextPassed, Review!NextScore, Review!Patch
  <2>3. grade' \in Review!GradeRow
    BY <1>1, <1>4, <1>6, <2>2 DEF Review!WriteHistory, Review!TypeOK, Review!GradeRow
  <2> QED
    BY <1>1, <1>2, <1>4, <2>1, <2>3 DEF Review!TypeOK
<1>11. \A q \in Override : Review!Committed(q) =>
          /\ q # o /\ request'[q] = request[q]
          /\ request'[q].at = request[q].at /\ request'[q].base = request[q].base
          /\ request'[q].patch = request[q].patch
          /\ request[q].at <= commits
  BY <1>1, <1>3, <1>5 DEF Review!CommitsAreNumbered
<1>12. \A q \in Override : Review!Committed(q)' <=> Review!Committed(q) \/ q = o
  BY <1>2, <1>5 DEF Review!Committed
<1>13. /\ \A q \in Override : Review!Committed(q) =>
            /\ Review!EntryOf(q)' = Review!EntryOf(q)
            /\ Review!Overtaken(q) => Review!Overtaken(q)'
       /\ \A k \in Seq(Review!Entry) : Review!InOrder(k) => Review!InOrder(k)'
       /\ \A k \in Seq(Review!Entry), q \in Override :
            Review!Committed(q) /\ Review!Holds(k, q) => Review!Holds(k, q)'
  BY <1>1, <1>10, <1>11, CommittedStay
<1>14. Review!CommitsAreNumbered'
  <2>1. \A q \in Override : request'[q].at <= commits + 1 /\ request'[q].base <= commits + 1
    BY <1>1, <1>2, <1>5 DEF Review!CommitsAreNumbered
  <2>2. \A q \in Override : Review!Committed(q)' =>
            request'[q].pc = "done" /\ request'[q].base < request'[q].at
    BY <1>1, <1>2, <1>5, <1>11, <1>12 DEF Review!CommitsAreNumbered
  <2>3. ASSUME NEW p \in Override, NEW q \in Override, Review!Committed(p)',
               request'[p].at = request'[q].at
        PROVE  p = q
    <3>1. \A k \in Override \ {o} : request'[k].at <= commits
      BY <1>1, <1>5 DEF Review!CommitsAreNumbered
    <3>2. request'[o].at > commits
      BY <1>2, <1>5
    <3>3. \A k \in Override : request'[k].at \in Nat
      BY <1>2, <1>5
    <3>4. p = o <=> q = o
      BY <1>2, <2>3, <3>1, <3>2, <3>3
    <3>5. CASE p # o
      BY <1>1, <1>5, <1>12, <2>3, <3>4, <3>5 DEF Review!CommitsAreNumbered
    <3> QED
      BY <3>4, <3>5
  <2>4. \A q \in Override : request'[q].reply = "ok" => Review!Committed(q)'
    BY <1>1, <1>5, <1>12 DEF Review!CommitsAreNumbered
  <2> QED
    BY <1>4, <2>1, <2>2, <2>3, <2>4 DEF Review!CommitsAreNumbered
<1>15. Review!InOrder(g)'
  <2>1. Review!InOrder(h)'
    BY <1>2, <1>8, <1>13
  <2>2. ASSUME NEW i \in DOMAIN g
        PROVE  Review!Committed(g[i].by)' /\ g[i] = Review!EntryOf(g[i].by)'
    <3>1. CASE i \in DOMAIN h
      BY <1>6, <2>1, <3>1 DEF Review!InOrder
    <3>2. CASE i = Len(h) + 1
      BY <1>2, <1>6, <1>9, <1>12, <3>2
    <3> QED
      BY <1>6, <3>1, <3>2
  <2>3. ASSUME NEW i \in DOMAIN g, NEW j \in DOMAIN g, i < j
        PROVE  request'[g[i].by].at < request'[g[j].by].at
    <3>1. i \in DOMAIN h /\ g[i] = h[i]
      BY <1>6, <2>3
    <3>2. CASE j \in DOMAIN h
      BY <1>6, <2>1, <2>3, <3>1, <3>2 DEF Review!InOrder
    <3>3. CASE j = Len(h) + 1
      <4>1. h[i].by \in Override /\ Review!Committed(h[i].by)
        BY <1>7, <1>8, <3>1 DEF Review!InOrder
      <4>2. request'[h[i].by].at <= commits /\ request'[h[i].by].at \in Nat
        BY <1>2, <1>11, <4>1
      <4> QED
        BY <1>2, <1>5, <1>6, <3>1, <3>3, <4>2
    <3> QED
      BY <1>6, <3>2, <3>3
  <2> QED
    BY <2>2, <2>3 DEF Review!InOrder
<1>16. \A q \in Override : Review!Committed(q)' => Review!Holds(g, q)' \/ Review!Overtaken(q)'
  <2> SUFFICES ASSUME NEW q \in Override, Review!Committed(q)'
               PROVE  Review!Holds(g, q)' \/ Review!Overtaken(q)'
    OBVIOUS
  <2>1. CASE q = o
    BY <1>6, <1>9, <2>1 DEF Review!Holds
  <2>2. CASE q # o /\ request[q].at <= request[o].base
    <3>1. Review!Committed(q) /\ (Review!Holds(h, q) \/ Review!Overtaken(q))
      BY <1>8, <1>12, <2>2
    <3>2. CASE Review!Holds(h, q)
      <4>1. PICK i \in DOMAIN h : h[i] = Review!EntryOf(q)
        BY <3>2 DEF Review!Holds
      <4>2. i \in DOMAIN g /\ g[i] = Review!EntryOf(q)'
        BY <1>6, <1>13, <3>1, <4>1
      <4> QED
        BY <4>2 DEF Review!Holds
    <3> QED
      BY <1>13, <3>1, <3>2
  <2>3. CASE q # o /\ ~(request[q].at <= request[o].base)
    <3>1. Review!Committed(q) /\ request'[q].at = request[q].at /\ request[q].at <= commits
      BY <1>11, <1>12, <2>3
    <3>2. request'[o].base < request'[q].at /\ request'[q].at < request'[o].at
      BY <1>2, <1>5, <2>3, <3>1
    <3> QED
      BY <3>2 DEF Review!Overtaken
  <2> QED
    BY <2>1, <2>2, <2>3
<1>17. Review!OnlyOvertakenMissing'
  <2>1. Review!InOrder(grade.history)' /\ \A q \in Override : Review!Committed(q)' =>
          Review!Holds(grade.history, q)' \/ Review!Overtaken(q)'
    BY <1>4, <1>15, <1>16 DEF Review!InOrder, Review!Holds
  <2>2. ASSUME NEW q \in Override, request'[q].pc = "write"
        PROVE  /\ Review!InOrder(request[q].seen)'
               /\ \A i \in DOMAIN request'[q].seen :
                    request'[request'[q].seen[i].by].at <= request'[q].base
               /\ \A p \in Override : Review!Committed(p)' /\ request'[p].at <= request'[q].base =>
                    Review!Holds(request[q].seen, p)' \/ Review!Overtaken(p)'
    <3> DEFINE k == request[q].seen
    <3>1. q # o /\ request'[q] = request[q] /\ request[q].pc = "write" /\ k \in Seq(Review!Entry)
          /\ \A i \in DOMAIN k : k[i].by \in Override
      BY <1>2, <1>5, <2>2, EntriesAre
    <3>2. /\ Review!InOrder(k)
          /\ \A i \in DOMAIN k : request[k[i].by].at <= request[q].base
          /\ \A p \in Override : Review!Committed(p) /\ request[p].at <= request[q].base =>
               Review!Holds(k, p) \/ Review!Overtaken(p)
      BY <1>1, <3>1 DEF Review!OnlyOvertakenMissing
    <3>3. \A i \in DOMAIN k : Review!Committed(k[i].by) /\ request'[k[i].by].at = request[k[i].by].at
      BY <1>11, <3>1, <3>2 DEF Review!InOrder
    <3>4. Review!InOrder(request[q].seen)'
      <4> HIDE DEF k
      <4>1. \A u \in {k} : Review!InOrder(u)'
        BY <1>13, <3>1, <3>2
      <4> QED
        BY <3>1, <4>1 DEF k, Review!InOrder
    <3>5. ASSUME NEW p \in Override, Review!Committed(p)', request'[p].at <= request'[q].base
          PROVE  Review!Holds(request[q].seen, p)' \/ Review!Overtaken(p)'
      <4>1. p # o
        <5>1. request[q].base <= commits /\ request[q].base \in Nat
          BY <1>1, <1>2 DEF Review!CommitsAreNumbered
        <5> QED
          BY <1>2, <1>5, <3>1, <3>5, <5>1
      <4>2. Review!Committed(p) /\ request[p].at <= request[q].base
        BY <1>5, <1>12, <3>1, <3>5, <4>1
      <4>3. CASE Review!Holds(k, p)
        BY <1>13, <3>1, <4>2, <4>3 DEF Review!Holds
      <4> QED
        BY <1>13, <3>2, <4>2, <4>3
    <3> QED
      BY <3>1, <3>2, <3>3, <3>4, <3>5
  <2> QED
    BY <2>1, <2>2 DEF Review!OnlyOvertakenMissing
<1>18. Review!ColumnsAreLatest'
  <2>1. \A q \in Override : Review!Committed(q) => request'[q].at <= request'[o].at
    BY <1>2, <1>5, <1>11
  <2>2. \A q \in Override : request'[q].patch = request[q].patch
    BY <1>5
  <2>3. \/ Review!StatusSetters' = {} /\ grade'.passed = graded.passed
        \/ \E q \in Override : /\ Review!IsLast(q, Review!StatusSetters)'
                               /\ grade'.passed = (request'[q].patch.status = "passed")
    <3>1. CASE request[o].patch.status = None
      <4>1. Review!StatusSetters' = Review!StatusSetters /\ grade'.passed = grade.passed
        BY <1>4, <1>12, <2>2, <3>1 DEF Review!StatusSetters, Review!NextPassed
      <4>2. \A q \in Override : Review!IsLast(q, Review!StatusSetters) =>
                                  Review!IsLast(q, Review!StatusSetters)'
        BY <1>11, <4>1 DEF Review!IsLast, Review!StatusSetters
      <4> QED
        BY <1>1, <1>3, <2>2, <4>1, <4>2 DEF Review!ColumnsAreLatest
    <3>2. CASE request[o].patch.status # None
      <4>1. o \in Review!StatusSetters' /\ Review!StatusSetters' \subseteq Review!StatusSetters \cup {o}
        BY <1>12, <2>2, <3>2 DEF Review!StatusSetters
      <4>2. Review!IsLast(o, Review!StatusSetters)'
        BY <1>2, <1>5, <2>1, <4>1 DEF Review!IsLast, Review!StatusSetters
      <4> QED
        BY <1>4, <2>2, <3>2, <4>2 DEF Review!NextPassed
    <3> QED
      BY <3>1, <3>2
  <2>4. \/ Review!ScoreSetters' = {} /\ grade'.score = graded.score
        \/ \E q \in Override : /\ Review!IsLast(q, Review!ScoreSetters)'
                               /\ grade'.score = request'[q].patch.score
    <3>1. CASE request[o].patch.score = None
      <4>1. Review!ScoreSetters' = Review!ScoreSetters /\ grade'.score = grade.score
        BY <1>4, <1>12, <2>2, <3>1 DEF Review!ScoreSetters, Review!NextScore
      <4>2. \A q \in Override : Review!IsLast(q, Review!ScoreSetters) =>
                                  Review!IsLast(q, Review!ScoreSetters)'
        BY <1>11, <4>1 DEF Review!IsLast, Review!ScoreSetters
      <4> QED
        BY <1>1, <2>2, <4>1, <4>2 DEF Review!ColumnsAreLatest
    <3>2. CASE request[o].patch.score # None
      <4>1. o \in Review!ScoreSetters' /\ Review!ScoreSetters' \subseteq Review!ScoreSetters \cup {o}
        BY <1>12, <2>2, <3>2 DEF Review!ScoreSetters
      <4>2. Review!IsLast(o, Review!ScoreSetters)'
        BY <1>2, <1>5, <2>1, <4>1 DEF Review!IsLast, Review!ScoreSetters
      <4> QED
        BY <1>4, <2>2, <3>2, <4>2 DEF Review!NextScore
    <3> QED
      BY <3>1, <3>2
  <2> QED
    BY <1>4, <2>3, <2>4 DEF Review!ColumnsAreLatest
<1> QED
  BY <1>10, <1>14, <1>17, <1>18 DEF Review!OverrideInv

LEMMA NextInv == ASSUME Review!OverrideInv, [Review!Next]_(Review!vars) PROVE Review!OverrideInv'
<1>1. CASE Review!Insert
  BY <1>1, InsertInv
<1>2. ASSUME NEW o \in Override,
      Review!Receive(o) \/ Review!ReadHistory(o) \/ Review!Abort(o) \/ Review!TimeOut(o)
      PROVE  Review!OverrideInv'
  BY <1>2, RequestInv
<1>3. ASSUME NEW o \in Override, Review!WriteHistory(o) PROVE Review!OverrideInv'
  BY <1>3, WriteInv
<1>4. CASE UNCHANGED Review!vars
  <2>1. grade' = grade /\ graded' = graded /\ request' = request /\ commits' = commits
        /\ failures' = failures
    BY <1>4 DEF Review!vars
  <2>2. Review!TypeOK' /\ Review!CommitsAreNumbered'
    BY <2>1 DEF Review!OverrideInv, Review!TypeOK, Review!CommitsAreNumbered, Review!Committed
  <2>3. Review!OnlyOvertakenMissing'
    BY <2>1, SMTT(60)
       DEF Review!OverrideInv, Review!OnlyOvertakenMissing, Review!InOrder, Review!Holds,
                Review!Overtaken, Review!Committed, Review!EntryOf
  <2>4. Review!ColumnsAreLatest'
    BY <2>1 DEF Review!OverrideInv, Review!ColumnsAreLatest, Review!StatusSetters,
                Review!ScoreSetters, Review!IsLast, Review!Committed, Review!InTransaction
  <2> QED
    BY <2>2, <2>3, <2>4 DEF Review!OverrideInv
<1> QED
  BY <1>1, <1>2, <1>3, <1>4 DEF Review!Next

----------------------------------------------------------------------------
(* What the invariant says of the audit trail. *)

LEMMA InvRecords == ASSUME Review!OverrideInv PROVE Review!AcknowledgedIsRecorded
<1> DEFINE h == grade.history
<1>1. /\ h \in Seq(Review!Entry) /\ Review!InOrder(h)
      /\ \A o \in Override : request[o].at \in Nat
  BY TypedFields DEF Review!OverrideInv, Review!OnlyOvertakenMissing
<1>2. ASSUME NEW o \in Override, request[o].reply = "ok" \/ Review!Committed(o)
      PROVE  Review!Recorded(o) \/ Review!Lost(o)
  <2>1. Review!Committed(o)
    BY <1>2 DEF Review!OverrideInv, Review!CommitsAreNumbered
  <2> QED
    BY <2>1 DEF Review!OverrideInv, Review!OnlyOvertakenMissing, Review!Holds, Review!Recorded,
                Review!Lost
<1>3. ASSUME NEW i \in DOMAIN h, NEW j \in DOMAIN h, h[i].by = h[j].by
      PROVE  i = j
  <2>1. i \in Nat /\ j \in Nat /\ h[i].by \in Override
    BY <1>1, EntriesAre
  <2>2. ~(i < j) /\ ~(j < i)
    BY <1>1, <1>3, <2>1 DEF Review!InOrder
  <2> QED
    BY <2>1, <2>2
<1> QED
  BY <1>2, <1>3 DEF Review!AcknowledgedIsRecorded

\* The entry of the last override that set a column is the latest that sets it.
LEMMA LastIsLatest ==
    ASSUME Review!OverrideInv, NEW S \in SUBSET DOMAIN grade.history, NEW T \in SUBSET Override,
           NEW m \in Override, Review!IsLast(m, T), Review!Recorded(m),
           \A i \in DOMAIN grade.history : i \in S <=> grade.history[i].by \in T
    PROVE  S # {} /\ grade.history[Review!Latest(S)] = Review!EntryOf(m)
<1> DEFINE h == grade.history
<1>1. /\ h \in Seq(Review!Entry) /\ Review!InOrder(h)
      /\ \A o \in Override : request[o].at \in Nat
  BY TypedFields DEF Review!OverrideInv, Review!OnlyOvertakenMissing
<1>2. PICK i \in DOMAIN h : h[i] = Review!EntryOf(m)
  BY DEF Review!Recorded
<1>3. h[i].by = m /\ i \in S
  BY <1>2 DEF Review!EntryOf, Review!IsLast
<1>4. ASSUME NEW j \in S PROVE j <= i
  <2>1. j \in Nat /\ i \in Nat /\ h[j].by \in T /\ j \in DOMAIN h
    BY <1>1
  <2>2. request[h[j].by].at <= request[m].at /\ request[h[j].by].at \in Nat
    BY <1>1, <2>1 DEF Review!IsLast
  <2>3. ~(i < j)
    BY <1>1, <1>3, <2>1, <2>2 DEF Review!InOrder
  <2> QED
    BY <2>1, <2>3
<1>5. Len(h) \in Nat /\ S \in SUBSET (1..Len(h))
  BY <1>1
<1>6. Review!Latest(S) = i
  BY <1>3, <1>4, <1>5, LatestIs
<1> QED
  BY <1>2, <1>3, <1>6

\* One that is not recorded is lost, and committed after all that are.
LEMMA LastIsLost ==
    ASSUME Review!OverrideInv, NEW S \in SUBSET DOMAIN grade.history, NEW T \in SUBSET Override,
           NEW m \in Override, Review!IsLast(m, T), Review!Committed(m), ~Review!Recorded(m),
           \A i \in DOMAIN grade.history : i \in S <=> grade.history[i].by \in T
    PROVE  Review!Lost(m) /\ Review!AfterAll(m, S)
<1> DEFINE h == grade.history
<1>1. /\ h \in Seq(Review!Entry) /\ Review!InOrder(h) /\ Review!CommitsAreNumbered
      /\ \A o \in Override : request[o].at \in Nat
  BY TypedFields DEF Review!OverrideInv, Review!OnlyOvertakenMissing
<1>2. Review!Lost(m)
  BY DEF Review!OverrideInv, Review!OnlyOvertakenMissing, Review!Holds, Review!Recorded,
         Review!Lost
<1>3. ASSUME NEW i \in S PROVE request[h[i].by].at < request[m].at
  <2>1. i \in DOMAIN h /\ h[i].by \in Override /\ h[i].by \in T
    BY <1>1, EntriesAre
  <2>2. h[i].by # m
    BY <1>1, <2>1 DEF Review!InOrder, Review!Recorded
  <2>3. request[h[i].by].at # request[m].at
    BY <1>1, <2>1, <2>2 DEF Review!CommitsAreNumbered
  <2>4. request[h[i].by].at <= request[m].at
    BY <2>1 DEF Review!IsLast
  <2> QED
    BY <1>1, <2>1, <2>3, <2>4
<1> QED
  BY <1>2, <1>3 DEF Review!AfterAll

LEMMA InvExplains == ASSUME Review!OverrideInv PROVE Review!GradeIsExplained
<1> DEFINE h == grade.history
<1>1. h \in Seq(Review!Entry) /\ Review!InOrder(h) /\ Review!ColumnsAreLatest
  BY TypedFields DEF Review!OverrideInv, Review!OnlyOvertakenMissing
<1>2. ASSUME NEW i \in DOMAIN h
      PROVE  /\ h[i].by \in Override /\ Review!Committed(h[i].by)
             /\ h[i].patch = request[h[i].by].patch
  <2>1. h[i].by \in Override
    BY <1>1, EntriesAre
  <2>2. Review!Committed(h[i].by) /\ h[i] = Review!EntryOf(h[i].by)
    BY <1>1 DEF Review!InOrder
  <2>3. Review!EntryOf(h[i].by).patch = request[h[i].by].patch
    BY DEF Review!EntryOf
  <2> QED
    BY <2>1, <2>2, <2>3
<1> DEFINE StatusIsExplained ==
             \/ grade.passed = IF Review!StatusEntries(h) = {} THEN graded.passed
                              ELSE h[Review!Latest(Review!StatusEntries(h))].patch.status = "passed"
             \/ \E o \in Override : /\ Review!Lost(o) /\ Review!AfterAll(o, Review!StatusEntries(h))
                                    /\ request[o].patch.status # None
                                    /\ grade.passed = (request[o].patch.status = "passed")
<1>3. ASSUME grade.there PROVE StatusIsExplained
  <2>1. /\ Review!StatusEntries(h) \in SUBSET DOMAIN h
        /\ Review!StatusSetters \in SUBSET Override
        /\ \A i \in DOMAIN h : i \in Review!StatusEntries(h) <=> h[i].by \in Review!StatusSetters
    BY <1>2 DEF Review!StatusEntries, Review!StatusSetters
  <2>2. CASE Review!StatusSetters = {} /\ grade.passed = graded.passed
    BY <2>1, <2>2
  <2>3. ASSUME NEW m \in Override, Review!IsLast(m, Review!StatusSetters),
               grade.passed = (request[m].patch.status = "passed")
        PROVE  StatusIsExplained
    <3>1. Review!Committed(m) /\ request[m].patch.status # None
      BY <2>3 DEF Review!IsLast, Review!StatusSetters
    <3>2. CASE Review!Recorded(m)
      <4>1. /\ Review!StatusEntries(h) # {}
            /\ h[Review!Latest(Review!StatusEntries(h))] = Review!EntryOf(m)
        BY <2>1, <2>3, <3>2, LastIsLatest
      <4>2. Review!EntryOf(m).patch = request[m].patch
        BY DEF Review!EntryOf
      <4> QED
        BY <2>3, <4>1, <4>2
    <3>3. CASE ~Review!Recorded(m)
      BY <2>1, <2>3, <3>1, <3>3, LastIsLost
    <3> QED
      BY <3>2, <3>3
  <2> QED
    BY <1>1, <1>3, <2>2, <2>3 DEF Review!ColumnsAreLatest
<1> DEFINE ScoreIsExplained ==
             \/ grade.score = IF Review!ScoreEntries(h) = {} THEN graded.score
                              ELSE h[Review!Latest(Review!ScoreEntries(h))].patch.score
             \/ \E o \in Override : /\ Review!Lost(o) /\ Review!AfterAll(o, Review!ScoreEntries(h))
                                    /\ request[o].patch.score # None
                                    /\ grade.score = request[o].patch.score
<1>4. ASSUME grade.there PROVE ScoreIsExplained
  <2>1. /\ Review!ScoreEntries(h) \in SUBSET DOMAIN h
        /\ Review!ScoreSetters \in SUBSET Override
        /\ \A i \in DOMAIN h : i \in Review!ScoreEntries(h) <=> h[i].by \in Review!ScoreSetters
    BY <1>2 DEF Review!ScoreEntries, Review!ScoreSetters
  <2>2. CASE Review!ScoreSetters = {} /\ grade.score = graded.score
    BY <2>1, <2>2
  <2>3. ASSUME NEW m \in Override, Review!IsLast(m, Review!ScoreSetters),
               grade.score = request[m].patch.score
        PROVE  ScoreIsExplained
    <3>1. Review!Committed(m) /\ request[m].patch.score # None
      BY <2>3 DEF Review!IsLast, Review!ScoreSetters
    <3>2. CASE Review!Recorded(m)
      <4>1. /\ Review!ScoreEntries(h) # {}
            /\ h[Review!Latest(Review!ScoreEntries(h))] = Review!EntryOf(m)
        BY <2>1, <2>3, <3>2, LastIsLatest
      <4>2. Review!EntryOf(m).patch = request[m].patch
        BY DEF Review!EntryOf
      <4> QED
        BY <2>3, <4>1, <4>2
    <3>3. CASE ~Review!Recorded(m)
      BY <2>1, <2>3, <3>1, <3>3, LastIsLost
    <3> QED
      BY <3>2, <3>3
  <2> QED
    BY <1>1, <2>2, <2>3 DEF Review!ColumnsAreLatest
<1> QED
  BY <1>3, <1>4 DEF Review!GradeIsExplained

----------------------------------------------------------------------------
(* The theorems. *)

\* Every reachable state is well typed and satisfies the inductive invariant,
\* whatever transactions run at once.
THEOREM OverrideInvariance == GradingSpec => []Review!OverrideInv
<1>1. Review!Init => Review!OverrideInv
  BY InitInv
<1>2. Review!OverrideInv /\ [Review!Next]_(Review!vars) => Review!OverrideInv'
  BY NextInv
<1> QED
  BY <1>1, <1>2, PartsRun, PTL DEF Review!Spec

\* What a learner is shown follows from the audit trail, or from an override that
\* committed after all that are in it and whose entry another wrote over.
THEOREM GradesAreExplained == GradingSpec => []GradeIsExplained
<1>1. Review!OverrideInv => Review!GradeIsExplained
  BY InvExplains
<1> QED
  BY <1>1, OverrideInvariance, PTL DEF GradeIsExplained

\* A committed override is in the audit trail unless another overtook it, and none
\* is in it twice.
THEOREM AcknowledgedAreRecorded == GradingSpec => []AcknowledgedIsRecorded
<1>1. Review!OverrideInv => Review!AcknowledgedIsRecorded
  BY InvRecords
<1> QED
  BY <1>1, OverrideInvariance, PTL DEF AcknowledgedIsRecorded
=============================================================================
