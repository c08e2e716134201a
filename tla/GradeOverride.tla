--------------------------- MODULE GradeOverride ---------------------------
(***************************************************************************)
(* A Grade row and the reviewers' overrides of it.  An override runs an    *)
(* interactive transaction that reads the row, appends an entry to its     *)
(* JSON history and writes history, passed and score back.  Postgres runs  *)
(* it at read committed, so two of them may read the same history and the  *)
(* later one write over the entry of the other.  A request that times out  *)
(* leaves its transaction running; a reviewer who tries again is another   *)
(* request with the same patch.                                            *)
(***************************************************************************)
EXTENDS Naturals, Sequences

CONSTANTS
    Override,    \* override requests
    Score,       \* rubric scores
    MaxFaults,   \* bound on failed or timed out transactions
    None         \* a field the patch leaves alone

Status == {"passed", "partial", "failed"}

\* What the constants are taken to be.
OverrideAssumption ==
    /\ MaxFaults \in Nat
    /\ None \notin Score /\ None \notin Status

VARIABLES
    grade,    \* Grade row, once the grader has inserted it
    graded,   \* what the grader decided
    request,  \* override request: program counter, patch, history it read, reply
    commits,  \* history variable: transactions committed so far
    faults

vars == <<grade, graded, request, commits, faults>>

\* The override patch; one that only gives feedback changes neither field.
Patch == [status: Status \cup {None}, score: Score \cup {None}]
Entry == [by: Override, patch: Patch]
GradeRow == [there: BOOLEAN, passed: BOOLEAN, score: Score, history: Seq(Entry)]
\* base and at are history: the commits its transaction had behind it when it
\* read, and its own place among them, 0 before it commits.
Request == [pc: {"new", "read", "write", "done"}, patch: Patch, seen: Seq(Entry),
            reply: {"none", "ok", "not_found", "error"}, base: Nat, at: Nat]

TypeOK ==
    /\ grade \in GradeRow
    /\ graded \in [passed: BOOLEAN, score: Score]
    /\ request \in [Override -> Request]
    /\ commits \in Nat
    /\ faults \in Nat

Init ==
    /\ graded \in [passed: BOOLEAN, score: Score]
    /\ grade = [there |-> FALSE, passed |-> FALSE, score |-> graded.score, history |-> <<>>]
    /\ request \in [Override -> [pc: {"new"}, patch: Patch, seen: {<<>>}, reply: {"none"},
                                 base: {0}, at: {0}]]
    /\ commits = 0
    /\ faults = 0

Fault == faults < MaxFaults /\ faults' = faults + 1

----------------------------------------------------------------------------
\* The grader inserts its grade: a status that is not "passed" is a failure.
Insert ==
    /\ ~grade.there
    /\ grade' = [grade EXCEPT !.there = TRUE, !.passed = graded.passed]
    /\ UNCHANGED <<graded, request, commits, faults>>

InTransaction(o) == request[o].pc \in {"read", "write"}

\* The route looks the grade up and opens the transaction.
Receive(o) ==
    /\ request[o].pc = "new"
    /\ \/ /\ grade.there
          /\ request' = [request EXCEPT ![o].pc = "read"]
       \/ /\ ~grade.there
          /\ request' = [request EXCEPT ![o].pc = "done", ![o].reply = "not_found"]
    /\ UNCHANGED <<grade, graded, commits, faults>>

ReadHistory(o) ==
    /\ request[o].pc = "read"
    /\ request' = [request EXCEPT ![o].pc = "write", ![o].seen = grade.history,
                                  ![o].base = commits]
    /\ UNCHANGED <<grade, graded, commits, faults>>

EntryOf(o) == [by |-> o, patch |-> request[o].patch]

\* Mutant: an entry with nothing but feedback is dropped.
HistoryOfChanges(o) ==
    IF request[o].patch = [status |-> None, score |-> None] THEN request[o].seen
    ELSE Append(request[o].seen, EntryOf(o))
NextHistory(o) == Append(request[o].seen, EntryOf(o))

\* Mutant: the column is stamped without a look at whether the patch has the field.
StatusStamped(o) == request[o].patch.status = "passed"
NextPassed(o) ==
    IF request[o].patch.status = None THEN grade.passed ELSE request[o].patch.status = "passed"

NextScore(o) ==
    IF request[o].patch.score = None THEN grade.score ELSE request[o].patch.score

\* The update commits, over whatever was committed since the read; the columns
\* the patch leaves out keep the row's value.  A caller that is still there gets
\* the grade.
WriteHistory(o) ==
    /\ request[o].pc = "write"
    /\ grade' = [grade EXCEPT !.history = NextHistory(o), !.passed = NextPassed(o),
                              !.score = NextScore(o)]
    /\ request' = [request EXCEPT ![o].pc = "done",
                                  ![o].reply = IF @ = "none" THEN "ok" ELSE @,
                                  ![o].at = commits + 1]
    /\ commits' = commits + 1
    /\ UNCHANGED <<graded, faults>>

\* The transaction fails and rolls back.
Abort(o) ==
    /\ Fault
    /\ InTransaction(o)
    /\ request' = [request EXCEPT ![o].pc = "done", ![o].reply = "error"]
    /\ UNCHANGED <<grade, graded, commits>>

\* The query timeout answers the caller; the transaction goes on.
TimeOut(o) ==
    /\ Fault
    /\ InTransaction(o)
    /\ request[o].reply = "none"
    /\ request' = [request EXCEPT ![o].reply = "error"]
    /\ UNCHANGED <<grade, graded, commits>>

Next ==
    \/ Insert
    \/ \E o \in Override : \/ Receive(o) \/ ReadHistory(o) \/ WriteHistory(o)
                           \/ Abort(o) \/ TimeOut(o)

Spec == Init /\ [][Next]_vars

----------------------------------------------------------------------------
(* Properties. *)

\* The history is append-only: no override drops or rewrites an earlier entry.
\* schema.prisma says so of the column and idempotency.ts of the store.
HistoryOnlyGrows ==
    [][/\ Len(grade.history) <= Len(grade'.history)
       /\ \A i \in DOMAIN grade.history : grade'.history[i] = grade.history[i]]_vars

\* An override that commits over one it had not read: what the other wrote is lost.
Committed(o) == request[o].at > 0
Overtaken(o) ==
    /\ Committed(o)
    /\ \E q \in Override : request[q].base < request[o].at /\ request[o].at < request[q].at

Recorded(o) == \E i \in DOMAIN grade.history : grade.history[i] = EntryOf(o)
Lost(o) == Overtaken(o) /\ ~Recorded(o)

\* An override that was acknowledged, or that committed after its caller had gone,
\* is in the audit trail unless a transaction that had read before it committed
\* wrote over it; and none is in the trail twice.
AcknowledgedIsRecorded ==
    /\ \A o \in Override : request[o].reply = "ok" \/ Committed(o) => Recorded(o) \/ Lost(o)
    /\ \A i, j \in DOMAIN grade.history : grade.history[i].by = grade.history[j].by => i = j

\* Entries of the history that set a status, and a score.
StatusEntries(h) == {i \in DOMAIN h : h[i].patch.status # None}
ScoreEntries(h) == {i \in DOMAIN h : h[i].patch.score # None}
Latest(S) == CHOOSE i \in S : \A j \in S : j <= i

\* Whether o committed after every override the entries S of the history are of.
AfterAll(o, S) == \A i \in S : request[grade.history[i].by].at < request[o].at

\* The grade a learner is shown follows from the audit trail: each column holds
\* what the latest entry that sets it says, or what the grader said; or else what
\* a later override said whose entry was written over.
GradeIsExplained ==
    LET h == grade.history IN
    grade.there =>
        /\ \/ grade.passed = IF StatusEntries(h) = {} THEN graded.passed
                             ELSE h[Latest(StatusEntries(h))].patch.status = "passed"
           \/ \E o \in Override : /\ Lost(o) /\ AfterAll(o, StatusEntries(h))
                                  /\ request[o].patch.status # None
                                  /\ grade.passed = (request[o].patch.status = "passed")
        /\ \/ grade.score = IF ScoreEntries(h) = {} THEN graded.score
                            ELSE h[Latest(ScoreEntries(h))].patch.score
           \/ \E o \in Override : /\ Lost(o) /\ AfterAll(o, ScoreEntries(h))
                                  /\ request[o].patch.score # None
                                  /\ grade.score = request[o].patch.score

----------------------------------------------------------------------------
(* The inductive invariant behind them. *)

\* Commits are numbered in their order, and a transaction reads before it commits.
CommitsAreNumbered ==
    /\ \A o \in Override : request[o].at <= commits /\ request[o].base <= commits
    /\ \A o \in Override : Committed(o) => request[o].pc = "done" /\ request[o].base < request[o].at
    /\ \A o, q \in Override : Committed(o) /\ request[o].at = request[q].at => o = q
    /\ \A o \in Override : request[o].reply = "ok" => Committed(o)

\* A history holds entries of committed overrides in the order of their commits.
InOrder(h) ==
    /\ \A i \in DOMAIN h : Committed(h[i].by) /\ h[i] = EntryOf(h[i].by)
    /\ \A i, j \in DOMAIN h : i < j => request[h[i].by].at < request[h[j].by].at

Holds(h, o) == \E i \in DOMAIN h : h[i] = EntryOf(o)

\* What a transaction has read, and the row, lack only overtaken overrides.
OnlyOvertakenMissing ==
    /\ InOrder(grade.history)
    /\ \A o \in Override : Committed(o) => Holds(grade.history, o) \/ Overtaken(o)
    /\ \A q \in Override : request[q].pc = "write" =>
        /\ InOrder(request[q].seen)
        /\ \A i \in DOMAIN request[q].seen :
            request[request[q].seen[i].by].at <= request[q].base
        /\ \A o \in Override : Committed(o) /\ request[o].at <= request[q].base =>
            Holds(request[q].seen, o) \/ Overtaken(o)

\* The columns hold what the last committed override that sets them said.
StatusSetters == {o \in Override : Committed(o) /\ request[o].patch.status # None}
ScoreSetters == {o \in Override : Committed(o) /\ request[o].patch.score # None}
IsLast(o, S) == o \in S /\ \A q \in S : request[q].at <= request[o].at

ColumnsAreLatest ==
    /\ grade.there =>
        \/ StatusSetters = {} /\ grade.passed = graded.passed
        \/ \E o \in Override : /\ IsLast(o, StatusSetters)
                               /\ grade.passed = (request[o].patch.status = "passed")
    /\ \/ ScoreSetters = {} /\ grade.score = graded.score
       \/ \E o \in Override : /\ IsLast(o, ScoreSetters)
                              /\ grade.score = request[o].patch.score
    /\ \A o \in Override : InTransaction(o) \/ Committed(o) => grade.there

OverrideInv ==
    /\ TypeOK
    /\ CommitsAreNumbered
    /\ OnlyOvertakenMissing
    /\ ColumnsAreLatest
=============================================================================
