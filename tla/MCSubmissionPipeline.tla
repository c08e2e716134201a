------------------------ MODULE MCSubmissionPipeline ------------------------
(* Instances of SubmissionPipeline for TLC. *)
EXTENDS SubmissionPipeline, TLC

\* Fault budgets: which faults a run admits, and how many of each.
Budget(crashes, locks, dbErrors, outages) ==
    [k \in FaultKind |-> CASE k = "crash" -> crashes [] k = "lock" -> locks
                           [] k = "db" -> dbErrors [] k = "broker" -> outages]

OneOfEach   == Budget(1, 1, 1, 1)
OneCrash    == Budget(1, 0, 0, 1)

\* What the runner may post: progress, or a terminal report, with and without
\* metrics, and the pointer of a grade.
Report(status, exec, metrics, hasGrade) ==
    [status |-> status, exec |-> exec, metrics |-> metrics, grade |-> hasGrade]

TerminalReports == {Report("ok", "ok", TRUE, FALSE), Report("timeout", "timeout", FALSE, FALSE),
                    Report("ok", None, FALSE, TRUE)}
Reports == TerminalReports \cup {Report("running", None, FALSE, FALSE)}

Symmetry == Permutations(Worker) \cup Permutations(Finalize)
=============================================================================
