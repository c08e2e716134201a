---------------------------- MODULE MCSandboxRun ----------------------------
(* Instances of SandboxRun for TLC. *)
EXTENDS SandboxRun

Plain == [mode |-> "test", words |-> 1, ask |-> 1, fixtures |-> <<>>, bundle |-> <<>>]

\* One job that passes every check, and the jobs that differ from a good one in
\* what they ask for, in a fixture or in an entry of the bundle.
Requests ==
    {[Plain EXCEPT !.mode = "replay", !.fixtures = <<"right">>, !.bundle = <<"directory">>]}
    \cup {[Plain EXCEPT !.mode = m, !.ask = 2] : m \in Mode}
    \cup {[Plain EXCEPT !.words = 0]}
    \cup {[Plain EXCEPT !.mode = "replay", !.fixtures = <<"right", f>>]
            : f \in FixtureCheck \ {"right"}}
    \cup {[Plain EXCEPT !.bundle = <<"directory", e>>]
            : e \in Entry \ {"file", "directory"}}

\* More than the cap to one stream.
Writes == [s \in {"stdout", "stderr"} |-> IF s = "stdout" THEN 3 ELSE 1]
=============================================================================
