------------------------------ MODULE MCReaders ------------------------------
(* Instances of Readers for TLC. *)
EXTENDS Readers

CONSTANTS s1, s2, t1, look

FirstStage(S) == IF s1 \in S THEN s1 ELSE s2
GrantOf(scope, version, stage, expires) ==
    [scope |-> scope, version |-> version, stage |-> stage, expires |-> expires]

\* One of each kind: for the package, for another version of it, for a stage
\* with and without its version, for the mentor; some end, some do not.
Grants == {GrantOf("package", Here, None, 1), GrantOf("package", Other, None, 2),
           GrantOf("stage", None, s1, 2), GrantOf("stage", Other, s2, 2),
           GrantOf("mentor", None, None, 1), GrantOf("team_seat", Here, None, 2)}

\* Encryption off; on without a key, and with one that is as long as the cipher
\* needs, longer than that with the same beginning, or too short.
Settings == {[on |-> FALSE, material |-> <<>>], [on |-> TRUE, material |-> <<>>]}
            \cup {[on |-> TRUE, material |-> m] : m \in {<<1, 2>>, <<1, 2, 3>>, <<1>>}}
=============================================================================
