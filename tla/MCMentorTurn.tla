---------------------------- MODULE MCMentorTurn ----------------------------
(* Instances of MentorTurn for TLC. *)
EXTENDS MentorTurn, TLC

CONSTANTS strict, loose, bad, secret

TheTargets == [p \in {strict, loose, bad} |-> IF p = strict THEN {secret} ELSE {}]

Symmetry == Permutations(Turn) \cup Permutations(User) \cup Permutations(Package)
=============================================================================
