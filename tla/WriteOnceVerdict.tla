-------------------------- MODULE WriteOnceVerdict --------------------------
(***************************************************************************)
(* What grading promises about each attempt, with no worker, queue, run or *)
(* database in sight: a verdict is decided at most once, and what the      *)
(* learner is shown is nothing or the verdict that was decided.            *)
(***************************************************************************)
CONSTANTS Attempt, Verdict, None

VARIABLES decided, published

vars == <<decided, published>>

Init ==
    /\ decided = [a \in Attempt |-> None]
    /\ published = [a \in Attempt |-> None]

\* The first evaluation of an attempt fixes its verdict.
Decide(a, v) ==
    /\ decided[a] = None
    /\ decided' = [decided EXCEPT ![a] = v]
    /\ UNCHANGED published

\* The verdict reaches the learner; publishing it again changes nothing.
Publish(a) ==
    /\ decided[a] # None
    /\ published' = [published EXCEPT ![a] = decided[a]]
    /\ UNCHANGED decided

Next == \E a \in Attempt : Publish(a) \/ \E v \in Verdict : Decide(a, v)

Spec == Init /\ [][Next]_vars
=============================================================================
