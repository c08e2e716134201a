--------------------------- MODULE MCHousekeeping ---------------------------
(* Instances of Housekeeping for TLC. *)
EXTENDS Housekeeping, TLC

Windows == {<<0, 1>>, <<0, 2>>}

\* Fault budgets: failing creates, rekeys, storage calls and database calls.
Budget(creates, rekeys, storage, db_calls) ==
    [k \in {"create", "rekey", "storage", "db"} |->
        CASE k = "create" -> creates [] k = "rekey" -> rekeys
          [] k = "storage" -> storage [] k = "db" -> db_calls]

SomeOfEach == Budget(1, 1, 2, 2)

Symmetry == Permutations(Job) \cup Permutations(Branch) \cup Permutations(Request)
=============================================================================
