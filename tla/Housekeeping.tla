----------------------------- MODULE Housekeeping -----------------------------
(* What is done with stored data beside the learner's main path: the small   *)
(* queues of BackgroundJobs, deletion and export of AccountErasure, and the  *)
(* bundles of BundleLifecycle.  Each behaviour is of one of the three, which *)
(* share no state; the others rest.                                          *)
EXTENDS BackgroundJobs

CONSTANTS Request, Kinds, Overlap, MaxErasures, MaxLost,               \* of AccountErasure
          Submission, Finalize, Delete, Ageing, MaxFaults     \* of BundleLifecycle

CONSTANT Parts   \* the parts to follow

VARIABLES part,
          held, next, email, tx, req, export, lost,
          row, store, expired, old, submit, fin, del, sweep, late, faults

account == <<held, next, email, tx, req, export, lost>>
bundles == <<row, store, expired, old, submit, fin, del, sweep, late, faults>>

Account == INSTANCE AccountErasure WITH row <- held, faults <- lost, MaxFaults <- MaxLost
Bundles == INSTANCE BundleLifecycle

ASSUME HousekeepingAssumption ==
    Parts \subseteq {"jobs", "account", "bundles"} /\ Account!AccountAssumption /\ Bundles!BundleAssumption

\* A part that does not move begins in one of its initial states.
AccountRests == /\ held = Account!Fresh
                /\ req = [r \in Request |-> Account!Idle(CHOOSE k \in Kinds : TRUE)]

AllInit ==
    /\ part \in Parts /\ (part # "account" => AccountRests)
    /\ Init /\ Account!Init /\ Bundles!Init

AllNext ==
    /\ UNCHANGED part
    /\ \/ part = "jobs" /\ Next /\ UNCHANGED <<account, bundles>>
       \/ part = "account" /\ Account!Next /\ UNCHANGED <<vars, bundles>>
       \/ part = "bundles" /\ Bundles!Next /\ UNCHANGED <<vars, account>>

AllSpec == AllInit /\ [][AllNext]_<<part, vars, account, bundles>> /\ Bundles!Fairness

\* AccountErasure: nothing the learner had is left (account-cascade.ts).
ErasureIsComplete == Account!ErasureIsComplete

\* AccountErasure: the plan's order respects the foreign keys (account-cascade.ts).
OnlyInterferenceBlocks == Account!OnlyInterferenceBlocks

\* AccountErasure: the export has every row that stayed (account-cascade.ts).
ExportIsWhole == Account!ExportIsWhole

\* BundleLifecycle: a bundle marked or deleted is gone (submission-retention.ts).
PurgedMeansGone == Bundles!PurgedMeansGone

\* BundleLifecycle: finalize accepts only what was uploaded (finalize/route.ts).
AcceptedWasUploaded == Bundles!AcceptedWasUploaded

\* BundleLifecycle: no bundle outlives its window for ever (submission-retention.ts).
BundleExpires == Bundles!BundleExpires
=============================================================================
