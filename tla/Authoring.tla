----------------------------- MODULE Authoring -----------------------------
(* What works on the author's tree: the validator and the seed script of     *)
(* ContentSeed, and the drafting agent of ErpDraft.  Each behaviour is of one *)
(* of the two, which share no state; the other rests.                        *)
EXTENDS ContentSeed

CONSTANTS Run, Target, Spelling, SlugOf, Input, TemplateFile, Outcome,   \* of ErpDraft
          MaxCommands, MaxFaults, MaxChanges,
          Starting   \* the revisions a run of the seed may find at first

VARIABLES part, folder, package, command, spent

seeding == <<files, seed, version, stageRow, nodeRow, branchRow, fixture, enrolled, edits, runs>>
drafting == <<folder, package, command, spent>>

Draft == INSTANCE ErpDraft WITH Package <- Target, MaxEdits <- MaxChanges

ASSUME AuthoringAssumption == SeedAssumption /\ Draft!ErpDraftAssumption

BothInit ==
    /\ Init /\ Draft!Init
    /\ \/ part = "seed" /\ files \in Starting
       \/ part = "draft" /\ files = CHOOSE revision \in DOMAIN Package : TRUE

BothNext ==
    /\ UNCHANGED part
    /\ \/ part = "seed" /\ Next /\ UNCHANGED drafting
       \/ part = "draft" /\ Draft!Next /\ UNCHANGED seeding

BothSpec == BothInit /\ [][BothNext]_<<part, seeding, drafting>>

\* ErpDraft: manifest, report files and the agent's report agree (workflow.py:221-275).
RecordsAgree == Draft!RecordsAgree

\* ErpDraft: no command undoes earlier work (scaffold.py:28, workflow.py:82-85).
WorkSurvives == Draft!WorkSurvives
=============================================================================
