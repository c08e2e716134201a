------------------------------- MODULE Readers -------------------------------
(* What the readers of the database are given: the access policy of          *)
(* StageAccess, one encrypted column of FieldEncryption, one followed run of *)
(* RunWatch.  Each behaviour is of one of the three, which share no state;    *)
(* the others rest.                                                          *)
EXTENDS StageAccess, Sequences

CONSTANTS Process, Text, Lookalike, Setting, KeyLen,   \* of FieldEncryption
          MaxLines, Page, MaxWrites, MaxFaults         \* of RunWatch

VARIABLES part,
          env, cell, held, meant, by,
          status, inline, object, writes, faults, panel, cli

policy == <<clock, member, grants, free, release, active, completed>>
column == <<env, cell, held, meant, by>>
watched == <<status, inline, object, writes, faults, panel, cli>>

Column == INSTANCE FieldEncryption
Watch == INSTANCE RunWatch

ASSUME ReadersAssumption == Column!FieldAssumption /\ Watch!WatchAssumption

\* A part that does not move begins in one of its initial states.
PolicyRests == free = {} /\ release = {} /\ active = None /\ completed = {}
ColumnRests == /\ env = [p \in Process |-> CHOOSE s \in Setting : TRUE]
               /\ meant = CHOOSE t \in Text : TRUE

AllInit ==
    /\ Init /\ Column!Init /\ Watch!Init
    /\ \/ part = "policy" /\ ColumnRests
       \/ part = "column" /\ PolicyRests
       \/ part = "watch" /\ PolicyRests /\ ColumnRests

AllNext ==
    /\ UNCHANGED part
    /\ \/ part = "policy" /\ Next /\ UNCHANGED <<column, watched>>
       \/ part = "column" /\ Column!Next /\ UNCHANGED <<policy, watched>>
       \/ part = "watch" /\ Watch!Next /\ UNCHANGED <<policy, column>>

AllSpec == AllInit /\ [][AllNext]_<<part, policy, column, watched>> /\ Watch!Fairness

\* FieldEncryption: a reader gets what was written, or nothing (encrypted-fields.ts).
ReadsAreHonest == Column!ReadsAreHonest

\* RunWatch: what is shown of a run is whole (RunStatusPanel.tsx, logs.ts).
WhatIsShownIsWhole == Watch!WhatIsShownIsWhole

\* RunWatch: following a run that ended comes to rest (RunStatusPanel.tsx, logs.ts).
FollowEnds == Watch!FollowEnds
=============================================================================
