----------------------------- MODULE StageAccess -----------------------------
(***************************************************************************)
(* Who may do what on which stage: the one policy (apps/web/lib/           *)
(* permissions.ts canAccess), the stage descriptors the data layer         *)
(* (lib/data) hands it, and the routes that ask it, while memberships,     *)
(* grants, the release and the clock change under a learner.               *)
(*                                                                         *)
(* One package version Here, one learner with one enrolment in it.  Billing*)
(* is not in the repository: its rows are changed by the environment, with *)
(* at most one active membership, as canAccess reads any one of them.      *)
(* Nothing in the repository moves an enrolment on: its progress is fixed. *)
(***************************************************************************)
EXTENDS Integers, FiniteSets

CONSTANTS Stage,        \* Stage.stageId of Here
          First(_),     \* the first of a set of stages, by stageId
          Here, Other,  \* package versions
          Stub,         \* the version id "<slug>@stub" of no row
          Grantable,    \* the grants that may come
          MaxClock,     \* bound on the clock
          MaxRows,      \* bound on grants held at a time
          None

Who == {"anonymous", "learner"}
Plan == {"free", "pro", "team", "institution"}
Status == {"active", "past_due", "canceled", "paused", "trialing"}
Scope == {"package", "stage", "mentor", "team_seat"}
Action == {"view_stage", "submit_attempt", "request_mentor_hint",
           "request_mentor_feedback", "view_branch_feedback",
           "create_share_card", "view_solution"}
Entitlement == [scope : Scope, version : {Here, Other, None},
                stage : Stage \cup {None}, expires : Nat]

ASSUME StageAssumption ==
    /\ \A S \in SUBSET Stage : S # {} => First(S) \in S
    /\ Stage # {} /\ None \notin Stage
    /\ Here # Other /\ Stub \notin {Here, Other, None}
    /\ Grantable \subseteq Entitlement /\ MaxClock \in Nat /\ MaxRows \in Nat

VARIABLES clock,
          member,     \* the active Membership's plan, or None
          grants,     \* Entitlement rows
          free,       \* stages with Stage.free
          release,    \* PackageVersion.releaseFreeStageIds
          active,     \* Enrollment.activeStageRef, None when null
          completed   \* Enrollment.completedStageRefs

billing == <<member, grants>>
content == <<free, release>>
progress == <<active, completed>>
vars == <<clock, billing, content, progress>>

Init ==
    /\ clock = 0 /\ member = None /\ grants = {}
    /\ free \in SUBSET Stage /\ release \in SUBSET Stage
    /\ active \in Stage \cup {None} /\ completed \in SUBSET Stage

--------------------------------------------------------------------------
(* The policy                                                             *)

\* isExpired; a grant without an end expires after MaxClock.
Live(g) == g.expires > clock
\* Mutant: an expired row still counts.
LiveForEver(g) == g.expires >= 0
Counts(g) == Live(g)

\* isActiveProMember: any plan but the explicit free one.
Pro == member \notin {None, "free"}

HasMentorGrant == \E g \in grants : g.scope = "mentor" /\ Counts(g)

\* hasPackageOrStageEntitlement, for version v; a stage row exists in Here only.
Matches(g, v, s) ==
    \/ g.scope = "package" /\ g.version = v
    \/ g.scope = "stage" /\ v = Here /\ g.stage = s /\ g.version \in {None, v}
\* Mutant: one row is fetched instead of all of them.
HasGrantInOneRow(v, s) ==
    grants # {} /\ LET g == CHOOSE g \in grants : TRUE IN Counts(g) /\ Matches(g, v, s)
HasGrantFor(v, s) == \E g \in grants : Counts(g) /\ Matches(g, v, s)

\* canAccess trusts the descriptor's flag, and finds the free stage itself.
FreeForPolicy(v, s, flag) == flag \/ (v = Here /\ (s \in release \/ s \in free))

Paid(v, s) == Pro \/ HasGrantFor(v, s)

Described(flag, locked) == [preview |-> flag, locked |-> locked]

\* canAccess, in the order of its returns: the first disjunct that applies.
CanAccess(who, v, s, stage, action) ==
    LET preview == FreeForPolicy(v, s, stage.preview)
    IN  IF who = "anonymous"
          THEN action = "view_stage" /\ stage.preview /\ ~stage.locked
        ELSE IF stage.locked /\ action # "view_stage" THEN FALSE
        ELSE IF preview /\ action \in {"view_stage", "submit_attempt"} THEN TRUE
        ELSE IF preview /\ action = "view_solution" THEN FALSE
        ELSE IF action \in {"request_mentor_hint", "request_mentor_feedback"}
          THEN Pro \/ HasMentorGrant
        ELSE Paid(v, s)

--------------------------------------------------------------------------
(* What the data layer says of a stage                                    *)

\* getPackageBySlug and getStageForEnrollment: free and part of the release.
IsFreePreview(s) == s \in free /\ s \in release

\* getStageForEnrollment: neither a preview, nor active, nor completed.
IsLocked(s) == ~IsFreePreview(s) /\ active # s /\ s \notin completed

StageOfEnrollment(s) == Described(IsFreePreview(s), IsLocked(s))

\* getEnrollmentState: the active stage, or the first one.
ActiveStageRef == IF active = None THEN First(Stage) ELSE active

\* Which stages a learner can reach, and the status of a decision node: done by
\* its stage or by a traversal of its own, current, or locked.
UnlockedStageRefs == completed \cup {ActiveStageRef}
NodeStatus(s, traversed) ==
    IF s \in completed \/ traversed THEN "completed"
    ELSE IF active = s THEN "current" ELSE "locked"

--------------------------------------------------------------------------
(* The routes: which version, descriptor and action each asks about       *)

\* Pages and routes that describe the stage by getStage.
FromEnrollment == {"stage_page", "stage_attempt", "node_traversal", "mentor_hint",
               "mentor_feedback"}
\* Routes that leave the stage's facts to the policy.
Undescribed == {"submission", "finalize", "run", "logs"}
Route == FromEnrollment \cup Undescribed

ActionOf(route) ==
    CASE route \in {"stage_page", "run", "logs"} -> "view_stage"
      [] route \in {"stage_attempt", "node_traversal", "submission", "finalize"} ->
           "submit_attempt"
      [] route = "mentor_hint" -> "request_mentor_hint"
      [] route = "mentor_feedback" -> "request_mentor_feedback"

DescriptorOf(route, s) ==
    IF route \in FromEnrollment THEN StageOfEnrollment(s) ELSE Described(FALSE, FALSE)

Allows(route, who, s) ==
    CanAccess(who, Here, s, DescriptorOf(route, s), ActionOf(route))

\* POST share-cards, on the active stage, never as a preview or locked.
AllowsShareCard(who) ==
    CanAccess(who, Here, ActiveStageRef, Described(FALSE, FALSE), "create_share_card")

\* POST enroll: the package's first stage, of a version no row has.
AllowsEnroll(who) ==
    CanAccess(who, Stub, First(Stage), Described(IsFreePreview(First(Stage)), FALSE),
              "view_stage")

--------------------------------------------------------------------------
(* What changes                                                           *)

Tick ==
    /\ clock < MaxClock /\ clock' = clock + 1
    /\ UNCHANGED <<billing, content, progress>>

\* External: the billing provider changes the membership.
Bill ==
    /\ member' \in Plan \cup {None}
    /\ UNCHANGED <<clock, grants, content, progress>>

\* External: a grant is added, or withdrawn.
Grant ==
    /\ Cardinality(grants) < MaxRows
    /\ \E g \in Grantable : grants' = grants \cup {g}
    /\ UNCHANGED <<clock, member, content, progress>>

Withdraw ==
    /\ \E g \in grants : grants' = grants \ {g}
    /\ UNCHANGED <<clock, member, content, progress>>

\* The seed publishes the package again: other stages are free.
Publish ==
    /\ free' \in SUBSET Stage /\ release' \in SUBSET Stage
    /\ UNCHANGED <<clock, billing, progress>>

Next == Tick \/ Bill \/ Grant \/ Withdraw \/ Publish

Spec == Init /\ [][Next]_vars

--------------------------------------------------------------------------
(* Properties                                                             *)

TypeOK ==
    /\ clock \in 0 .. MaxClock
    /\ member \in Plan \cup {None} /\ grants \subseteq Grantable
    /\ free \subseteq Stage /\ release \subseteq Stage
    /\ active \in Stage \cup {None} /\ completed \subseteq Stage

\* A stage the catalogue shows as a free preview can be loaded by anybody, and
\* worked on to the end by whoever signs in -- attempts, traversals, uploads,
\* runs and their logs -- whichever route asks and however it describes it.
PreviewsAreOpen == \A s \in Stage : IsFreePreview(s) =>
    /\ \A who \in Who : Allows("stage_page", who, s)
    /\ \A route \in {"stage_attempt", "node_traversal"} \cup Undescribed :
         Allows(route, "learner", s)

\* Without a paid membership and without a grant that is still live, a learner
\* gets at nothing but stages somebody marked free, never at the mentor or at a
\* share card, and into the package only by a first stage that is a preview.
NothingPaidIsFree ==
    (member \in {None, "free"} /\ \A g \in grants : g.expires <= clock) =>
        /\ \A s \in Stage, route \in Route :
             Allows(route, "learner", s) => s \in free \cup release
        /\ \A s \in Stage : ~Allows("mentor_hint", "learner", s)
                         /\ ~Allows("mentor_feedback", "learner", s)
        /\ ~AllowsShareCard("learner")
        /\ AllowsEnroll("learner") => IsFreePreview(First(Stage))

\* A stage that the learner has not reached is closed to attempts, traversals
\* and the mentor, whatever was paid; a decision node on it is done only by a
\* traversal of its own.
UnreachedIsViewOnly == \A s \in Stage :
    (s \notin UnlockedStageRefs /\ ~IsFreePreview(s)) =>
        /\ \A route \in FromEnrollment \ {"stage_page"} : ~Allows(route, "learner", s)
        /\ NodeStatus(s, FALSE) = "locked"

\* What a learner can do is earned: by paying, as long as what was bought is
\* live, and by having reached the stage.
AccessIsEarned == NothingPaidIsFree /\ UnreachedIsViewOnly

\* Whoever may get in does, and nobody else.
AccessIsRight == PreviewsAreOpen /\ AccessIsEarned

\* Paying only ever adds: a new grant takes no route, stage or share card away
\* that was open a moment before.
GrantsOnlyAdd == [][Grant =>
    /\ \A s \in Stage, route \in Route :
         Allows(route, "learner", s) => Allows(route, "learner", s)'
    /\ AllowsShareCard("learner") => AllowsShareCard("learner")']_vars
=============================================================================
