---------------------------- MODULE Readers_proofs ----------------------------
(***************************************************************************)
(* Proofs about the three parts of Readers, for any constants: StageAccess,*)
(* FieldEncryption (Column) and RunWatch (Watch).  A behaviour of the whole*)
(* is one of each part (PartsRun), so each is reasoned about alone.        *)
(***************************************************************************)
EXTENDS Readers, TLAPS

\* While one part moves the others stutter.
LEMMA PartsRun ==
    AllSpec => /\ Spec
               /\ Column!Spec
               /\ Watch!Init /\ [][Watch!Next]_(Watch!vars)
<1>1. AllInit => Init /\ Column!Init /\ Watch!Init
    BY DEF AllInit
<1>2. [AllNext]_<<part, policy, column, watched>>
        => /\ [Next]_vars /\ [Column!Next]_(Column!vars) /\ [Watch!Next]_(Watch!vars)
    BY DEF AllNext, policy, column, watched, vars, billing, content, progress,
           Column!vars, Watch!vars, Watch!row
<1> QED
    BY <1>1, <1>2, PTL DEF AllSpec, Spec, Column!Spec

----------------------------------------------------------------------------
(* StageAccess.  The properties speak of single states: they follow from   *)
(* the types and from what CanAccess grants and refuses, return by return. *)

LEMMA NextType ==
    ASSUME TypeOK, [Next]_vars
    PROVE  TypeOK'
<1> USE StageAssumption DEF TypeOK
<1>1. CASE Tick
    BY <1>1 DEF Tick, billing, content, progress
<1>2. CASE Bill
    BY <1>2 DEF Bill, content, progress
<1>3. CASE Grant
    BY <1>3 DEF Grant, content, progress
<1>4. CASE Withdraw
    BY <1>4 DEF Withdraw, content, progress
<1>5. CASE Publish
    BY <1>5 DEF Publish, billing, progress
<1>6. CASE UNCHANGED vars
    BY <1>6 DEF vars, billing, content, progress
<1> QED
    BY <1>1, <1>2, <1>3, <1>4, <1>5, <1>6 DEF Next

\* Memberships, grants, releases and the clock stay what they are taken to be.
THEOREM PolicyTypes == AllSpec => []TypeOK
<1>1. Init => TypeOK
    BY StageAssumption DEF Init, TypeOK
<1> QED
    BY <1>1, NextType, PartsRun, PTL DEF Spec

----------------------------------------------------------------------------
(* What the policy grants.                                                *)

\* The routes are two kinds, and each asks for one of four actions.
LEMMA Asked ==
    ASSUME NEW route \in Route
    PROVE  /\ route \in {"stage_page", "run", "logs"} => ActionOf(route) = "view_stage"
           /\ route \in {"stage_attempt", "node_traversal", "submission", "finalize"} =>
                ActionOf(route) = "submit_attempt"
           /\ route \in {"mentor_hint", "mentor_feedback"} =>
                ActionOf(route) \in {"request_mentor_hint", "request_mentor_feedback"}
BY DEF Route, FromEnrollment, Undescribed, ActionOf

LEMMA PreviewGranted ==
    ASSUME NEW v, NEW s, NEW stage, ~stage.locked,
           NEW action \in {"view_stage", "submit_attempt"}, FreeForPolicy(v, s, stage.preview)
    PROVE  CanAccess("learner", v, s, stage, action)
BY DEF CanAccess

LEMMA PreviewsOpen == PreviewsAreOpen
<1> SUFFICES ASSUME NEW s \in Stage, IsFreePreview(s)
             PROVE  /\ \A who \in Who : Allows("stage_page", who, s)
                    /\ \A route \in {"stage_attempt", "node_traversal"} \cup Undescribed :
                         Allows(route, "learner", s)
    BY DEF PreviewsAreOpen
<1>1. ~IsLocked(s)
    BY DEF IsLocked
<1>2. /\ ~StageOfEnrollment(s).locked /\ StageOfEnrollment(s).preview
      /\ ~Described(FALSE, FALSE).locked /\ ~Described(FALSE, FALSE).preview
    BY <1>1 DEF StageOfEnrollment, Described
<1>3. \A route \in Route : ~DescriptorOf(route, s).locked
                        /\ FreeForPolicy(Here, s, DescriptorOf(route, s).preview)
    <2>1. \A flag : FreeForPolicy(Here, s, flag)
        BY DEF IsFreePreview, FreeForPolicy
    <2> QED
        BY <1>2, <2>1 DEF DescriptorOf
<1>4. Allows("stage_page", "anonymous", s)
    BY <1>2, Asked DEF Allows, CanAccess, DescriptorOf, Route, FromEnrollment
<1>5. \A route \in Route : ActionOf(route) \in {"view_stage", "submit_attempt"} =>
                             Allows(route, "learner", s)
    BY <1>3, PreviewGranted DEF Allows
<1>6. Allows("stage_page", "learner", s)
    BY <1>5, Asked DEF Route, FromEnrollment
<1>7. ASSUME NEW route \in {"stage_attempt", "node_traversal"} \cup Undescribed
      PROVE  Allows(route, "learner", s)
    <2>1. route \in Route /\ ActionOf(route) \in {"view_stage", "submit_attempt"}
        BY Asked DEF Route, FromEnrollment, Undescribed
    <2> QED
        BY <1>5, <2>1
<1> QED
    BY <1>4, <1>6, <1>7 DEF Who

\* Who pays nothing is let in on a free stage only, and nowhere else.
LEMMA UnpaidGets ==
    ASSUME NEW v, NEW s, NEW stage, NEW action,
           ~Pro, ~HasMentorGrant, ~HasGrantFor(v, s),
           CanAccess("learner", v, s, stage, action)
    PROVE  /\ FreeForPolicy(v, s, stage.preview)
           /\ action \in {"view_stage", "submit_attempt"}
BY DEF CanAccess, Paid

LEMMA NothingIsFree == TypeOK => NothingPaidIsFree
<1> SUFFICES ASSUME TypeOK, member \in {None, "free"}, \A g \in grants : g.expires <= clock
             PROVE  /\ \A s \in Stage, route \in Route :
                         Allows(route, "learner", s) => s \in free \cup release
                    /\ \A s \in Stage : ~Allows("mentor_hint", "learner", s)
                                     /\ ~Allows("mentor_feedback", "learner", s)
                    /\ ~AllowsShareCard("learner")
                    /\ AllowsEnroll("learner") => IsFreePreview(First(Stage))
    BY DEF NothingPaidIsFree
<1>1. ~Pro
    BY DEF Pro
<1>2. \A g \in grants : ~Counts(g)
    <2>1. \A g \in grants : g.expires \in Nat /\ clock \in Nat
        BY StageAssumption DEF TypeOK, Entitlement
    <2> QED
        BY <2>1 DEF Counts, Live
<1>3. ~HasMentorGrant /\ \A v, s : ~HasGrantFor(v, s)
    BY <1>2 DEF HasMentorGrant, HasGrantFor
<1>4. ASSUME NEW s \in Stage, NEW route \in Route, Allows(route, "learner", s)
      PROVE  s \in free \cup release /\ ActionOf(route) \in {"view_stage", "submit_attempt"}
    <2>1. /\ FreeForPolicy(Here, s, DescriptorOf(route, s).preview)
          /\ ActionOf(route) \in {"view_stage", "submit_attempt"}
        BY <1>1, <1>3, <1>4, UnpaidGets DEF Allows
    <2>2. DescriptorOf(route, s).preview => s \in free
        BY DEF DescriptorOf, StageOfEnrollment, Described, IsFreePreview
    <2> QED
        BY <2>1, <2>2 DEF FreeForPolicy
<1>5. \A s \in Stage : ~Allows("mentor_hint", "learner", s)
                    /\ ~Allows("mentor_feedback", "learner", s)
    BY <1>4, Asked DEF Route, FromEnrollment
<1>6. ~AllowsShareCard("learner")
    BY <1>1, <1>3 DEF AllowsShareCard, CanAccess, Described, Paid
<1>7. AllowsEnroll("learner") => IsFreePreview(First(Stage))
    BY <1>1, <1>3, UnpaidGets, StageAssumption DEF AllowsEnroll, FreeForPolicy, Described
<1> QED
    BY <1>4, <1>5, <1>6, <1>7

LEMMA UnreachedIsClosed == UnreachedIsViewOnly
<1> SUFFICES ASSUME NEW s \in Stage, s \notin UnlockedStageRefs, ~IsFreePreview(s)
             PROVE  /\ \A route \in FromEnrollment \ {"stage_page"} :
                         ~Allows(route, "learner", s)
                    /\ NodeStatus(s, FALSE) = "locked"
    BY DEF UnreachedIsViewOnly
<1>1. s \notin completed /\ active # s
    BY StageAssumption DEF UnlockedStageRefs, ActiveStageRef
<1>2. \A route \in FromEnrollment : DescriptorOf(route, s).locked
    BY <1>1 DEF DescriptorOf, StageOfEnrollment, Described, IsLocked
<1>3. \A route \in FromEnrollment \ {"stage_page"} : ActionOf(route) # "view_stage"
    BY Asked DEF Route, FromEnrollment
<1>4. \A route \in FromEnrollment \ {"stage_page"} : ~Allows(route, "learner", s)
    BY <1>2, <1>3 DEF Allows, CanAccess
<1>5. NodeStatus(s, FALSE) = "locked"
    BY <1>1 DEF NodeStatus
<1> QED
    BY <1>4, <1>5

\* Whoever may get in does, and nobody else (permissions.ts canAccess and the
\* routes that ask it), for any stages, grants, releases and progress.
THEOREM AccessIsAlwaysRight == AllSpec => []AccessIsRight
<1>1. TypeOK => AccessIsRight
    BY PreviewsOpen, NothingIsFree, UnreachedIsClosed DEF AccessIsRight, AccessIsEarned
<1> QED
    BY <1>1, PolicyTypes, PTL

----------------------------------------------------------------------------
(* What a grant changes.                                                  *)

LEMMA GrantAdds ==
    ASSUME Grant
    PROVE  /\ UNCHANGED <<clock, member, free, release, active, completed>>
           /\ grants \subseteq grants'
BY DEF Grant, content, progress

LEMMA MoreGrantsMore ==
    ASSUME Grant, NEW v, NEW s, NEW stage, NEW action,
           CanAccess("learner", v, s, stage, action)
    PROVE  CanAccess("learner", v, s, stage, action)'
<1>1. Pro' = Pro
    BY GrantAdds DEF Pro
<1>2. HasMentorGrant => HasMentorGrant'
    BY GrantAdds DEF HasMentorGrant, Counts, Live
<1>3. HasGrantFor(v, s) => HasGrantFor(v, s)'
    BY GrantAdds DEF HasGrantFor, Counts, Live, Matches
<1>4. FreeForPolicy(v, s, stage.preview)' = FreeForPolicy(v, s, stage.preview)
    BY GrantAdds DEF FreeForPolicy
<1> QED
    BY <1>1, <1>2, <1>3, <1>4 DEF CanAccess, Paid

\* Paying only ever adds (permissions.ts canAccess reads every row that matches).
THEOREM GrantsNeverTakeAway == AllSpec => GrantsOnlyAdd
<1>1. ASSUME Grant
      PROVE  /\ \A s \in Stage, route \in Route :
                  Allows(route, "learner", s) => Allows(route, "learner", s)'
             /\ AllowsShareCard("learner") => AllowsShareCard("learner")'
    <2>1. \A s \in Stage, route \in Route : DescriptorOf(route, s)' = DescriptorOf(route, s)
        BY <1>1, GrantAdds
        DEF DescriptorOf, StageOfEnrollment, Described, IsFreePreview, IsLocked
    <2>2. ASSUME NEW s \in Stage, NEW route \in Route, Allows(route, "learner", s)
          PROVE  Allows(route, "learner", s)'
        <3>1. PICK stage : stage = DescriptorOf(route, s)
            OBVIOUS
        <3>2. CanAccess("learner", Here, s, stage, ActionOf(route))
            BY <2>2, <3>1 DEF Allows
        <3>3. CanAccess("learner", Here, s, stage, ActionOf(route))'
            BY <1>1, <3>2, MoreGrantsMore
        <3> QED
            BY <2>1, <3>1, <3>3 DEF Allows
    <2>3. ActiveStageRef' = ActiveStageRef
        BY <1>1, GrantAdds DEF ActiveStageRef
    <2>4. ASSUME AllowsShareCard("learner")
          PROVE  AllowsShareCard("learner")'
        <3>1. PICK s : s = ActiveStageRef
            OBVIOUS
        <3>2. CanAccess("learner", Here, s, Described(FALSE, FALSE), "create_share_card")
            BY <2>4, <3>1 DEF AllowsShareCard
        <3>3. CanAccess("learner", Here, s, Described(FALSE, FALSE), "create_share_card")'
            BY <1>1, <3>2, MoreGrantsMore
        <3> QED
            BY <2>3, <3>1, <3>3 DEF AllowsShareCard
    <2> QED
        BY <2>2, <2>4
<1> QED
    BY <1>1, PTL DEF GrantsOnlyAdd

----------------------------------------------------------------------------
(* FieldEncryption.  What readers get is not inductive alone: it needs to  *)
(* know that a value in the column or in a process's hands has at most one *)
(* layer (FieldType), and that a process with encryption on holds plain    *)
(* text only, so that what it writes back is sealed again (HeldIsOpen).    *)

Layers == {<<>>} \cup {<<k>> : k \in Seq(Int)}
Stored == [layers : Layers, text : Text]

FieldType ==
    /\ env \in [Process -> Setting]
    /\ cell \in Stored \cup {None}
    /\ held \in [Process -> Stored \cup {None}]
    /\ meant \in Text \cup {None}
    /\ by \in Column!Environment

HeldIsOpen == \A p \in Process : held[p] # None /\ env[p].on => held[p].layers = <<>>

CellIsMeant == /\ cell = None <=> meant = None
               /\ cell # None => cell.text = meant

FieldInv == FieldType /\ HeldIsOpen /\ CellIsMeant /\ Column!SealedAtRest

----------------------------------------------------------------------------
(* Values.                                                                *)

LEMMA KeyType ==
    ASSUME Column!FieldAssumption, NEW material \in Seq(Int)
    PROVE  Column!KeyOf(material) \in Seq(Int)
<1>1. CASE Len(material) >= KeyLen
    BY <1>1 DEF Column!KeyOf, Column!FieldAssumption
<1>2. CASE ~(Len(material) >= KeyLen)
    <2>1. <<-1>> \in Seq(Int)
        OBVIOUS
    <2> QED
        BY <1>2, <2>1 DEF Column!KeyOf
<1> QED
    BY <1>1, <1>2

LEMMA StoredIsValue == ASSUME NEW c \in Stored PROVE c \in Column!Value
<1>1. ASSUME NEW k \in Seq(Int) PROVE <<k>> \in Seq(Seq(Int))
    OBVIOUS
<1>2. <<>> \in Seq(Seq(Int))
    OBVIOUS
<1> QED
    BY <1>1, <1>2 DEF Stored, Layers, Column!Value

LEMMA NotNone == ASSUME Column!FieldAssumption, NEW c \in Stored PROVE c # None
BY StoredIsValue DEF Column!FieldAssumption

LEMMA PlainType ==
    ASSUME NEW t \in Text
    PROVE  Column!Plain(t) \in Stored /\ Column!Plain(t).layers = <<>> /\ Column!Plain(t).text = t
BY DEF Column!Plain, Stored, Layers

\* What encrypt makes of a value without layers.
LEMMA SealingIs ==
    ASSUME Column!FieldAssumption, FieldType, NEW p \in Process, NEW c \in Stored, c.layers = <<>>
    PROVE  /\ Column!Sealing(p, c) \in Stored
           /\ Column!Sealing(p, c).text = c.text
           /\ Column!Sealing(p, c).layers = <<Column!KeyOf(env[p].material)>>
<1> DEFINE key == Column!KeyOf(env[p].material)
<1>1. key \in Seq(Int)
    BY KeyType DEF Column!FieldAssumption, FieldType, Column!Environment
<1>2. <<key>> \o c.layers = <<key>>
    <2> HIDE DEF key
    <2>1. <<key>> \o <<>> = <<key>>
        BY <1>1
    <2> QED
        BY <2>1
<1>3. Column!Sealing(p, c) = [layers |-> <<key>>, text |-> c.text]
    BY <1>2 DEF Column!Sealing, Stored
<1> QED
    BY <1>1, <1>3 DEF Stored, Layers

\* What the write transform makes of a value a process may hold.
LEMMA SealedIs ==
    ASSUME Column!FieldAssumption, FieldType, NEW p \in Process, NEW c \in Stored,
           env[p].on => c.layers = <<>>
    PROVE  /\ Column!Sealed(p, c) \in Stored
           /\ Column!Sealed(p, c).text = c.text
           /\ env[p].on /\ c.text \notin Lookalike
                => Column!Sealed(p, c).layers = <<Column!KeyOf(env[p].material)>>
           /\ Column!Sealed(p, Column!Sealed(p, c)) = Column!Sealed(p, c)
<1>1. CASE env[p].on /\ c.text \notin Lookalike
    <2>1. Column!Sealed(p, c) = Column!Sealing(p, c)
        BY <1>1 DEF Column!Sealed, Column!IsEncrypted
    <2>2. Column!Sealing(p, c).layers # <<>>
        BY <1>1, SealingIs
    <2> QED
        BY <1>1, <2>1, <2>2, SealingIs DEF Column!Sealed, Column!IsEncrypted
<1>2. CASE ~(env[p].on /\ c.text \notin Lookalike)
    BY <1>2 DEF Column!Sealed, Column!IsEncrypted
<1> QED
    BY <1>1, <1>2

\* What the read transform hands out.
LEMMA SeenIs ==
    ASSUME Column!FieldAssumption, FieldType, NEW p \in Process, Column!Seen(p) # None
    PROVE  /\ cell # None /\ Column!Seen(p) \in Stored /\ Column!Seen(p).text = cell.text
           /\ env[p].on => Column!Seen(p).layers = <<>>
<1>1. cell \in Stored
    BY DEF Column!Seen, FieldType
<1>2. CASE ~env[p].on
    BY <1>1, <1>2, NotNone DEF Column!Seen
<1>3. CASE env[p].on /\ ~Column!IsEncrypted(cell)
    BY <1>1, <1>3, NotNone DEF Column!Seen, Column!IsEncrypted
<1>4. CASE env[p].on /\ Column!IsEncrypted(cell)
    <2>1. Column!Opens(p, cell) /\ Column!Seen(p) = [cell EXCEPT !.layers = Tail(@)]
        BY <1>1, <1>4, NotNone DEF Column!Seen
    <2>2. PICK k \in Seq(Int) : cell.layers = <<k>>
        BY <1>1, <2>1 DEF Column!Opens, Stored, Layers
    <2>3. Tail(<<k>>) = <<>>
        OBVIOUS
    <2>4. Column!Seen(p) = [layers |-> <<>>, text |-> cell.text]
        BY <1>1, <2>1, <2>2, <2>3 DEF Stored
    <2> QED
        BY <1>1, <2>4, NotNone DEF Stored, Layers
<1> QED
    BY <1>2, <1>3, <1>4

----------------------------------------------------------------------------
(* The invariant.                                                         *)

LEMMA ColumnInit == ASSUME Column!FieldAssumption, Column!Init PROVE FieldInv
<1>1. PICK t \in Text : meant = t /\ cell = Column!Plain(t)
    BY DEF Column!Init
<1>2. by \in Column!Environment /\ ~by.on
    <2>1. <<>> \in Seq(Int)
        OBVIOUS
    <2> QED
        BY <2>1 DEF Column!Init, Column!Environment
<1>3. cell \in Stored /\ cell # None /\ cell.text = meant /\ meant # None
    BY <1>1, PlainType, NotNone DEF Column!FieldAssumption
<1> QED
    BY <1>1, <1>2, <1>3 DEF Column!Init, FieldInv, FieldType, HeldIsOpen, CellIsMeant, Column!SealedAtRest

\* Every write puts a sealed value in the column, or NULL.
LEMMA PutKeeps ==
    ASSUME Column!FieldAssumption, FieldInv, NEW p \in Process, NEW c, NEW meaning, Column!Put(p, c, meaning),
           \/ c = None /\ meaning = None
           \/ /\ c \in Stored /\ c.text = meaning /\ meaning \in Text
              /\ env[p].on /\ meaning \notin Lookalike
                   => c.layers = <<Column!KeyOf(env[p].material)>>
    PROVE  FieldInv'
<1>1. cell' = c /\ meant' = meaning /\ by' = env[p] /\ env' = env /\ held' = held
    BY DEF Column!Put
<1>2. by' \in Column!Environment
    BY <1>1 DEF FieldInv, FieldType, Column!FieldAssumption
<1>3. FieldType'
    BY <1>1, <1>2 DEF FieldInv, FieldType
<1>4. HeldIsOpen'
    BY <1>1 DEF FieldInv, HeldIsOpen
<1>5. CellIsMeant'
    BY <1>1, NotNone DEF CellIsMeant, Column!FieldAssumption
<1>6. Column!SealedAtRest'
    BY <1>1 DEF Column!SealedAtRest
<1> QED
    BY <1>3, <1>4, <1>5, <1>6 DEF FieldInv

LEMMA ColumnNext == ASSUME Column!FieldAssumption, FieldInv, [Column!Next]_(Column!vars) PROVE FieldInv'
<1> USE DEF FieldInv
<1>1. ASSUME NEW p \in Process, Column!Write(p) \/ Column!Upsert(p)
      PROVE  FieldInv'
    <2>1. PICK t \in Text : Column!Put(p, Column!Sealed(p, Column!Plain(t)), t)
        <3>1. \A t \in Text : Column!Sealed(p, Column!Sealed(p, Column!Plain(t))) = Column!Sealed(p, Column!Plain(t))
            BY SealedIs, PlainType
        <3> QED
            BY <1>1, <3>1 DEF Column!Write, Column!Upsert
    <2> HIDE DEF FieldInv
    <2>2. FieldType
        BY DEF FieldInv
    <2>3. /\ Column!Sealed(p, Column!Plain(t)) \in Stored /\ Column!Sealed(p, Column!Plain(t)).text = t
          /\ env[p].on /\ t \notin Lookalike
               => Column!Sealed(p, Column!Plain(t)).layers = <<Column!KeyOf(env[p].material)>>
        BY <2>2, SealedIs, PlainType
    <2>4. PICK c : c = Column!Sealed(p, Column!Plain(t))
        OBVIOUS
    <2>5. PICK key : key = Column!KeyOf(env[p].material)
        OBVIOUS
    <2> QED
        BY <2>1, <2>3, <2>4, PutKeeps
<1>2. ASSUME NEW p \in Process, Column!Clear(p)
      PROVE  FieldInv'
    BY <1>2, PutKeeps DEF Column!Clear
<1>3. ASSUME NEW p \in Process, Column!Fetch(p)
      PROVE  FieldInv'
    <2>1. /\ held' = [held EXCEPT ![p] = Column!Seen(p)]
          /\ UNCHANGED <<env, cell, meant, by>>
        BY <1>3 DEF Column!Fetch
    <2>2. Column!Seen(p) # None => Column!Seen(p) \in Stored /\ (env[p].on => Column!Seen(p).layers = <<>>)
        BY SeenIs
    <2>3. FieldType'
        BY <2>1, <2>2 DEF FieldType
    <2>4. HeldIsOpen'
        BY <2>1, <2>2 DEF HeldIsOpen, FieldType
    <2> QED
        BY <2>1, <2>3, <2>4 DEF CellIsMeant, Column!SealedAtRest
<1>4. ASSUME NEW p \in Process, Column!WriteBack(p)
      PROVE  FieldInv'
    <2>1. held[p] \in Stored /\ (env[p].on => held[p].layers = <<>>)
        BY <1>4 DEF Column!WriteBack, FieldType, HeldIsOpen
    <2>2. Column!Put(p, Column!Sealed(p, held[p]), held[p].text)
        BY <1>4 DEF Column!WriteBack
    <2>3. PICK c, t : c = Column!Sealed(p, held[p]) /\ t = held[p].text
        OBVIOUS
    <2>4. /\ c \in Stored /\ c.text = t /\ t \in Text
          /\ env[p].on /\ t \notin Lookalike => c.layers = <<Column!KeyOf(env[p].material)>>
        BY <2>1, <2>3, SealedIs DEF Stored
    <2> HIDE DEF FieldInv
    <2> QED
        BY <2>2, <2>3, <2>4, PutKeeps
<1>5. ASSUME NEW p \in Process, Column!Restart(p)
      PROVE  FieldInv'
    <2>1. PICK s \in Setting : env' = [env EXCEPT ![p] = s]
        BY <1>5 DEF Column!Restart
    <2>2. held' = [held EXCEPT ![p] = None] /\ UNCHANGED <<cell, meant, by>>
        BY <1>5 DEF Column!Restart
    <2>3. FieldType'
        BY <2>1, <2>2 DEF FieldType
    <2>4. HeldIsOpen'
        BY <2>1, <2>2 DEF HeldIsOpen, FieldType
    <2> QED
        BY <2>2, <2>3, <2>4 DEF CellIsMeant, Column!SealedAtRest
<1>6. CASE UNCHANGED Column!vars
    BY <1>6 DEF Column!vars, FieldType, HeldIsOpen, CellIsMeant, Column!SealedAtRest
<1> HIDE DEF FieldInv
<1> QED
    BY <1>1, <1>2, <1>3, <1>4, <1>5, <1>6 DEF Column!Next

\* Values keep at most one layer, a process with encryption on never holds an
\* envelope, and what was sealed stays sealed (encrypted-fields.ts).
THEOREM FieldInvariance == AllSpec => []FieldInv
<1>1. Column!Init => FieldInv
    BY ColumnInit, ReadersAssumption
<1>2. FieldInv /\ [Column!Next]_(Column!vars) => FieldInv'
    BY ColumnNext, ReadersAssumption
<1> QED
    BY <1>1, <1>2, PartsRun, PTL DEF Column!Spec

----------------------------------------------------------------------------
(* What readers get.                                                      *)

LEMMA InvIsHonest == ASSUME Column!FieldAssumption, FieldInv PROVE Column!ReadsAreHonest
<1> USE DEF FieldInv
<1>1. Column!NothingIsGarbled
    BY SeenIs DEF Column!NothingIsGarbled, CellIsMeant
<1>2. Column!NothingIsLost
    <2> SUFFICES ASSUME NEW p \in Process, by.on, meant \notin Lookalike \cup {None},
                        env[p].on, Column!Keyed(p), Column!KeyOf(env[p].material) = Column!KeyOf(by.material)
                 PROVE  Column!Seen(p) # None
        BY DEF Column!NothingIsLost
    <2>1. cell \in Stored /\ cell.layers = <<Column!KeyOf(env[p].material)>>
        BY DEF FieldType, CellIsMeant, Column!SealedAtRest
    <2>2. Column!KeyOf(env[p].material) \in Seq(Int)
        BY KeyType DEF FieldType, Column!FieldAssumption, Column!Environment
    <2>3. PICK k \in Seq(Int) : k = Column!KeyOf(env[p].material)
        BY <2>2
    <2>4. <<k>> # <<>> /\ Head(<<k>>) = k /\ Tail(<<k>>) = <<>>
        OBVIOUS
    <2>5. Column!Opens(p, cell) /\ Column!IsEncrypted(cell)
        BY <2>1, <2>3, <2>4 DEF Column!Opens, Column!IsEncrypted
    <2>6. Column!Seen(p) = [cell EXCEPT !.layers = Tail(@)]
        BY <2>1, <2>5, NotNone DEF Column!Seen
    <2>7. [cell EXCEPT !.layers = Tail(@)] = [layers |-> <<>>, text |-> cell.text]
        BY <2>1, <2>3, <2>4 DEF Stored
    <2>8. [layers |-> <<>>, text |-> cell.text] \in Stored
        BY <2>1 DEF Stored, Layers
    <2> QED
        BY <2>6, <2>7, <2>8, NotNone
<1>3. ASSUME by.on, NEW t \in Text \ Lookalike
      PROVE  ~Column!Finds(t)
    <2> SUFFICES ASSUME cell = Column!Plain(t) PROVE FALSE
        BY DEF Column!Finds
    <2>1. cell # None /\ cell.text = t /\ cell.layers = <<>>
        BY PlainType, NotNone
    <2>2. cell.layers = <<Column!KeyOf(by.material)>>
        BY <1>3, <2>1 DEF CellIsMeant, Column!SealedAtRest
    <2> QED
        BY <2>1, <2>2
<1> QED
    BY <1>1, <1>2, <1>3 DEF Column!ReadsAreHonest

\* A reader gets what was written or nothing, for any mix of keys, restarts and
\* round trips (crypto.ts, encrypted-fields.ts).
THEOREM ReadersAreNeverFooled == AllSpec => []ReadsAreHonest
<1>1. FieldInv => ReadsAreHonest
    BY InvIsHonest, ReadersAssumption DEF ReadsAreHonest
<1> QED
    BY <1>1, FieldInvariance, PTL

----------------------------------------------------------------------------
(* RunWatch.  What a follower shows is whole because of what it holds      *)
(* between two answers: as long as nothing disturbed the poll, its parts   *)
(* are those of one state of the row (PanelInv, CliInv).                   *)

Answer == [kind : {"page", "refused", "lost"}, lines : SUBSET Nat, next : Nat \cup {None}]
Panel == [pc : {"ask", "wait", "stopped", "closed"},
          status : Watch!StatusAnswers \cup {None}, log : Answer \cup {None},
          calm : BOOLEAN, shown : Watch!StatusAnswers \cup {None}, text : SUBSET Nat]
Cli == [pc : {"log", "status", "pause", "done", "failed"}, cursor : Nat,
        printed : SUBSET Nat, calm : BOOLEAN]

WatchType ==
    /\ status \in Watch!RunStatus /\ inline \in Nat /\ object \in Nat \cup {None}
    /\ faults \in Nat /\ panel \in Panel /\ cli \in Cli

\* An undisturbed poll holds the row's status and its first page; one that
\* stopped shows an end.
PanelInv ==
    /\ panel.pc = "ask" /\ panel.calm =>
         /\ panel.status # None => panel.status = status
         /\ panel.log # None => panel.log = Watch!LogPage(0, Watch!Lines)
    /\ panel.pc = "stopped" =>
         /\ panel.shown \in Watch!Terminal
         /\ panel.calm => /\ panel.shown = status
                          /\ panel.text = 1 .. Watch!Least(Page, Watch!Lines)

\* What was printed is the beginning of the log up to the cursor at least; and
\* all of a log of one page, when the row stayed as it was.
CliInv ==
    /\ \E k \in Nat : cli.printed = 1 .. k /\ cli.cursor <= k
    /\ cli.pc \in {"status", "done"} /\ cli.calm =>
         (Watch!Lines <= Page => 1 .. Watch!Lines \subseteq cli.printed)
    /\ cli.pc = "done" /\ cli.calm => status \in Watch!Terminal

WatchInv == WatchType /\ PanelInv /\ CliInv

LEMMA LinesType == ASSUME WatchType PROVE Watch!Lines \in Nat
BY DEF WatchType, Watch!Lines

LEMMA LeastIs ==
    ASSUME NEW a \in Nat, NEW b \in Nat
    PROVE  /\ Watch!Least(a, b) \in Nat
           /\ Watch!Least(a, b) <= a /\ Watch!Least(a, b) <= b
           /\ Watch!Least(a, b) \in {a, b}
BY DEF Watch!Least

LEMMA PageType ==
    ASSUME NEW offset \in Nat, NEW total \in Nat
    PROVE  Watch!LogPage(offset, total) \in Answer
<1>1. PICK c \in Nat : c = Watch!Consumed(offset, total)
    BY LeastIs, ReadersAssumption DEF Watch!Consumed, Watch!WatchAssumption
<1>2. (offset + 1) .. c \in SUBSET Nat
    OBVIOUS
<1> QED
    BY <1>1, <1>2 DEF Watch!LogPage, Watch!NextCursor, Answer

LEMMA AnswerType ==
    ASSUME WatchType, NEW offset \in Nat, NEW a \in Watch!LogAnswers(offset)
    PROVE  a \in Answer
BY LinesType, PageType DEF Watch!LogAnswers, Watch!NoPage, Answer

\* The row changes: both followers know that they are disturbed.
LEMMA RowChanges ==
    ASSUME WatchInv, Watch!Start \/ Watch!Progress \/ Watch!Record
    PROVE  WatchInv'
<1> USE DEF WatchInv
<1>1. /\ panel' = [panel EXCEPT !.calm = FALSE] /\ cli' = [cli EXCEPT !.calm = FALSE]
      /\ faults' = faults
    BY DEF Watch!Start, Watch!Progress, Watch!Record, Watch!Write
<1>2. MaxLines \in Nat
    BY ReadersAssumption DEF Watch!WatchAssumption
<1>3. status' \in Watch!RunStatus /\ inline' \in Nat /\ object' \in Nat \cup {None}
    BY <1>2 DEF Watch!Start, Watch!Progress, Watch!Record, Watch!RunStatus, Watch!Terminal, WatchType
<1>4. panel' \in Panel /\ ~panel'.calm /\ panel'.pc = panel.pc /\ panel'.shown = panel.shown
    BY <1>1 DEF WatchType, Panel
<1>5. /\ cli' \in Cli /\ ~cli'.calm /\ cli'.pc = cli.pc
      /\ cli'.printed = cli.printed /\ cli'.cursor = cli.cursor
    BY <1>1 DEF WatchType, Cli
<1>6. WatchType'
    BY <1>1, <1>3, <1>4, <1>5 DEF WatchType
<1>7. PanelInv'
    BY <1>4 DEF PanelInv
<1>8. CliInv'
    BY <1>5 DEF CliInv
<1> QED
    BY <1>6, <1>7, <1>8

LEMMA PanelMoves ==
    ASSUME WatchInv, Watch!PanelStep \/ Watch!PanelClose
    PROVE  WatchInv'
<1> USE DEF WatchInv
<1>0. /\ UNCHANGED <<status, inline, object, cli>> /\ Watch!Lines' = Watch!Lines
      /\ CliInv'
    <2>1. UNCHANGED <<status, inline, object, cli>>
        BY DEF Watch!PanelStep, Watch!PanelStatus, Watch!PanelLog, Watch!PanelShow,
               Watch!PanelTick, Watch!PanelClose, Watch!row
    <2>2. Watch!Lines' = Watch!Lines
        BY <2>1 DEF Watch!Lines
    <2> QED
        BY <2>1, <2>2 DEF CliInv
<1>1. CASE Watch!PanelStatus
    <2>1. PICK a \in Watch!StatusAnswers :
            /\ Watch!StatusAnswer(a)
            /\ panel' = [panel EXCEPT !.status = a, !.calm = @ /\ faults' = faults]
        BY <1>1 DEF Watch!PanelStatus
    <2>2. faults' \in Nat /\ (faults' = faults => a = status)
        BY <2>1 DEF Watch!StatusAnswer, Watch!Fault, WatchType
    <2>3. panel.pc = "ask"
        BY <1>1 DEF Watch!PanelStatus
    <2>4. /\ panel' \in Panel /\ panel'.pc = "ask" /\ panel'.status = a /\ panel'.log = panel.log
          /\ panel'.calm => panel.calm /\ faults' = faults
        BY <2>1, <2>3 DEF WatchType, Panel
    <2>5. WatchType'
        BY <1>0, <2>2, <2>4 DEF WatchType
    <2>6. PanelInv'
        BY <1>0, <2>2, <2>3, <2>4 DEF PanelInv, Watch!LogPage, Watch!Consumed, Watch!NextCursor
    <2> QED
        BY <1>0, <2>5, <2>6
<1>2. CASE Watch!PanelLog
    <2>1. PICK a \in Watch!LogAnswers(0) :
            /\ Watch!LogAnswer(0, a)
            /\ panel' = [panel EXCEPT !.log = a, !.calm = @ /\ faults' = faults]
        BY <1>2 DEF Watch!PanelLog
    <2>2. faults' \in Nat /\ (faults' = faults => a = Watch!LogPage(0, Watch!Lines))
        BY <2>1 DEF Watch!LogAnswer, Watch!Fault, WatchType
    <2>3. panel.pc = "ask" /\ a \in Answer
        BY <1>2, AnswerType DEF Watch!PanelLog
    <2>4. /\ panel' \in Panel /\ panel'.pc = "ask" /\ panel'.status = panel.status /\ panel'.log = a
          /\ panel'.calm => panel.calm /\ faults' = faults
        BY <2>1, <2>3 DEF WatchType, Panel
    <2>5. WatchType'
        BY <1>0, <2>2, <2>4 DEF WatchType
    <2>6. PanelInv'
        BY <1>0, <2>2, <2>3, <2>4 DEF PanelInv, Watch!LogPage, Watch!Consumed, Watch!NextCursor
    <2> QED
        BY <1>0, <2>5, <2>6
<1>3. CASE Watch!PanelShow
    <2> DEFINE lost == "lost" \in {panel.status, panel.log.kind}
    <2>1. /\ panel.pc = "ask" /\ panel.status # None /\ panel.log # None /\ faults' = faults
          /\ panel' = [panel EXCEPT
                !.pc = IF ~lost /\ Watch!Ends(panel.status) THEN "stopped" ELSE "wait",
                !.shown = IF lost \/ panel.status = "refused" THEN @ ELSE panel.status,
                !.text = IF lost \/ panel.log.kind = "refused" THEN @ ELSE panel.log.lines]
        BY <1>3 DEF Watch!PanelShow
    <2>2. panel.status \in Watch!StatusAnswers /\ panel.log \in Answer
        BY <2>1 DEF WatchType, Panel
    <2>3. panel' \in Panel /\ panel'.calm = panel.calm /\ panel'.pc # "ask"
        BY <2>1, <2>2 DEF WatchType, Panel, Answer
    <2>4. WatchType'
        BY <1>0, <2>1, <2>3 DEF WatchType
    <2>5. ASSUME panel'.pc = "stopped"
          PROVE  /\ panel'.shown \in Watch!Terminal
                 /\ panel'.calm => /\ panel'.shown = status
                                   /\ panel'.text = 1 .. Watch!Least(Page, Watch!Lines)
        <3>1. ~lost /\ panel.status \in Watch!Terminal
            BY <2>1, <2>5 DEF WatchType, Panel, Watch!Ends
        <3>2. panel'.shown = panel.status
            BY <2>1, <3>1 DEF WatchType, Panel, Watch!Terminal
        <3>3. ASSUME panel.calm
              PROVE  panel'.text = 1 .. Watch!Least(Page, Watch!Lines)
            <4>1. panel.log = Watch!LogPage(0, Watch!Lines)
                BY <2>1, <3>3 DEF PanelInv
            <4>2. /\ panel.log.kind = "page"
                  /\ panel.log.lines = 1 .. Watch!Least(Page, Watch!Lines)
                <5>1. 0 + 1 = 1 /\ 0 + Page = Page
                    BY ReadersAssumption DEF Watch!WatchAssumption
                <5> QED
                    BY <4>1, <5>1 DEF Watch!LogPage, Watch!Consumed
            <4> QED
                BY <2>1, <3>1, <4>2 DEF WatchType, Panel
        <3> QED
            BY <2>1, <2>3, <3>1, <3>2, <3>3 DEF PanelInv
    <2>6. PanelInv'
        BY <1>0, <2>3, <2>5 DEF PanelInv, Watch!Least
    <2> QED
        BY <1>0, <2>4, <2>6
<1>4. CASE Watch!PanelTick
    <2>1. panel' = Watch!Asking(panel) /\ faults' = faults
        BY <1>4 DEF Watch!PanelTick
    <2>2. panel' \in Panel /\ panel'.pc = "ask" /\ panel'.status = None /\ panel'.log = None
        BY <2>1 DEF Watch!Asking, WatchType, Panel
    <2>3. WatchType'
        BY <1>0, <2>1, <2>2 DEF WatchType
    <2>4. PanelInv'
        BY <2>2 DEF PanelInv
    <2> QED
        BY <1>0, <2>3, <2>4
<1>5. CASE Watch!PanelClose
    <2>1. panel' = Watch!Closed /\ faults' = faults
        BY <1>5 DEF Watch!PanelClose
    <2>2. panel' \in Panel /\ panel'.pc = "closed"
        BY <2>1 DEF Watch!Closed, Watch!Mounted, Panel
    <2>3. WatchType'
        BY <1>0, <2>1, <2>2 DEF WatchType
    <2>4. PanelInv'
        BY <2>2 DEF PanelInv
    <2> QED
        BY <1>0, <2>3, <2>4
<1> QED
    BY <1>1, <1>2, <1>3, <1>4, <1>5 DEF Watch!PanelStep

\* A page read at the cursor leaves no gap.
LEMMA PagesJoin ==
    ASSUME NEW k \in Nat, NEW cursor \in Nat, cursor <= k, NEW total \in Nat,
           NEW a, a.lines = (cursor + 1) .. Watch!Consumed(cursor, total),
           a.next = Watch!NextCursor(cursor, total)
    PROVE  /\ \E m \in Nat : /\ (1 .. k) \cup a.lines = 1 .. m
                             /\ (IF a.next = None THEN cursor ELSE a.next) <= m
           /\ total <= Page => 1 .. total \subseteq (1 .. k) \cup a.lines
<1>1. PICK c \in Nat : c = Watch!Consumed(cursor, total)
    <2>1. cursor + Page \in Nat
        BY ReadersAssumption DEF Watch!WatchAssumption
    <2>2. Watch!Least(cursor + Page, total) \in Nat
        BY <2>1, LeastIs
    <2> QED
        BY <2>2 DEF Watch!Consumed
<1>2. a.lines = (cursor + 1) .. c /\ a.next \in {c, None}
    BY <1>1 DEF Watch!NextCursor
<1>3. PICK m \in Nat : (c <= k /\ m = k) \/ (c > k /\ m = c)
    OBVIOUS
<1>4. (1 .. k) \cup a.lines = 1 .. m
    <2>1. (1 .. k) \cup ((cursor + 1) .. c) = 1 .. m
        BY <1>3
    <2> QED
        BY <1>2, <2>1
<1>5. (IF a.next = None THEN cursor ELSE a.next) <= m
    BY <1>2, <1>3
<1>6. total <= Page => total <= m
    <2>1. Page \in Nat
        BY ReadersAssumption DEF Watch!WatchAssumption
    <2> QED
        BY <1>1, <1>3, <2>1 DEF Watch!Consumed, Watch!Least
<1> QED
    BY <1>4, <1>5, <1>6

LEMMA CliMoves ==
    ASSUME WatchInv, Watch!CliStep
    PROVE  WatchInv'
<1> USE DEF WatchInv
<1>0. UNCHANGED <<status, inline, object, panel>> /\ Watch!Lines' = Watch!Lines /\ PanelInv'
    <2>1. UNCHANGED <<status, inline, object, panel>>
        BY DEF Watch!CliStep, Watch!CliLog, Watch!CliStatus, Watch!CliPause, Watch!row
    <2>2. Watch!Lines' = Watch!Lines
        BY <2>1 DEF Watch!Lines
    <2> QED
        BY <2>1, <2>2 DEF PanelInv, Watch!LogPage, Watch!Consumed, Watch!NextCursor, Watch!Least
<1>1. CASE Watch!CliLog
    <2>1. PICK a \in Watch!LogAnswers(cli.cursor) :
            /\ Watch!LogAnswer(cli.cursor, a)
            /\ cli' = IF a.kind # "page" THEN [cli EXCEPT !.pc = "failed"]
                      ELSE [cli EXCEPT !.pc = "status", !.printed = @ \cup a.lines,
                                       !.cursor = IF a.next = None THEN @ ELSE a.next,
                                       !.calm = @ /\ faults' = faults]
        BY <1>1 DEF Watch!CliLog
    <2>2. faults' \in Nat /\ (faults' = faults => a = Watch!LogPage(cli.cursor, Watch!Lines))
        BY <2>1 DEF Watch!LogAnswer, Watch!Fault, WatchType
    <2>3. cli.cursor \in Nat /\ a \in Answer
        BY AnswerType DEF WatchType, Cli
    <2>4. CASE a.kind # "page"
        <3>1. /\ cli' \in Cli /\ cli'.pc = "failed"
              /\ cli'.printed = cli.printed /\ cli'.cursor = cli.cursor
            BY <2>1, <2>4 DEF WatchType, Cli
        <3>2. WatchType'
            BY <1>0, <2>2, <3>1 DEF WatchType
        <3>3. CliInv'
            BY <3>1 DEF CliInv
        <3> QED
            BY <1>0, <3>2, <3>3
    <2>5. CASE a.kind = "page"
        <3>1. PICK total \in Nat : /\ a = Watch!LogPage(cli.cursor, total)
                                   /\ faults' = faults => total = Watch!Lines
            BY <2>1, <2>2, <2>5, LinesType DEF Watch!LogAnswers, Watch!NoPage
        <3>2. PICK k \in Nat : cli.printed = 1 .. k /\ cli.cursor <= k
            BY DEF CliInv
        <3>3. /\ cli' \in Cli /\ cli'.pc = "status" /\ cli'.printed = cli.printed \cup a.lines
              /\ cli'.cursor = IF a.next = None THEN cli.cursor ELSE a.next
              /\ cli'.calm => faults' = faults
            BY <2>1, <2>3, <2>5 DEF WatchType, Cli, Answer
        <3>4. WatchType'
            BY <1>0, <2>2, <3>3 DEF WatchType
        <3>5. CliInv'
            <4>1. PICK cursor \in Nat : cursor = cli.cursor
                BY <2>3
            <4>2. /\ \E m \in Nat : /\ (1 .. k) \cup a.lines = 1 .. m
                                    /\ (IF a.next = None THEN cursor ELSE a.next) <= m
                  /\ total <= Page => 1 .. total \subseteq (1 .. k) \cup a.lines
                <5>1. /\ cursor <= k /\ a.lines = (cursor + 1) .. Watch!Consumed(cursor, total)
                      /\ a.next = Watch!NextCursor(cursor, total)
                    BY <3>1, <3>2, <4>1 DEF Watch!LogPage
                <5> HIDE DEF WatchInv, WatchType, CliInv
                <5> QED
                    BY <5>1, PagesJoin
            <4> QED
                BY <1>0, <3>1, <3>2, <3>3, <4>1, <4>2 DEF CliInv
        <3> QED
            BY <1>0, <3>4, <3>5
    <2> QED
        BY <2>4, <2>5
<1>2. CASE Watch!CliStatus
    <2>1. PICK a \in Watch!StatusAnswers :
            /\ Watch!StatusAnswer(a)
            /\ cli' = [cli EXCEPT !.pc = IF a \in {"refused", "lost"} THEN "failed"
                                         ELSE IF a \in {"queued", "running"} THEN "pause"
                                         ELSE "done",
                                  !.calm = @ /\ faults' = faults]
        BY <1>2 DEF Watch!CliStatus
    <2>2. faults' \in Nat /\ (faults' = faults => a = status)
        BY <2>1 DEF Watch!StatusAnswer, Watch!Fault, WatchType
    <2>3. /\ cli' \in Cli /\ cli'.printed = cli.printed /\ cli'.cursor = cli.cursor
          /\ cli'.calm => cli.calm /\ faults' = faults
          /\ cli'.pc = "done" => a \in Watch!Terminal
          /\ cli'.pc \in {"failed", "pause", "done"}
        BY <2>1 DEF WatchType, Cli, Watch!StatusAnswers, Watch!RunStatus
    <2>4. cli.pc = "status"
        BY <1>2 DEF Watch!CliStatus
    <2>5. WatchType'
        BY <1>0, <2>2, <2>3 DEF WatchType
    <2>6. CliInv'
        BY <1>0, <2>2, <2>3, <2>4 DEF CliInv
    <2> QED
        BY <1>0, <2>5, <2>6
<1>3. CASE Watch!CliPause
    <2>1. cli' = [cli EXCEPT !.pc = "log", !.calm = TRUE] /\ faults' = faults
        BY <1>3 DEF Watch!CliPause
    <2>2. /\ cli' \in Cli /\ cli'.pc = "log"
          /\ cli'.printed = cli.printed /\ cli'.cursor = cli.cursor
        BY <2>1 DEF WatchType, Cli
    <2>3. WatchType'
        BY <1>0, <2>1, <2>2 DEF WatchType
    <2>4. CliInv'
        BY <2>2 DEF CliInv
    <2> QED
        BY <1>0, <2>3, <2>4
<1> QED
    BY <1>1, <1>2, <1>3 DEF Watch!CliStep

\* A follower that has begun has shown nothing yet.
LEMMA Beginnings ==
    /\ Watch!Mounted \in Panel /\ Watch!Mounted.pc = "ask"
    /\ Watch!Mounted.status = None /\ Watch!Mounted.log = None
    /\ Watch!Closed \in Panel /\ Watch!Closed.pc = "closed"
    /\ \A c \in {Watch!Follow, Watch!NotFollowing} :
         /\ c \in Cli /\ c.printed = 1 .. 0 /\ c.cursor = 0
         /\ c.pc = "log" \/ ~c.calm
<1>1. 1 .. 0 = {}
    OBVIOUS
<1>2. /\ Watch!Mounted \in Panel /\ Watch!Mounted.pc = "ask"
      /\ Watch!Mounted.status = None /\ Watch!Mounted.log = None
      /\ Watch!Closed \in Panel /\ Watch!Closed.pc = "closed"
    BY DEF Watch!Mounted, Watch!Closed, Panel
<1>3. /\ Watch!Follow \in Cli /\ Watch!Follow.printed = {} /\ Watch!Follow.cursor = 0
      /\ Watch!Follow.pc = "log"
    BY DEF Watch!Follow, Cli
<1>4. /\ Watch!NotFollowing \in Cli /\ Watch!NotFollowing.printed = {}
      /\ Watch!NotFollowing.cursor = 0 /\ ~Watch!NotFollowing.calm
    BY DEF Watch!NotFollowing, Watch!Follow, Cli
<1> QED
    BY <1>1, <1>2, <1>3, <1>4

\* A loop that has begun has printed the beginning of any log.
LEMMA CliBegins ==
    ASSUME cli \in {Watch!Follow, Watch!NotFollowing}
    PROVE  CliInv
<1>1. cli.printed = 1 .. 0 /\ cli.cursor <= 0 /\ (cli.pc = "log" \/ ~cli.calm)
    BY Beginnings
<1> QED
    BY <1>1 DEF CliInv

LEMMA WatchInit == Watch!Init => WatchInv
<1> SUFFICES ASSUME Watch!Init PROVE WatchInv
    OBVIOUS
<1>1. WatchType
    BY Beginnings DEF Watch!Init, WatchType, Watch!RunStatus
<1>2. PanelInv
    BY Beginnings DEF Watch!Init, PanelInv
<1>3. CliInv
    BY CliBegins DEF Watch!Init
<1> QED
    BY <1>1, <1>2, <1>3 DEF WatchInv

LEMMA WatchNext == WatchInv /\ [Watch!Next]_(Watch!vars) => WatchInv'
<1> SUFFICES ASSUME WatchInv, [Watch!Next]_(Watch!vars) PROVE WatchInv'
    OBVIOUS
<1>1. CASE Watch!Look
    <2>1. /\ UNCHANGED <<status, inline, object, faults>>
          /\ panel' = panel \/ panel' = Watch!Mounted
          /\ cli' \in {Watch!Follow, Watch!NotFollowing}
        BY <1>1 DEF Watch!Look, Watch!row
    <2>2. panel.pc = "closed"
        BY <1>1 DEF Watch!Look
    <2>3. WatchType'
        BY <2>1, Beginnings DEF WatchInv, WatchType
    <2>4. PanelInv'
        BY <2>1, <2>2, Beginnings DEF PanelInv
    <2>5. CliInv'
        <3>1. cli'.printed = 1 .. 0 /\ cli'.cursor <= 0 /\ (cli'.pc = "log" \/ ~cli'.calm)
            BY <2>1, Beginnings
        <3> QED
            BY <3>1 DEF CliInv
    <2> QED
        BY <2>3, <2>4, <2>5 DEF WatchInv
<1>2. CASE UNCHANGED Watch!vars
    <2>1. UNCHANGED <<status, inline, object, faults, panel, cli>>
        BY <1>2 DEF Watch!vars, Watch!row
    <2>2. Watch!Lines' = Watch!Lines
        BY <2>1 DEF Watch!Lines
    <2>3. WatchType'
        BY <2>1 DEF WatchInv, WatchType
    <2>4. PanelInv'
        BY <2>1, <2>2 DEF WatchInv, PanelInv, Watch!LogPage, Watch!Consumed, Watch!NextCursor,
                          Watch!Least
    <2>5. CliInv'
        BY <2>1, <2>2 DEF WatchInv, CliInv
    <2> QED
        BY <2>3, <2>4, <2>5 DEF WatchInv
<1> QED
    BY <1>1, <1>2, RowChanges, PanelMoves, CliMoves DEF Watch!Next

\* The followers and the run are what they are taken to be, and what a follower
\* holds between two answers is of one state of the row unless it knows better.
THEOREM WatchInvariance == AllSpec => []WatchInv
BY WatchInit, WatchNext, PartsRun, PTL

\* Nothing is left out in the middle of a log, and a follower that stopped after
\* a poll nothing disturbed shows the end of the run (RunStatusPanel.tsx,
\* logs.ts), for any log, page size and number of writes and faults.
THEOREM FollowersShowTheWhole == AllSpec => []WhatIsShownIsWhole
<1>1. ASSUME WatchInv PROVE Watch!WhatIsShownIsWhole
    <2>1. \A n \in cli.printed : 1 .. n \subseteq cli.printed
        BY <1>1 DEF WatchInv, CliInv
    <2> QED
        BY <1>1, <2>1 DEF WatchInv, PanelInv, CliInv, Watch!WhatIsShownIsWhole
<1> QED
    BY <1>1, WatchInvariance, PTL DEF WhatIsShownIsWhole
=============================================================================
