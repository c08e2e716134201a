-------------------------- MODULE Authoring_proofs --------------------------
(***************************************************************************)
(* Theorems about the seed script and the drafting agent, for any packages,*)
(* runs and bounds.  The two share no state, and a behaviour of Authoring  *)
(* is one of each part (PartsRun), so each is reasoned about alone.        *)
(***************************************************************************)
EXTENDS Authoring, WellFoundedInduction, FiniteSetTheorems, SequenceTheorems, TLAPS

\* While one part moves the other stutters.
LEMMA PartsRun == BothSpec => Spec /\ Draft!Spec
<1>1. BothInit => Init /\ Draft!Init
    BY DEF BothInit
<1>2. [BothNext]_<<part, seeding, drafting>> => [Next]_vars /\ [Draft!Next]_(Draft!vars)
    BY DEF BothNext, seeding, drafting, vars, Draft!vars
<1> QED
    BY <1>1, <1>2, PTL DEF BothSpec, Spec, Draft!Spec

----------------------------------------------------------------------------
(* ContentSeed.  The script goes through each table in the order of the    *)
(* files.  Whatever the rows were before, those of the files it has passed *)
(* are the package's: of two files with one key, the later one's.          *)

InOrder(all, left) == left \subseteq all /\ left # {} /\ \A f \in all \ left, g \in left : f < g

Stand(row, key, data, done) ==
    \A f \in done : /\ key[f] \in DOMAIN row
                    /\ (\A g \in done : key[g] = key[f] => g <= f) => row[key[f]] = data[f]

StageKey(p) == [f \in Stages(p) |-> p.stages[f].id]
StageRows(p) == [f \in Stages(p) |-> StageData(p, f)]
NodeKey(p) == [n \in Nodes(p) |-> n]
NodeRows(p) == [n \in Nodes(p) |-> BuiltStageOf(p, n)]
BranchKey(p) == [f \in Branches(p) |-> p.branches[f].id]
BranchRows(p) == [f \in Branches(p) |-> BranchData(p, f)]

AtWork == {"fixture", "version", "stages", "nodes", "branches", "enrol", "done"}

SeedType ==
    /\ seed \in [pc : AtWork \cup {"idle"}, loaded : DOMAIN Package \cup {None}, left : SUBSET Nat]
    /\ seed.pc \in AtWork => seed.loaded \in DOMAIN Package /\ Nodes(Loaded) # {}
    /\ files \in DOMAIN Package /\ fixture \subseteq FixtureRow

FixtureStands ==
    /\ seed.pc = "fixture" => /\ InOrder(FixtureRow, seed.left)
                              /\ FixtureRow \ seed.left \subseteq fixture
    /\ seed.pc \in AtWork \ {"fixture"} => fixture = FixtureRow
    /\ seed.pc \in AtWork \ {"fixture", "version"} => version = seed.loaded

StagesStand ==
    /\ seed.pc = "stages" =>
         /\ InOrder(Stages(Loaded), seed.left)
         /\ Stand(stageRow, StageKey(Loaded), StageRows(Loaded), Stages(Loaded) \ seed.left)
    /\ seed.pc \in {"nodes", "branches", "enrol", "done"} =>
         Stand(stageRow, StageKey(Loaded), StageRows(Loaded), Stages(Loaded))

NodesStand ==
    /\ seed.pc = "nodes" =>
         /\ InOrder(Nodes(Loaded), seed.left)
         /\ Stand(nodeRow, NodeKey(Loaded), NodeRows(Loaded), Nodes(Loaded) \ seed.left)
    /\ seed.pc \in {"branches", "enrol", "done"} =>
         Stand(nodeRow, NodeKey(Loaded), NodeRows(Loaded), Nodes(Loaded))

BranchesStand ==
    /\ seed.pc = "branches" =>
         /\ InOrder(Branches(Loaded), seed.left)
         /\ Stand(branchRow, BranchKey(Loaded), BranchRows(Loaded), Branches(Loaded) \ seed.left)
    /\ seed.pc \in {"enrol", "done"} =>
         Stand(branchRow, BranchKey(Loaded), BranchRows(Loaded), Branches(Loaded))

EnrolmentStands ==
    /\ enrolled # None => enrolled \in DOMAIN stageRow
    /\ seed.pc = "done" => enrolled # None

SeedInv == /\ SeedType /\ FixtureStands /\ StagesStand /\ NodesStand /\ BranchesStand
           /\ EnrolmentStands

\* The first of what is left.
LEMMA MinIs ==
    ASSUME NEW S \in SUBSET Nat, S # {}
    PROVE  Min(S) \in S /\ \A y \in S : Min(S) <= y
<1> DEFINE Less == OpToRel(<, Nat)
<1>1. PICK x \in S : \A y \in S : ~ (<<y, x>> \in Less)
    <2>1. IsWellFoundedOn(Less, Nat)
        BY NatLessThanWellFounded
    <2> HIDE DEF Less
    <2> QED
        BY <2>1, WFMin
<1>2. ASSUME NEW y \in S PROVE x <= y
    <2>1. ~ (<<y, x>> \in Less)
        BY <1>1
    <2>2. ~ (y < x)
        BY <2>1 DEF OpToRel
    <2> QED
        BY <2>2
<1> QED
    BY <1>2 DEF Min

\* Begun in order, nothing has been passed.
LEMMA Begun ==
    ASSUME NEW all, all # {}, NEW row, NEW key, NEW data
    PROVE  InOrder(all, all) /\ Stand(row, key, data, all \ all)
BY DEF InOrder, Stand

\* What passing the first file left amounts to.
Moves(all, left, f) ==
    /\ f \in all /\ f \in left
    /\ left \ {f} # {} => InOrder(all, left \ {f})
    /\ left \ {f} = {} => all \ (left \ {f}) = all
    /\ \A g \in all \ left : g < f
    /\ all \ (left \ {f}) = (all \ left) \cup {f}

\* The first file left is written, and the order goes on.
LEMMA Passed ==
    ASSUME NEW all \in SUBSET Nat, NEW left, InOrder(all, left), NEW f, f = Min(left)
    PROVE  Moves(all, left, f)
<1>1. left \in SUBSET Nat /\ left # {}
    BY DEF InOrder
<1>2. f \in left /\ \A y \in left : f <= y
    BY <1>1, MinIs
<1>3. left \ {f} # {} => InOrder(all, left \ {f})
    <2> SUFFICES ASSUME NEW g \in all \ (left \ {f}), NEW h \in left \ {f} PROVE g < h
        BY <1>1 DEF InOrder
    <2>1. CASE g = f
        BY <1>1, <1>2, <2>1
    <2>2. CASE g # f
        BY <2>2 DEF InOrder
    <2> QED
        BY <2>1, <2>2
<1>4. /\ f \in all /\ \A g \in all \ left : g < f
      /\ left \ {f} = {} => all \ (left \ {f}) = all
      /\ all \ (left \ {f}) = (all \ left) \cup {f}
    BY <1>2 DEF InOrder
<1> QED
    BY <1>2, <1>3, <1>4 DEF Moves

\* An upsert keeps what was written before it, unless it is of the same key.
LEMMA UpsertStands ==
    ASSUME NEW done \in SUBSET Nat, NEW f \in Nat, \A g \in done : g < f,
           NEW row, NEW key, NEW data, Stand(row, key, data, done)
    PROVE  Stand(Upsert(row, key[f], data[f]), key, data, done \cup {f})
<1>1. PICK new : new = Upsert(row, key[f], data[f])
    OBVIOUS
<1>2. /\ DOMAIN new = DOMAIN row \cup {key[f]} /\ new[key[f]] = data[f]
      /\ \A k \in DOMAIN row : k # key[f] => new[k] = row[k]
    BY <1>1 DEF Upsert
<1>3. ASSUME NEW g \in done PROVE key[g] \in DOMAIN new
    BY <1>2 DEF Stand
<1>4. ASSUME NEW g \in done, \A h \in done \cup {f} : key[h] = key[g] => h <= g
      PROVE  new[key[g]] = data[g]
    <2>1. key[f] # key[g]
        BY <1>4
    <2>2. row[key[g]] = data[g] /\ key[g] \in DOMAIN row
        BY <1>4 DEF Stand
    <2> QED
        BY <1>2, <2>1, <2>2
<1>5. Stand(new, key, data, done \cup {f})
    BY <1>2, <1>3, <1>4 DEF Stand
<1> QED
    BY <1>1, <1>5

\* So a table in order goes on with the first file that is left.
LEMMA TableGoesOn ==
    ASSUME NEW all \in SUBSET Nat, NEW left, InOrder(all, left), NEW f, f = Min(left),
           NEW row, NEW key, NEW data, Stand(row, key, data, all \ left)
    PROVE  /\ f \in all /\ f \in left
           /\ left \ {f} # {} => InOrder(all, left \ {f})
           /\ Stand(Upsert(row, key[f], data[f]), key, data, all \ (left \ {f}))
           /\ left \ {f} = {} => Stand(Upsert(row, key[f], data[f]), key, data, all)
<1>1. Moves(all, left, f)
    BY Passed
<1>2. all \ left \in SUBSET Nat /\ f \in Nat /\ \A g \in all \ left : g < f
    BY <1>1 DEF Moves
<1>3. Stand(Upsert(row, key[f], data[f]), key, data, (all \ left) \cup {f})
    BY <1>2, UpsertStands
<1> QED
    BY <1>1, <1>3 DEF Moves

\* A package that loads has a node: a graph without one does not parse.
LEMMA LoadedHasNodes ==
    ASSUME NEW p, Loads(p)
    PROVE  Nodes(p) # {}
<1>1. Issues("schema.invalid", Broken(p)) = {}
    BY DEF Loads, StructuralErrors
<1>2. Broken(p) = {}
    <2>1. ASSUME NEW x \in Broken(p) PROVE FALSE
        <3>1. [code |-> "schema.invalid", at |-> x] \in Issues("schema.invalid", Broken(p))
            BY DEF Issues
        <3> QED
            BY <1>1, <3>1
    <2> QED
        BY <2>1
<1>3. GraphParses(p)
    BY <1>2 DEF Broken
<1> QED
    BY <1>3 DEF GraphParses

\* What a loaded package is known to be.
LEMMA LoadedIs ==
    ASSUME NEW r \in DOMAIN Package
    PROVE  /\ Stages(Package[r]) \in SUBSET Nat /\ Stages(Package[r]) # {}
           /\ Nodes(Package[r]) \in SUBSET Nat /\ Branches(Package[r]) \in SUBSET Nat
           /\ \A f \in Stages(Package[r]) : Package[r].stages[f].id # None
BY AuthoringAssumption DEF SeedAssumption, StageIds

LEMMA SeedStarts == Init => SeedInv
BY DEF Init, Idle, SeedInv, SeedType, AtWork, FixtureStands, StagesStand, NodesStand,
       BranchesStand, EnrolmentStands, FixtureRow

\* The steps of the script that write no row but the version.
LEMMA LoadKeeps == ASSUME SeedInv, Load PROVE SeedInv'
<1>1. UNCHANGED <<files, version, stageRow, nodeRow, branchRow, fixture, enrolled>>
    BY DEF Load, rows
<1>2. CASE seed' = Idle
    BY <1>1, <1>2 DEF Idle, SeedInv, SeedType, AtWork, FixtureStands, StagesStand, NodesStand,
                      BranchesStand, EnrolmentStands
<1>3. CASE /\ Loads(Package[files])
           /\ seed' = [pc |-> "fixture", loaded |-> files, left |-> FixtureRow]
    <2>1. Nodes(Package[files]) # {}
        BY <1>3, LoadedHasNodes
    <2>2. InOrder(FixtureRow, FixtureRow)
        BY DEF InOrder, FixtureRow
    <2>3. SeedType'
        BY <1>1, <1>3, <2>1 DEF SeedInv, SeedType, AtWork, Loaded, FixtureRow
    <2> QED
        BY <1>1, <1>3, <2>2, <2>3 DEF SeedInv, FixtureStands, StagesStand, NodesStand,
                                      BranchesStand, EnrolmentStands
<1> QED
    BY <1>2, <1>3 DEF Load

LEMMA FixtureKeeps == ASSUME SeedInv, WriteFixture PROVE SeedInv'
<1>1. /\ UNCHANGED <<files, version, stageRow, nodeRow, branchRow, enrolled>>
      /\ seed.pc = "fixture"
    BY DEF WriteFixture
<1>2. PICK f : f = Min(seed.left)
    OBVIOUS
<1>3. InOrder(FixtureRow, seed.left) /\ FixtureRow \in SUBSET Nat
    BY <1>1 DEF SeedInv, FixtureStands, FixtureRow
<1>4. /\ f \in FixtureRow /\ f \in seed.left
      /\ seed.left \ {f} # {} => InOrder(FixtureRow, seed.left \ {f})
      /\ seed.left \ {f} = {} => FixtureRow \ (seed.left \ {f}) = FixtureRow
      /\ FixtureRow \ (seed.left \ {f}) = (FixtureRow \ seed.left) \cup {f}
    <2>1. Moves(FixtureRow, seed.left, f)
        BY <1>2, <1>3, Passed
    <2> QED
        BY <2>1 DEF Moves
<1>5. fixture' = fixture \cup {f}
    BY <1>2 DEF WriteFixture
<1>6. /\ fixture' \subseteq FixtureRow
      /\ FixtureRow \ (seed.left \ {f}) \subseteq fixture'
    BY <1>1, <1>4, <1>5 DEF SeedInv, SeedType, FixtureStands
<1>7. /\ seed' \in [pc : AtWork, loaded : {seed.loaded}, left : {seed.left \ {f}}]
      /\ seed'.pc = IF seed.left \ {f} = {} THEN "version" ELSE "fixture"
    BY <1>1, <1>2 DEF WriteFixture, Proceed, SeedInv, SeedType, AtWork
<1>8. SeedType'
    BY <1>1, <1>6, <1>7 DEF SeedInv, SeedType, AtWork, Loaded
<1>9. FixtureStands'
    BY <1>1, <1>4, <1>6, <1>7 DEF FixtureStands
<1>10. EnrolmentStands'
    BY <1>1, <1>7 DEF SeedInv, EnrolmentStands
<1> QED
    BY <1>7, <1>8, <1>9, <1>10 DEF SeedInv, StagesStand, NodesStand, BranchesStand

LEMMA VersionKeeps == ASSUME SeedInv, WriteVersion PROVE SeedInv'
<1>1. /\ UNCHANGED <<files, stageRow, nodeRow, branchRow, fixture, enrolled>>
      /\ seed.pc = "version" /\ version' = seed.loaded
    BY DEF WriteVersion
<1>2. /\ seed' \in [pc : {"stages"}, loaded : {seed.loaded}, left : {Stages(Loaded)}]
      /\ seed'.pc = "stages" /\ seed'.loaded = seed.loaded /\ seed'.left = Stages(Loaded)
    BY DEF WriteVersion, SeedInv, SeedType, AtWork
<1>3. seed.loaded \in DOMAIN Package
    BY <1>1 DEF SeedInv, SeedType, AtWork
<1>4. Stages(Loaded) \in SUBSET Nat /\ Stages(Loaded) # {}
    BY <1>3, LoadedIs DEF Loaded
<1>5. /\ InOrder(Stages(Loaded), Stages(Loaded))
      /\ Stand(stageRow, StageKey(Loaded), StageRows(Loaded), Stages(Loaded) \ Stages(Loaded))
    BY <1>4, Begun
<1>6. Loaded' = Loaded
    BY <1>2 DEF Loaded
<1>7. SeedType'
    BY <1>1, <1>2, <1>4, <1>6 DEF SeedInv, SeedType, AtWork
<1>8. FixtureStands'
    BY <1>1, <1>2 DEF SeedInv, FixtureStands, AtWork
<1>9. StagesStand'
    BY <1>1, <1>2, <1>5, <1>6 DEF StagesStand
<1>10. EnrolmentStands'
    BY <1>1, <1>2 DEF SeedInv, EnrolmentStands
<1> QED
    BY <1>2, <1>7, <1>8, <1>9, <1>10 DEF SeedInv, NodesStand, BranchesStand

\* The three tables.  A row of the first file that is left is upserted.
LEMMA StageKeeps == ASSUME SeedInv, WriteStage PROVE SeedInv'
<1>1. /\ UNCHANGED <<files, version, nodeRow, branchRow, fixture, enrolled>>
      /\ seed.pc = "stages"
    BY DEF WriteStage
<1>2. PICK f : f = Min(seed.left)
    OBVIOUS
<1>3. /\ seed.loaded \in DOMAIN Package /\ Nodes(Loaded) # {}
      /\ InOrder(Stages(Loaded), seed.left)
      /\ Stand(stageRow, StageKey(Loaded), StageRows(Loaded), Stages(Loaded) \ seed.left)
    BY <1>1 DEF SeedInv, SeedType, AtWork, StagesStand
<1>4. Stages(Loaded) \in SUBSET Nat /\ Nodes(Loaded) \in SUBSET Nat /\ Branches(Loaded) \in SUBSET Nat
    BY <1>3, LoadedIs DEF Loaded
<1>5. PICK all \in SUBSET Nat, left \in SUBSET Nat :
        all = Stages(Loaded) /\ left = seed.left
    BY <1>3, <1>4 DEF InOrder
<1>6. PICK row, key, data :
        row = stageRow /\ key = StageKey(Loaded) /\ data = StageRows(Loaded)
    OBVIOUS
<1>7. InOrder(all, left) /\ f = Min(left) /\ Stand(row, key, data, all \ left)
    BY <1>2, <1>3, <1>5, <1>6
<1>8. /\ f \in all /\ f \in left
      /\ left \ {f} # {} => InOrder(all, left \ {f})
      /\ Stand(Upsert(row, key[f], data[f]), key, data, all \ (left \ {f}))
      /\ left \ {f} = {} => Stand(Upsert(row, key[f], data[f]), key, data, all)
    BY <1>7, TableGoesOn
<1>9. stageRow' = Upsert(row, key[f], data[f]) /\ DOMAIN stageRow \subseteq DOMAIN stageRow'
    BY <1>2, <1>5, <1>6, <1>8 DEF WriteStage, StageUpsert, StageKey, StageRows, Upsert
<1>10. /\ seed'.loaded = seed.loaded
       /\ seed' \in [pc : AtWork, loaded : {seed.loaded}, left : SUBSET Nat]
       /\ left \ {f} # {} => seed'.pc = "stages" /\ seed'.left = left \ {f}
       /\ left \ {f} = {} => seed'.pc = "nodes" /\ seed'.left = Nodes(Loaded)
    BY <1>1, <1>2, <1>4, <1>5 DEF WriteStage, Proceed, SeedInv, SeedType, AtWork
<1>11. Loaded' = Loaded
    BY <1>10 DEF Loaded
<1>12. SeedType'
    BY <1>1, <1>3, <1>10, <1>11 DEF SeedInv, SeedType
<1>13. FixtureStands'
    BY <1>1, <1>10 DEF SeedInv, FixtureStands, AtWork
<1>14. StagesStand'
    BY <1>5, <1>6, <1>8, <1>9, <1>10, <1>11 DEF StagesStand
<1>15. NodesStand'
    <2>1. /\ InOrder(Nodes(Loaded), Nodes(Loaded))
          /\ Stand(nodeRow, NodeKey(Loaded), NodeRows(Loaded), Nodes(Loaded) \ Nodes(Loaded))
        BY <1>3, Begun
    <2> QED
        BY <1>1, <1>10, <1>11, <2>1 DEF NodesStand
<1>16. BranchesStand' /\ EnrolmentStands'
    BY <1>1, <1>9, <1>10 DEF SeedInv, BranchesStand, EnrolmentStands
<1> QED
    BY <1>12, <1>13, <1>14, <1>15, <1>16 DEF SeedInv

LEMMA NodeKeeps == ASSUME SeedInv, WriteNode PROVE SeedInv'
<1>1. /\ UNCHANGED <<files, version, stageRow, branchRow, fixture, enrolled>>
      /\ seed.pc = "nodes"
    BY DEF WriteNode
<1>2. PICK f : f = Min(seed.left)
    OBVIOUS
<1>3. /\ seed.loaded \in DOMAIN Package /\ Nodes(Loaded) # {}
      /\ InOrder(Nodes(Loaded), seed.left)
      /\ Stand(nodeRow, NodeKey(Loaded), NodeRows(Loaded), Nodes(Loaded) \ seed.left)
    BY <1>1 DEF SeedInv, SeedType, AtWork, NodesStand
<1>4. Stages(Loaded) \in SUBSET Nat /\ Nodes(Loaded) \in SUBSET Nat /\ Branches(Loaded) \in SUBSET Nat
    BY <1>3, LoadedIs DEF Loaded
<1>5. PICK all \in SUBSET Nat, left \in SUBSET Nat :
        all = Nodes(Loaded) /\ left = seed.left
    BY <1>3, <1>4 DEF InOrder
<1>6. PICK row, key, data :
        row = nodeRow /\ key = NodeKey(Loaded) /\ data = NodeRows(Loaded)
    OBVIOUS
<1>7. InOrder(all, left) /\ f = Min(left) /\ Stand(row, key, data, all \ left)
    BY <1>2, <1>3, <1>5, <1>6
<1>8. /\ f \in all /\ f \in left
      /\ left \ {f} # {} => InOrder(all, left \ {f})
      /\ Stand(Upsert(row, key[f], data[f]), key, data, all \ (left \ {f}))
      /\ left \ {f} = {} => Stand(Upsert(row, key[f], data[f]), key, data, all)
    BY <1>7, TableGoesOn
<1>9. nodeRow' = Upsert(row, key[f], data[f]) /\ DOMAIN nodeRow \subseteq DOMAIN nodeRow'
    BY <1>2, <1>5, <1>6, <1>8 DEF WriteNode, StageUpsert, NodeKey, NodeRows, Upsert
<1>10. /\ seed'.loaded = seed.loaded
       /\ seed' \in [pc : AtWork, loaded : {seed.loaded}, left : SUBSET Nat]
       /\ left \ {f} # {} => seed'.pc = "nodes" /\ seed'.left = left \ {f}
       /\ left \ {f} = {} =>
            \/ seed'.pc = "branches" /\ seed'.left = Branches(Loaded) /\ Branches(Loaded) # {}
            \/ seed'.pc = "enrol" /\ Branches(Loaded) = {}
    BY <1>1, <1>2, <1>4, <1>5 DEF WriteNode, Proceed, SeedInv, SeedType, AtWork
<1>11. Loaded' = Loaded
    BY <1>10 DEF Loaded
<1>12. SeedType'
    BY <1>1, <1>3, <1>10, <1>11 DEF SeedInv, SeedType
<1>13. FixtureStands'
    BY <1>1, <1>10 DEF SeedInv, FixtureStands, AtWork
<1>14. NodesStand'
    BY <1>5, <1>6, <1>8, <1>9, <1>10, <1>11 DEF NodesStand
<1>15. StagesStand'
    BY <1>1, <1>10, <1>11 DEF SeedInv, StagesStand
<1>16. BranchesStand'
    <2>1. Branches(Loaded) # {} =>
            /\ InOrder(Branches(Loaded), Branches(Loaded))
            /\ Stand(branchRow, BranchKey(Loaded), BranchRows(Loaded), Branches(Loaded) \ Branches(Loaded))
        BY Begun
    <2>2. Branches(Loaded) = {} =>
            Stand(branchRow, BranchKey(Loaded), BranchRows(Loaded), Branches(Loaded))
        BY DEF Stand
    <2> QED
        BY <1>1, <1>10, <1>11, <2>1, <2>2 DEF BranchesStand
<1>17. EnrolmentStands'
    BY <1>1, <1>10 DEF SeedInv, EnrolmentStands
<1> QED
    BY <1>12, <1>13, <1>14, <1>15, <1>16, <1>17 DEF SeedInv

LEMMA BranchKeeps == ASSUME SeedInv, WriteBranch PROVE SeedInv'
<1>1. /\ UNCHANGED <<files, version, stageRow, nodeRow, fixture, enrolled>>
      /\ seed.pc = "branches"
    BY DEF WriteBranch
<1>2. PICK f : f = Min(seed.left)
    OBVIOUS
<1>3. /\ seed.loaded \in DOMAIN Package /\ Nodes(Loaded) # {}
      /\ InOrder(Branches(Loaded), seed.left)
      /\ Stand(branchRow, BranchKey(Loaded), BranchRows(Loaded), Branches(Loaded) \ seed.left)
    BY <1>1 DEF SeedInv, SeedType, AtWork, BranchesStand
<1>4. Stages(Loaded) \in SUBSET Nat /\ Nodes(Loaded) \in SUBSET Nat /\ Branches(Loaded) \in SUBSET Nat
    BY <1>3, LoadedIs DEF Loaded
<1>5. PICK all \in SUBSET Nat, left \in SUBSET Nat :
        all = Branches(Loaded) /\ left = seed.left
    BY <1>3, <1>4 DEF InOrder
<1>6. PICK row, key, data :
        row = branchRow /\ key = BranchKey(Loaded) /\ data = BranchRows(Loaded)
    OBVIOUS
<1>7. InOrder(all, left) /\ f = Min(left) /\ Stand(row, key, data, all \ left)
    BY <1>2, <1>3, <1>5, <1>6
<1>8. /\ f \in all /\ f \in left
      /\ left \ {f} # {} => InOrder(all, left \ {f})
      /\ Stand(Upsert(row, key[f], data[f]), key, data, all \ (left \ {f}))
      /\ left \ {f} = {} => Stand(Upsert(row, key[f], data[f]), key, data, all)
    BY <1>7, TableGoesOn
<1>9. branchRow' = Upsert(row, key[f], data[f]) /\ DOMAIN branchRow \subseteq DOMAIN branchRow'
    BY <1>2, <1>5, <1>6, <1>8 DEF WriteBranch, StageUpsert, BranchKey, BranchRows, Upsert
<1>10. /\ seed'.loaded = seed.loaded
       /\ seed' \in [pc : AtWork, loaded : {seed.loaded}, left : SUBSET Nat]
       /\ left \ {f} # {} => seed'.pc = "branches" /\ seed'.left = left \ {f}
       /\ left \ {f} = {} => seed'.pc = "enrol"
    BY <1>1, <1>2, <1>4, <1>5 DEF WriteBranch, Proceed, SeedInv, SeedType, AtWork
<1>11. Loaded' = Loaded
    BY <1>10 DEF Loaded
<1>12. SeedType'
    BY <1>1, <1>3, <1>10, <1>11 DEF SeedInv, SeedType
<1>13. FixtureStands'
    BY <1>1, <1>10 DEF SeedInv, FixtureStands, AtWork
<1>14. BranchesStand'
    BY <1>5, <1>6, <1>8, <1>9, <1>10, <1>11 DEF BranchesStand
<1>15. StagesStand' /\ NodesStand'
    BY <1>1, <1>10, <1>11 DEF SeedInv, StagesStand, NodesStand
<1>16. EnrolmentStands'
    BY <1>1, <1>10 DEF SeedInv, EnrolmentStands
<1> QED
    BY <1>12, <1>13, <1>14, <1>15, <1>16 DEF SeedInv

LEMMA EnrolmentKeeps == ASSUME SeedInv, WriteEnrolment PROVE SeedInv'
<1>1. /\ UNCHANGED <<files, version, stageRow, nodeRow, branchRow, fixture>>
      /\ seed.pc = "enrol" /\ enrolled' = IF enrolled = None THEN FirstStage(Loaded) ELSE enrolled
    BY DEF WriteEnrolment
<1>2. /\ seed' \in [pc : {"done"}, loaded : {seed.loaded}, left : SUBSET Nat]
      /\ seed'.pc = "done" /\ seed'.loaded = seed.loaded
    BY DEF WriteEnrolment, SeedInv, SeedType, AtWork
<1>3. Loaded' = Loaded
    BY <1>2 DEF Loaded
<1>4. seed.loaded \in DOMAIN Package
    BY <1>1 DEF SeedInv, SeedType, AtWork
<1>5. FirstStage(Loaded) # None /\ FirstStage(Loaded) \in DOMAIN stageRow
    <2>1. /\ Stages(Loaded) \in SUBSET Nat /\ Stages(Loaded) # {}
          /\ \A f \in Stages(Loaded) : Loaded.stages[f].id # None
        BY <1>4, LoadedIs DEF Loaded
    <2>2. PICK all \in SUBSET Nat : all = Stages(Loaded)
        BY <2>1
    <2>3. Min(Stages(Loaded)) \in Stages(Loaded)
        BY <2>1, <2>2, MinIs
    <2>4. Stand(stageRow, StageKey(Loaded), StageRows(Loaded), Stages(Loaded))
        BY <1>1 DEF SeedInv, StagesStand
    <2> QED
        BY <2>1, <2>3, <2>4 DEF Stand, StageKey, FirstStage
<1>6. SeedType'
    BY <1>1, <1>2, <1>3 DEF SeedInv, SeedType, AtWork
<1>7. FixtureStands'
    BY <1>1, <1>2 DEF SeedInv, FixtureStands, AtWork
<1>8. StagesStand' /\ NodesStand' /\ BranchesStand'
    BY <1>1, <1>2, <1>3 DEF SeedInv, StagesStand, NodesStand, BranchesStand
<1>9. EnrolmentStands'
    BY <1>1, <1>2, <1>5 DEF SeedInv, EnrolmentStands
<1> QED
    BY <1>6, <1>7, <1>8, <1>9 DEF SeedInv

LEMMA SeedNext == SeedInv /\ [Next]_vars => SeedInv'
<1> SUFFICES ASSUME SeedInv, [Next]_vars PROVE SeedInv'
    OBVIOUS
<1>1. CASE Edit
    BY <1>1 DEF Edit, rows, SeedInv, SeedType, AtWork, FixtureStands, StagesStand, NodesStand,
                BranchesStand, EnrolmentStands, Loaded
<1>2. CASE Finish \/ Crash
    BY <1>2 DEF Finish, Crash, rows, Idle, SeedInv, SeedType, AtWork, FixtureStands, StagesStand,
                NodesStand, BranchesStand, EnrolmentStands
<1>3. CASE UNCHANGED vars
    BY <1>3 DEF vars, SeedInv, SeedType, AtWork, FixtureStands, StagesStand, NodesStand,
                BranchesStand, EnrolmentStands, Loaded
<1> QED
    BY <1>1, <1>2, <1>3, LoadKeeps, FixtureKeeps, VersionKeeps, StageKeeps, NodeKeeps,
       BranchKeeps, EnrolmentKeeps DEF Next

\* However often the script dies and is run again over whatever was edited, in
\* every table it has gone through the rows of the loaded package stand as the
\* package has them (seed.ts).
THEOREM SeedInvariance == BothSpec => []SeedInv
BY SeedStarts, SeedNext, PartsRun, PTL DEF Spec

\* A run of the seed script that ends leaves the rows of its package, the fixture
\* and its enrolment, for any packages and any number of runs that died before
\* (seed.ts).
THEOREM SeedAlwaysConverges == BothSpec => []SeedConverges
<1>1. ASSUME SeedInv PROVE SeedConverges
    <2> SUFFICES ASSUME seed.pc = "done" PROVE SeedConverges
        BY DEF SeedConverges
    <2>1. /\ Stand(stageRow, StageKey(Loaded), StageRows(Loaded), Stages(Loaded))
          /\ Stand(nodeRow, NodeKey(Loaded), NodeRows(Loaded), Nodes(Loaded))
          /\ Stand(branchRow, BranchKey(Loaded), BranchRows(Loaded), Branches(Loaded))
        BY <1>1 DEF SeedInv, StagesStand, NodesStand, BranchesStand
    <2>2. \A f \in Stages(Loaded) :
            (\A g \in Stages(Loaded) : Loaded.stages[g].id = Loaded.stages[f].id => g <= f)
                => stageRow[Loaded.stages[f].id] = StageData(Loaded, f)
        BY <2>1 DEF Stand, StageKey, StageRows
    <2>3. \A n \in Nodes(Loaded) : nodeRow[n] = BuiltStageOf(Loaded, n)
        <3>1. Nodes(Loaded) \in SUBSET Nat
            BY <1>1, LoadedIs DEF SeedInv, SeedType, AtWork, Loaded
        <3> QED
            BY <2>1, <3>1 DEF Stand, NodeKey, NodeRows
    <2>4. \A f \in Branches(Loaded) :
            (\A g \in Branches(Loaded) : Loaded.branches[g].id = Loaded.branches[f].id => g <= f)
                => branchRow[Loaded.branches[f].id] = BranchData(Loaded, f)
        BY <2>1 DEF Stand, BranchKey, BranchRows
    <2>5. version = seed.loaded /\ fixture = FixtureRow /\ enrolled \in DOMAIN stageRow
        BY <1>1 DEF SeedInv, FixtureStands, EnrolmentStands, AtWork
    <2> QED
        BY <2>2, <2>3, <2>4, <2>5 DEF SeedConverges
<1> QED
    BY <1>1, SeedInvariance, PTL

----------------------------------------------------------------------------
(* What the validator asks for, of any package.                            *)

\* A finite set of numbers has a last one.
LEMMA MaxIs ==
    ASSUME NEW S \in SUBSET Nat, IsFiniteSet(S), S # {}
    PROVE  Max(S) \in S /\ \A y \in S : y <= Max(S)
<1>1. \E x \in S : \A y \in S : x >= y
    <2>1. PICK topless \in SUBSET SUBSET S :
            topless = {T \in SUBSET S : T # {} /\ ~ \E x \in T : \A y \in T : x >= y}
        OBVIOUS
    <2>2. ASSUME topless # {} PROVE FALSE
        <3>1. PICK less : less = StrictSubsetOrdering(S)
            OBVIOUS
        <3>2. IsWellFoundedOn(less, SUBSET S)
            BY <3>1, FS_StrictSubsetOrderingWellFounded, FS_FiniteSubsetsOfFinite
        <3>3. PICK T \in topless : \A U \in topless : ~ (<<U, T>> \in less)
            BY <2>2, <3>2, WFMin
        <3>4. T \in SUBSET S /\ T # {} /\ ~ \E x \in T : \A y \in T : x >= y
            BY <2>1
        <3>5. PICK x \in T : TRUE
            BY <3>4
        <3>6. T \ {x} # {}
            BY <3>4, <3>5
        <3>7. <<T \ {x}, T>> \in less
            BY <3>1, <3>4, <3>5 DEF StrictSubsetOrdering
        <3>8. PICK z \in T \ {x} : \A y \in T \ {x} : z >= y
            BY <2>1, <3>3, <3>4, <3>6, <3>7
        <3>9. x \in Nat /\ z \in Nat /\ T \subseteq Nat
            BY <3>4, <3>5
        <3>10. CASE z >= x
            BY <3>4, <3>8, <3>10
        <3>11. CASE ~ (z >= x)
            BY <3>4, <3>5, <3>8, <3>9, <3>11
        <3> QED
            BY <3>10, <3>11
    <2> QED
        BY <2>1, <2>2
<1>2. Max(S) \in S /\ \A y \in S : Max(S) >= y
    BY <1>1 DEF Max
<1> QED
    BY <1>2

LEMMA IssuesNone ==
    ASSUME NEW code, NEW where, Issues(code, where) = {}
    PROVE  where = {}
<1>1. ASSUME NEW x \in where PROVE FALSE
    <2>1. [code |-> code, at |-> x] \in Issues(code, where)
        BY DEF Issues
    <2> QED
        BY <2>1
<1> QED
    BY <1>1

\* What a package without errors is known to be.
LEMMA CleanIs ==
    ASSUME NEW p, Clean(p)
    PROVE  /\ StageLinkErrors(p) = {} /\ GraphLinkErrors(p) = {}
           /\ p.trace # NoRef => TraceNodeErrors(p) = {} /\ TraceMappingErrors(p) = {}
           /\ \E says \in Says : PedagogyErrors(p, says) = {}
<1>1. PICK says \in Says : Errors(p, says) = {}
    BY DEF Clean
<1>2. Loads(p)
    BY <1>1 DEF Errors, Loads
<1>3. CrossLinkErrors(p) = {} /\ PedagogyErrors(p, says) = {}
    BY <1>1, <1>2 DEF Errors
<1> QED
    BY <1>3 DEF CrossLinkErrors

\* A stage of mathematics or writing has what it is graded against.
LEMMA CleanGrading ==
    ASSUME NEW p, Clean(p), NEW f \in Stages(p), p.stages[f].type \in {"math", "writing"}
    PROVE  \/ p.stages[f].rubric \in Rubrics(p)
           \/ p.stages[f].type = "math" /\ HasContract(p.stages[f])
<1>1. PICK s : s = p.stages[f]
    OBVIOUS
<1>2. s.rubric \in Rubrics(p) \cup {NoRef}
    <2>1. Issues("stage.rubric.missing",
                 {g \in Stages(p) : p.stages[g].rubric \notin Rubrics(p) \cup {NoRef}}) = {}
        BY CleanIs DEF StageLinkErrors
    <2>2. {g \in Stages(p) : p.stages[g].rubric \notin Rubrics(p) \cup {NoRef}} = {}
        BY <2>1, IssuesNone
    <2> QED
        BY <1>1, <2>2
<1>3. MathErrors(s) \cup WritingErrors(p, s) = {}
    <2>1. PICK says \in Says : PedagogyErrors(p, says) = {}
        BY CleanIs
    <2>2. UNION {[code : MathErrors(p.stages[g]) \cup WritingErrors(p, p.stages[g]), at : {g}] :
                 g \in Stages(p)} = {}
        BY <2>1 DEF PedagogyErrors
    <2>3. ASSUME NEW code \in MathErrors(s) \cup WritingErrors(p, s) PROVE FALSE
        <3>1. [code |-> code, at |-> f]
                \in [code : MathErrors(p.stages[f]) \cup WritingErrors(p, p.stages[f]), at : {f}]
            BY <1>1, <2>3
        <3> QED
            BY <2>2, <3>1
    <2> QED
        BY <2>3
<1>4. CASE s.type = "math"
    <2>1. "math.grading_contract.missing" \notin MathErrors(s)
        BY <1>3
    <2>2. ~ (s.rubric = NoRef /\ ~HasContract(s))
        BY <1>4, <2>1 DEF MathErrors
    <2> QED
        BY <1>1, <1>2, <1>4, <2>2
<1>5. CASE s.type = "writing"
    <2>1. "writing.rubric.missing" \notin WritingErrors(p, s)
        BY <1>3
    <2>2. s.rubric # NoRef
        BY <1>5, <2>1 DEF WritingErrors
    <2> QED
        BY <1>1, <1>2, <2>2
<1> QED
    BY <1>1, <1>4, <1>5

\* Nothing of a failed branch is told on the way to the catalogue.
LEMMA FailedIsUntold ==
    ASSUME NEW p, NEW b \in ShownSample(StoredSample(p)), p.branches[b.branch].type = "failed"
    PROVE  b.told = {}
<1>1. PICK a \in StoredSample(p) : b = IF a.type = "failed" THEN [a EXCEPT !.told = {}] ELSE a
    BY DEF ShownSample
<1>2. PICK f \in Branches(p) : \E t, told :
        /\ a = [branch |-> f, type |-> t, told |-> told]
        /\ p.branches[f].type = "failed" => t = "failed"
    BY DEF StoredSample
<1> QED
    BY <1>1, <1>2

\* Without an error or a warning the branch nodes of the tree are the branches.
LEMMA CleanTree ==
    ASSUME NEW p, Clean(p), Warnings(p) = {}, p.trace # NoRef, IsFiniteSet(DOMAIN p.trace)
    PROVE  TreeHoldsBranches(p)
<1>1. PICK nodes : nodes = {i \in DOMAIN p.trace : p.trace[i].kind = "branch"}
    OBVIOUS
<1>2. Loads(p)
    BY DEF Clean, Errors, Loads
<1>3. TraceNodeErrors(p) = {} /\ TraceMappingErrors(p) = {} /\ TraceMappingWarnings(p) = {}
    BY <1>2, CleanIs DEF Warnings
<1>4. \A i \in nodes : p.trace[i].branch \in BranchIds(p)
    <2>1. PICK named : named = {i \in DOMAIN p.trace : p.trace[i].id # NoRef}
        OBVIOUS
    <2>2. Issues("trace.node.id_invalid", IF named = DOMAIN p.trace THEN {} ELSE {NoRef}) = {}
        BY <1>3, <2>1 DEF TraceNodeErrors
    <2>3. named = DOMAIN p.trace
        BY <2>2, IssuesNone
    <2>4. /\ Issues("trace.branch_id.missing",
                    {p.trace[i].id : i \in {i \in named :
                        p.trace[i].kind = "branch" /\ p.trace[i].branch = NoRef}}) = {}
          /\ Issues("trace.branch_id.unresolved",
                    {p.trace[i].id : i \in {i \in named :
                        /\ p.trace[i].kind = "branch"
                        /\ p.trace[i].branch \notin BranchIds(p) \cup {NoRef}}}) = {}
        BY <1>3, <2>1 DEF TraceNodeErrors
    <2>5. /\ {p.trace[i].id : i \in {i \in named :
                  p.trace[i].kind = "branch" /\ p.trace[i].branch = NoRef}} = {}
          /\ {p.trace[i].id : i \in {i \in named :
                  /\ p.trace[i].kind = "branch"
                  /\ p.trace[i].branch \notin BranchIds(p) \cup {NoRef}}} = {}
        BY <2>4, IssuesNone
    <2>6. ASSUME NEW i \in nodes PROVE p.trace[i].branch \in BranchIds(p)
        <3>1. i \in named /\ p.trace[i].kind = "branch"
            BY <1>1, <2>3
        <3>2. p.trace[i].branch # NoRef
            BY <2>5, <3>1
        <3>3. p.trace[i].branch \in BranchIds(p) \cup {NoRef}
            BY <2>5, <3>1
        <3> QED
            BY <3>2, <3>3
    <2> QED
        BY <2>6
<1>5. \A b \in BranchIds(p) : Claims(p, b) # {} /\ ~ (Cardinality(Claims(p, b)) > 1)
    <2>1. {b \in BranchIds(p) : Cardinality(Claims(p, b)) > 1} = {}
        BY <1>3, IssuesNone DEF TraceMappingErrors
    <2>2. {b \in BranchIds(p) : Claims(p, b) = {}} = {}
        BY <1>3, IssuesNone DEF TraceMappingWarnings
    <2> QED
        BY <2>1, <2>2
<1>6. \A i \in nodes : i \in Claims(p, p.trace[i].branch)
    <2>1. Issues("trace.node.id_invalid",
                 IF {i \in DOMAIN p.trace : p.trace[i].id # NoRef} = DOMAIN p.trace
                 THEN {} ELSE {NoRef}) = {}
        BY <1>3 DEF TraceNodeErrors
    <2>2. {i \in DOMAIN p.trace : p.trace[i].id # NoRef} = DOMAIN p.trace
        BY <2>1, IssuesNone
    <2> QED
        BY <1>1, <2>2 DEF Claims
<1>7. \A b \in BranchIds(p) : Claims(p, b) \subseteq {i \in nodes : p.trace[i].branch = b}
    BY <1>1 DEF Claims
<1>8. ASSUME NEW b \in BranchIds(p), NEW i \in Claims(p, b), NEW j \in Claims(p, b)
      PROVE  i = j
    <2>1. PICK claims : claims = Claims(p, b)
        OBVIOUS
    <2>2. IsFiniteSet(claims) /\ Cardinality(claims) \in Nat
        <3>1. claims \in SUBSET DOMAIN p.trace
            BY <2>1 DEF Claims
        <3> QED
            BY <3>1, FS_Subset, FS_CardinalityType
    <2>3. Cardinality(claims) = 1
        <3>1. Cardinality(claims) # 0
            BY <1>5, <2>1, <2>2, FS_EmptySet
        <3> QED
            BY <1>5, <2>1, <2>2, <3>1
    <2>4. \E x : claims = {x}
        BY <2>2, <2>3, FS_Singleton
    <2> QED
        BY <2>1, <2>4
<1>9. PICK told : told = [i \in nodes |-> p.trace[i].branch]
    OBVIOUS
<1>10. told \in Bijection(nodes, BranchIds(p))
    <2>1. told \in [nodes -> BranchIds(p)]
        BY <1>4, <1>9
    <2>2. \A b \in BranchIds(p) : \E i \in nodes : told[i] = b
        BY <1>5, <1>7, <1>9
    <2>3. \A i, j \in nodes : told[i] = told[j] => i = j
        <3> SUFFICES ASSUME NEW i \in nodes, NEW j \in nodes, told[i] = told[j]
                     PROVE  i = j
            OBVIOUS
        <3>1. i \in Claims(p, told[i]) /\ j \in Claims(p, told[i]) /\ told[i] \in BranchIds(p)
            BY <1>4, <1>6, <1>9
        <3> QED
            BY <1>8, <3>1
    <2> QED
        BY <2>1, <2>2, <2>3 DEF Bijection, Injection, Surjection, IsInjective
<1>11. Cardinality(nodes) = Cardinality(BranchIds(p))
    <2>1. nodes \in SUBSET DOMAIN p.trace
        BY <1>1
    <2>2. IsFiniteSet(nodes)
        BY <2>1, FS_Subset
    <2>3. ExistsBijection(nodes, BranchIds(p))
        BY <1>10 DEF ExistsBijection
    <2> QED
        BY <2>2, <2>3, FS_Bijection
<1>12. {p.trace[i].branch : i \in nodes} = BranchIds(p)
    BY <1>4, <1>5, <1>7
<1> QED
    BY <1>1, <1>11, <1>12 DEF TreeHoldsBranches

\* No two files have one id when there are as many ids as files.
LEMMA UniqueIds ==
    ASSUME NEW p, IsFiniteSet(Stages(p)), IdsAreUnique(p),
           NEW f \in Stages(p), NEW g \in Stages(p), p.stages[f].id = p.stages[g].id
    PROVE  f = g
<1>1. PICK key : key = [h \in Stages(p) |-> p.stages[h].id]
    OBVIOUS
<1>2. key \in Surjection(Stages(p), StageIds(p))
    BY <1>1 DEF Surjection, StageIds
<1>3. key \in Injection(Stages(p), StageIds(p))
    BY <1>2, FS_Surjection DEF IdsAreUnique
<1> QED
    BY <1>1, <1>3 DEF Injection, IsInjective

\* Every node names the file of a stage, by its path.
LEMMA CleanNodes ==
    ASSUME NEW p, Clean(p), NEW n \in Nodes(p),
           Stages(p) \in SUBSET Nat, IsFiniteSet(Stages(p)), IdsAreUnique(p)
    PROVE  /\ p.nodes[n].stage.file \in Stages(p)
           /\ BuiltStageOf(p, n) = p.stages[p.nodes[n].stage.file].id
<1>1. Issues("graph.stage.missing", {m \in Nodes(p) : ~Linked(p, p.nodes[m].stage)}) = {}
    BY CleanIs DEF GraphLinkErrors
<1>2. {m \in Nodes(p) : ~Linked(p, p.nodes[m].stage)} = {}
    BY <1>1, IssuesNone
<1>3. Linked(p, p.nodes[n].stage)
    BY <1>2
<1>4. p.nodes[n].stage.form # "id" /\ p.nodes[n].stage.file \in Stages(p)
    BY <1>3 DEF Linked
<1>5. p.nodes[n].stage.file \in Kept(p)
    BY <1>4, UniqueIds DEF Kept
<1> QED
    BY <1>4, <1>5 DEF BuiltStageOf

\* Then the policy kept under a stage's id is its own.
LEMMA OwnPolicy ==
    ASSUME NEW p, Stages(p) \in SUBSET Nat, IsFiniteSet(Stages(p)), IdsAreUnique(p),
           NEW f \in Stages(p)
    PROVE  PolicyOf(p, p.stages[f].id) = p.stages[f]
<1>1. {g \in Stages(p) : p.stages[g].id = p.stages[f].id} = {f}
    BY UniqueIds
<1>2. Max({f}) = f
    BY FS_Singleton, MaxIs
<1> QED
    BY <1>1, <1>2 DEF PolicyOf

----------------------------------------------------------------------------
(* The walk backwards through the graph (ancestors) finds what leads to a  *)
(* node, for no path need be longer than there are nodes.                  *)

\* A walk of k steps along the unlocks, and what leads to a node in so many.
Leads(p, a, b) == b \in p.nodes[a].unlocks \cup p.nodes[a].byChoice
Walk(p, path, k, m, n) ==
    /\ path \in [0 .. k -> Nodes(p)] /\ path[0] = m /\ path[k] = n
    /\ \A i \in 1 .. k : Leads(p, path[i - 1], path[i])
Within(p, k, n) == {m \in Nodes(p) : \E j \in 1 .. k : \E path : Walk(p, path, j, m, n)}

\* The walk backwards takes one step more.
LEMMA WithinOne ==
    ASSUME NEW p, NEW n \in Nodes(p)
    PROVE  Within(p, 1, n) = Parents(p, n)
<1>1. ASSUME NEW m \in Within(p, 1, n) PROVE m \in Parents(p, n)
    <2>1. PICK j \in 1 .. 1 : \E path : Walk(p, path, j, m, n)
        BY DEF Within
    <2>2. PICK path : Walk(p, path, 1, m, n)
        BY <2>1
    <2> QED
        BY <2>2 DEF Within, Walk, Leads, Parents
<1>2. ASSUME NEW m \in Parents(p, n) PROVE m \in Within(p, 1, n)
    <2>1. PICK path : path = [i \in 0 .. 1 |-> IF i = 0 THEN m ELSE n]
        OBVIOUS
    <2>2. m \in Nodes(p) /\ Leads(p, m, n)
        BY DEF Parents, Leads
    <2>3. Walk(p, path, 1, m, n)
        BY <2>1, <2>2 DEF Walk
    <2> QED
        BY <2>2, <2>3 DEF Within
<1> QED
    BY <1>1, <1>2

\* A walk is a step and a walk, or but a step.
LEMMA WithinMore ==
    ASSUME NEW p, NEW n \in Nodes(p), NEW k \in Nat, k # 0
    PROVE  Within(p, k + 1, n)
             = Within(p, k, n) \cup UNION {Parents(p, m) : m \in Within(p, k, n)}
<1>1. ASSUME NEW m \in Within(p, k + 1, n)
      PROVE  m \in Within(p, k, n) \/ \E q \in Within(p, k, n) : m \in Parents(p, q)
    <2>1. PICK j \in 1 .. k + 1 : \E path : Walk(p, path, j, m, n)
        BY DEF Within
    <2>2. PICK path : Walk(p, path, j, m, n)
        BY <2>1
    <2>3. m \in Nodes(p)
        BY DEF Within
    <2>4. CASE j = 1
        BY <2>2, <2>3, <2>4 DEF Within
    <2>5. CASE j # 1
        <3>1. PICK rest : rest = [i \in 0 .. j - 1 |-> path[i + 1]]
            OBVIOUS
        <3>2. path[1] \in Nodes(p) /\ Leads(p, m, path[1])
            BY <2>2 DEF Walk
        <3>3. Walk(p, rest, j - 1, path[1], n)
            <4>1. rest \in [0 .. j - 1 -> Nodes(p)] /\ rest[0] = path[1] /\ rest[j - 1] = n
                BY <2>2, <3>1 DEF Walk
            <4>2. ASSUME NEW i \in 1 .. j - 1 PROVE Leads(p, rest[i - 1], rest[i])
                <5>1. i + 1 \in 1 .. j /\ i - 1 \in 0 .. j - 1 /\ i \in 0 .. j - 1
                    OBVIOUS
                <5>2. Leads(p, path[(i + 1) - 1], path[i + 1])
                    BY <2>2, <5>1 DEF Walk
                <5>3. rest[i - 1] = path[(i + 1) - 1] /\ rest[i] = path[i + 1]
                    BY <3>1, <5>1
                <5> QED
                    BY <5>2, <5>3
            <4> QED
                BY <4>1, <4>2 DEF Walk
        <3>4. path[1] \in Within(p, k, n)
            <4>1. j - 1 \in 1 .. k
                BY <2>5
            <4> QED
                BY <3>2, <3>3, <4>1 DEF Within
        <3>5. m \in Parents(p, path[1])
            BY <2>3, <3>2 DEF Parents, Leads
        <3> QED
            BY <3>4, <3>5
    <2> QED
        BY <2>4, <2>5
<1>2. ASSUME NEW q \in Within(p, k, n), NEW m \in Parents(p, q)
      PROVE  m \in Within(p, k + 1, n)
    <2>1. PICK j \in 1 .. k : \E path : Walk(p, path, j, q, n)
        BY DEF Within
    <2>2. PICK path : Walk(p, path, j, q, n)
        BY <2>1
    <2>3. m \in Nodes(p) /\ Leads(p, m, q)
        BY DEF Parents, Leads
    <2>4. PICK more : more = [i \in 0 .. j + 1 |-> IF i = 0 THEN m ELSE path[i - 1]]
        OBVIOUS
    <2>5. Walk(p, more, j + 1, m, n)
        <3>1. more \in [0 .. j + 1 -> Nodes(p)] /\ more[0] = m /\ more[j + 1] = n
            BY <2>2, <2>3, <2>4 DEF Walk
        <3>2. ASSUME NEW i \in 1 .. j + 1 PROVE Leads(p, more[i - 1], more[i])
            <4>1. CASE i = 1
                BY <2>2, <2>3, <2>4, <4>1 DEF Walk
            <4>2. CASE i # 1
                <5>1. more[i - 1] = path[(i - 1) - 1] /\ more[i] = path[i - 1] /\ i - 1 \in 1 .. j
                    BY <2>4, <4>2
                <5> QED
                    BY <2>2, <5>1 DEF Walk
            <4> QED
                BY <4>1, <4>2
        <3> QED
            BY <3>1, <3>2 DEF Walk
    <2> QED
        BY <2>3, <2>5 DEF Within
<1>3. Within(p, k, n) \subseteq Within(p, k + 1, n)
    BY DEF Within
<1> QED
    BY <1>1, <1>2, <1>3

\* So it collects what leads to the node in at most as many steps, and one.
Collects(p, n, f) ==
    f = [k \in Nat |-> IF k = 0 THEN Parents(p, n)
                       ELSE f[k - 1] \cup UNION {Parents(p, m) : m \in f[k - 1]}]

LEMMA CollectsIs ==
    ASSUME NEW p, NEW n \in Nodes(p), NEW f, Collects(p, n, f), NEW k \in Nat
    PROVE  f[k] = Within(p, k + 1, n)
<1>1. PICK wrong \in SUBSET Nat : wrong = {j \in Nat : f[j] # Within(p, j + 1, n)}
    OBVIOUS
<1>2. ASSUME wrong # {} PROVE FALSE
    <2>1. PICK j \in Nat : j \in wrong /\ \A i \in wrong : j <= i
        BY <1>2, MinIs
    <2>2. f[j] = IF j = 0 THEN Parents(p, n)
                 ELSE f[j - 1] \cup UNION {Parents(p, m) : m \in f[j - 1]}
        BY DEF Collects
    <2>3. CASE j = 0
        BY <1>1, <2>1, <2>2, <2>3, WithinOne
    <2>4. CASE j # 0
        <3>1. PICK i \in Nat : i = j - 1 /\ i + 1 = j
            BY <2>4
        <3>2. f[i] = Within(p, i + 1, n)
            BY <1>1, <2>1, <3>1
        <3>3. f[j] = Within(p, j, n) \cup UNION {Parents(p, m) : m \in Within(p, j, n)}
            BY <2>2, <2>4, <3>1, <3>2
        <3>4. Within(p, j + 1, n)
                = Within(p, j, n) \cup UNION {Parents(p, m) : m \in Within(p, j, n)}
            BY <2>4, WithinMore
        <3> QED
            BY <1>1, <2>1, <3>3, <3>4
    <2> QED
        BY <2>3, <2>4
<1> QED
    BY <1>1, <1>2

LEMMA AncestorsAre ==
    ASSUME NEW p, NEW n \in Nodes(p), IsFiniteSet(Nodes(p))
    PROVE  Ancestors(p, n) = Within(p, Cardinality(Nodes(p)) + 1, n)
<1>1. PICK g : g = [k \in Nat |-> Within(p, k + 1, n)]
    OBVIOUS
<1>2. Collects(p, n, g)
    <2>1. ASSUME NEW k \in Nat
          PROVE  g[k] = IF k = 0 THEN Parents(p, n)
                        ELSE g[k - 1] \cup UNION {Parents(p, m) : m \in g[k - 1]}
        <3>1. CASE k = 0
            BY <1>1, <3>1, WithinOne
        <3>2. CASE k # 0
            <4>1. g[k] = Within(p, k + 1, n) /\ g[k - 1] = Within(p, k, n)
                BY <1>1, <3>2
            <4> QED
                BY <3>2, <4>1, WithinMore
        <3> QED
            BY <3>1, <3>2
    <2> QED
        BY <1>1, <2>1 DEF Collects
<1>3. Ancestors(p, n) = (CHOOSE f : Collects(p, n, f))[Cardinality(Nodes(p))]
    BY DEF Ancestors, Collects
<1>4. PICK f : f = (CHOOSE h : Collects(p, n, h)) /\ Collects(p, n, f)
    BY <1>2
<1>5. Cardinality(Nodes(p)) \in Nat
    BY FS_CardinalityType
<1> QED
    BY <1>3, <1>4, <1>5, CollectsIs

\* A walk that is longer than there are nodes comes by one twice, and what is
\* between may be left out.
LEMMA WalksAreShort ==
    ASSUME NEW p, NEW n \in Nodes(p), IsFiniteSet(Nodes(p))
    PROVE  Within(p, Cardinality(Nodes(p)) + 1, n) = Within(p, Cardinality(Nodes(p)), n)
<1>1. PICK c \in Nat : c = Cardinality(Nodes(p))
    BY FS_CardinalityType
<1>2. Within(p, c, n) \subseteq Within(p, c + 1, n)
    BY DEF Within
<1>3. ASSUME NEW m \in Within(p, c + 1, n) PROVE m \in Within(p, c, n)
    <2>1. PICK j \in 1 .. c + 1 : \E path : Walk(p, path, j, m, n)
        BY DEF Within
    <2>2. PICK path : Walk(p, path, j, m, n)
        BY <2>1
    <2>3. m \in Nodes(p)
        BY DEF Within
    <2>4. CASE j <= c
        BY <2>2, <2>3, <2>4 DEF Within
    <2>5. CASE j = c + 1
        <3>1. PICK a \in 1 .. j, b \in 1 .. j : a < b /\ path[a] = path[b]
            <4>1. PICK tail : tail = [i \in 1 .. j |-> path[i]]
                OBVIOUS
            <4>2. tail \in [1 .. j -> Nodes(p)]
                BY <2>2, <4>1 DEF Walk
            <4>3. IsFiniteSet(1 .. j) /\ Cardinality(1 .. j) = j
                <5>1. 1 \in Int /\ j \in Int /\ 1 <= j
                    OBVIOUS
                <5> QED
                    BY <5>1, FS_Interval
            <4>4. Cardinality(Nodes(p)) < Cardinality(1 .. j)
                BY <1>1, <2>5, <4>3
            <4>5. PICK a \in 1 .. j, b \in 1 .. j : a # b /\ tail[a] = tail[b]
                BY <4>2, <4>3, <4>4, FS_PigeonHole
            <4>6. a < b \/ b < a
                BY <4>5
            <4> QED
                BY <4>1, <4>5, <4>6
        <3>2. PICK gap \in 1 .. c : gap = b - a
            BY <2>5, <3>1
        <3>3. PICK cut : cut = [i \in 0 .. j - gap |-> IF i < a THEN path[i] ELSE path[i + gap]]
            OBVIOUS
        <3>4. /\ cut \in [0 .. j - gap -> Nodes(p)] /\ cut[0] = m /\ cut[j - gap] = n
              /\ j - gap \in 1 .. c
            <4>1. j - gap \in 1 .. c /\ a <= j - gap
                BY <2>5, <3>1, <3>2
            <4>2. \A i \in 0 .. j - gap : i \in 0 .. j /\ (~ (i < a) => i + gap \in 0 .. j)
                BY <3>1, <3>2
            <4>3. cut \in [0 .. j - gap -> Nodes(p)]
                BY <2>2, <3>3, <4>2 DEF Walk
            <4>4. cut[0] = m
                BY <2>2, <3>1, <3>3, <4>1 DEF Walk
            <4>5. cut[j - gap] = path[(j - gap) + gap]
                BY <3>3, <4>1
            <4> QED
                BY <2>2, <4>1, <4>3, <4>4, <4>5 DEF Walk
        <3>5. ASSUME NEW i \in 1 .. j - gap PROVE Leads(p, cut[i - 1], cut[i])
            <4>1. \A k \in 1 .. j : Leads(p, path[k - 1], path[k])
                BY <2>2 DEF Walk
            <4>2. CASE i < a
                <5>1. cut[i - 1] = path[i - 1] /\ cut[i] = path[i] /\ i \in 1 .. j
                    BY <3>2, <3>3, <4>2
                <5> QED
                    BY <4>1, <5>1
            <4>3. CASE i = a
                <5>1. cut[i - 1] = path[i - 1] /\ cut[i] = path[i + gap] /\ i + gap = b
                    BY <3>1, <3>2, <3>3, <4>3
                <5>2. cut[i] = path[i]
                    BY <3>1, <4>3, <5>1
                <5> QED
                    BY <4>1, <4>3, <5>1, <5>2
            <4>4. CASE i > a
                <5>1. /\ cut[i - 1] = path[(i + gap) - 1] /\ cut[i] = path[i + gap]
                      /\ i + gap \in 1 .. j
                    BY <3>1, <3>2, <3>3, <4>4
                <5> QED
                    BY <4>1, <5>1
            <4> QED
                BY <3>1, <4>2, <4>3, <4>4
        <3>6. Walk(p, cut, j - gap, m, n)
            BY <3>4, <3>5 DEF Walk
        <3> QED
            BY <2>3, <3>4, <3>6 DEF Within
    <2> QED
        BY <2>4, <2>5
<1> QED
    BY <1>1, <1>2, <1>3

LEMMA PlansAre ==
    ASSUME NEW p, IsFiniteSet(Nodes(p)), NEW plan \in Plans(p)
    PROVE  plan.needs = {StageOf(p, m) : m \in {m \in Nodes(p) :
                             Path(p, m, plan.node) /\ Gated(p, StageOf(p, m))}}
<1>1. PICK n \in Nodes(p) :
        plan = [stage |-> StageOf(p, n), node |-> n,
                needs |-> {StageOf(p, m) : m \in {m \in Ancestors(p, n) : Gated(p, StageOf(p, m))}}]
    BY DEF Plans
<1>2. PICK c : c = Cardinality(Nodes(p))
    OBVIOUS
<1>3. Ancestors(p, n) = Within(p, c, n)
    BY <1>2, AncestorsAre, WalksAreShort
<1>4. \A m \in Nodes(p) : m \in Within(p, c, n) <=> Path(p, m, n)
    BY <1>2 DEF Within, Path, Walk, Leads
<1>5. {m \in Ancestors(p, n) : Gated(p, StageOf(p, m))}
        = {m \in Nodes(p) : Path(p, m, n) /\ Gated(p, StageOf(p, m))}
    <2>1. Within(p, c, n) \subseteq Nodes(p)
        BY DEF Within
    <2> QED
        BY <1>3, <1>4, <2>1
<1> QED
    BY <1>1, <1>5

----------------------------------------------------------------------------
(* What the page makes of the rows, once they stand.                       *)

\* And its tables are finite.
LEMMA LoadedIsFinite ==
    ASSUME NEW r \in DOMAIN Package
    PROVE  /\ IsFiniteSet(Stages(Package[r])) /\ IsFiniteSet(Nodes(Package[r]))
           /\ IsFiniteSet(Branches(Package[r]))
           /\ Package[r].trace # NoRef => IsFiniteSet(DOMAIN Package[r].trace)
           /\ None \notin Nodes(Package[r])
<1>1. PICK p : p = Package[r]
    OBVIOUS
<1>2. /\ IsFiniteSet(Stages(p) \cup Nodes(p) \cup Branches(p))
      /\ p.trace # NoRef => IsFiniteSet(DOMAIN p.trace)
      /\ None \notin Nodes(p)
    BY <1>1, AuthoringAssumption DEF SeedAssumption
<1>3. IsFiniteSet(Stages(p)) /\ IsFiniteSet(Nodes(p)) /\ IsFiniteSet(Branches(p))
    BY <1>2, FS_Subset
<1> QED
    BY <1>1, <1>2, <1>3

\* The row of a stage without a double.
OwnRow(s) ==
    /\ s.id \in DOMAIN stageRow
    /\ stageRow[s.id] = [title |-> s.title, type |-> UiStageType(s.type), kind |-> ValidationKind(s),
                         runner |-> Runner(s), rubric |-> s.rubric, free |-> s.id \in FreeStage,
                         mode |-> s.mode, palette |-> "palette" \in DOMAIN s.lists]

LEMMA StandsAsOwn ==
    ASSUME NEW p, Stages(p) \in SUBSET Nat, IsFiniteSet(Stages(p)), IdsAreUnique(p),
           Stand(stageRow, StageKey(p), StageRows(p), Stages(p)), NEW f \in Stages(p)
    PROVE  OwnRow(p.stages[f])
<1>1. \A g \in Stages(p) : p.stages[g].id = p.stages[f].id => g <= f
    BY UniqueIds
<1>2. p.stages[f].id \in DOMAIN stageRow /\ stageRow[p.stages[f].id] = StageData(p, f)
    BY <1>1 DEF Stand, StageKey, StageRows
<1> QED
    BY <1>2, OwnPolicy DEF OwnRow, StageData

\* What is run, written as a formula or told is shown as such.
LEMMA ModesAreShown ==
    ASSUME NEW s, OwnRow(s)
    PROVE  /\ s.mode \in {"code", "experiment"} => Surface(s.id) = "cli"
           /\ s.mode = "math" =>
                Surface(s.id) = IF "palette" \in DOMAIN s.lists THEN "palette" ELSE "prose"
           /\ s.mode = "free_text" => Surface(s.id) = "prose"
           /\ s.mode = "multiple_choice" \/ (s.mode = "mixed" /\ s.type = "decision") =>
                Surface(s.id) = IF Offered(s.id) = {} THEN "nothing" ELSE "choices"
<1>1. PICK row : row = stageRow[s.id]
    OBVIOUS
<1>2. /\ row.mode = s.mode /\ row.palette = ("palette" \in DOMAIN s.lists)
      /\ row.type = UiStageType(s.type)
    BY <1>1 DEF OwnRow
<1>3. None \notin {"code", "experiment", "math", "writing", "decision"}
    BY AuthoringAssumption DEF SeedAssumption
<1>4. /\ s.mode \in {"code", "experiment", "math"} => PlayMode(row) = s.mode
      /\ s.mode = "free_text" => PlayMode(row) = "writing"
      /\ s.mode = "multiple_choice" => PlayMode(row) = "decision"
    BY <1>2, <1>3 DEF PlayMode, ModeFromPolicy
<1>5. ASSUME s.mode = "mixed", s.type = "decision" PROVE PlayMode(row) = "decision"
    <2>1. ModeFromPolicy(row.mode) = None
        BY <1>2, <1>5 DEF ModeFromPolicy
    <2>2. row.type = "decision"
        BY <1>2, <1>5 DEF UiStageType
    <2> QED
        BY <2>1, <2>2 DEF PlayMode, InferMode
<1>6. PICK mode : mode = PlayMode(row)
    OBVIOUS
<1>7. /\ mode = "decision" => Surface(s.id) = IF Offered(s.id) = {} THEN "nothing" ELSE "choices"
      /\ mode \in {"code", "experiment"} => Surface(s.id) = "cli"
      /\ mode = "math" => Surface(s.id) = IF row.palette THEN "palette" ELSE "prose"
      /\ mode = "writing" => Surface(s.id) = "prose"
    BY <1>1, <1>6 DEF Surface
<1> QED
    BY <1>2, <1>4, <1>5, <1>6, <1>7

\* A branch that the nodes of one stage offer, and no others, is on its page.
LEMMA ChoicesAreOffered ==
    ASSUME NEW p, Nodes(p) \in SUBSET Nat, IsFiniteSet(Nodes(p)), None \notin Nodes(p),
           Branches(p) \in SUBSET Nat, IsFiniteSet(Branches(p)),
           Stand(nodeRow, NodeKey(p), NodeRows(p), Nodes(p)),
           Stand(branchRow, BranchKey(p), BranchRows(p), Branches(p)),
           NEW stage, NEW id \in ChoicesOf(p, stage),
           \A n \in Nodes(p) : id \in p.nodes[n].choices => BuiltStageOf(p, n) = stage
    PROVE  id \in Offered(stage)
<1>1. PICK owners : owners = {n \in Nodes(p) : id \in p.nodes[n].choices}
    OBVIOUS
<1>2. owners # {} /\ id \in BranchIds(p)
    <2>1. /\ id \in UNION {p.nodes[n].choices : n \in {n \in Nodes(p) : BuiltStageOf(p, n) = stage}}
          /\ id \in BranchIds(p)
        BY DEF ChoicesOf
    <2>2. PICK n \in Nodes(p) : id \in p.nodes[n].choices
        BY <2>1
    <2> QED
        BY <1>1, <2>1, <2>2
<1>3. Owner(p, id) \in owners
    <2>1. owners \in SUBSET Nat /\ IsFiniteSet(owners)
        BY <1>1, FS_Subset
    <2>2. Max(owners) \in owners
        BY <1>2, <2>1, MaxIs
    <2> QED
        BY <1>1, <1>2, <2>2 DEF Owner
<1>4. PICK f \in Branches(p) :
        p.branches[f].id = id /\ \A g \in Branches(p) : p.branches[g].id = id => g <= f
    <2>1. PICK called : called = {g \in Branches(p) : p.branches[g].id = id}
        OBVIOUS
    <2>2. called # {}
        BY <1>2, <2>1 DEF BranchIds
    <2>3. called \in SUBSET Nat /\ IsFiniteSet(called)
        BY <2>1, FS_Subset
    <2>4. Max(called) \in called /\ \A y \in called : y <= Max(called)
        BY <2>2, <2>3, MaxIs
    <2> QED
        BY <2>1, <2>4
<1>5. id \in DOMAIN branchRow /\ branchRow[id] = BranchData(p, f)
    <2>1. BranchKey(p)[f] = id /\ BranchRows(p)[f] = BranchData(p, f)
        BY <1>4 DEF BranchKey, BranchRows
    <2>2. \A g \in Branches(p) : BranchKey(p)[g] = BranchKey(p)[f] => g <= f
        BY <1>4 DEF BranchKey
    <2> QED
        BY <2>1, <2>2 DEF Stand
<1>6. branchRow[id].node = Owner(p, id)
    BY <1>4, <1>5 DEF BranchData
<1>7. PICK n \in Nodes(p) : n = Owner(p, id) /\ id \in p.nodes[n].choices
    BY <1>1, <1>3
<1>8. nodeRow[n] = stage
    <2>1. NodeKey(p)[n] = n /\ NodeRows(p)[n] = BuiltStageOf(p, n) /\ BuiltStageOf(p, n) = stage
        BY <1>7 DEF NodeKey, NodeRows
    <2>2. \A g \in Nodes(p) : NodeKey(p)[g] = NodeKey(p)[n] => g <= n
        BY DEF NodeKey
    <2> QED
        BY <2>1, <2>2 DEF Stand
<1> QED
    BY <1>5, <1>6, <1>7, <1>8 DEF Offered

LEMMA StagesArePlayed ==
    ASSUME NEW p, Nodes(p) \in SUBSET Nat, IsFiniteSet(Nodes(p)), None \notin Nodes(p),
           Branches(p) \in SUBSET Nat, IsFiniteSet(Branches(p)),
           Stand(nodeRow, NodeKey(p), NodeRows(p), Nodes(p)),
           Stand(branchRow, BranchKey(p), BranchRows(p), Branches(p)),
           NEW s, OwnRow(s)
    PROVE  PlayedAsAuthored(p, s)
<1>1. ASSUME s.mode = "multiple_choice" \/ (s.mode = "mixed" /\ s.type = "decision"),
             NEW id \in ChoicesOf(p, s.id),
             \A n \in Nodes(p) : id \in p.nodes[n].choices => BuiltStageOf(p, n) = s.id
      PROVE  id \in Offered(s.id) /\ Surface(s.id) = "choices"
    <2>1. id \in Offered(s.id)
        BY <1>1, ChoicesAreOffered
    <2>2. Surface(s.id) = IF Offered(s.id) = {} THEN "nothing" ELSE "choices"
        BY <1>1, ModesAreShown
    <2> QED
        BY <2>1, <2>2
<1>2. /\ s.mode \in {"code", "experiment"} => Surface(s.id) = "cli"
      /\ s.mode = "math" =>
           Surface(s.id) = IF "palette" \in DOMAIN s.lists THEN "palette" ELSE "prose"
      /\ s.mode = "free_text" => Surface(s.id) = "prose"
    BY ModesAreShown
<1> QED
    BY <1>1, <1>2 DEF PlayedAsAuthored

\* What has been seeded from a package without errors can be played.
LEMMA SeededIsPlayable == SeedInv => ValidatedIsPlayable
<1> SUFFICES ASSUME SeedInv, seed.pc = "done", Clean(Loaded), IdsAreUnique(Loaded)
             PROVE  ValidatedIsPlayable
    BY DEF ValidatedIsPlayable
<1>1. PICK p : p = Loaded
    OBVIOUS
<1>2. PICK r \in DOMAIN Package : p = Package[r]
    BY <1>1 DEF SeedInv, SeedType, AtWork, Loaded
<1>3. /\ Stages(p) \in SUBSET Nat /\ Nodes(p) \in SUBSET Nat /\ Branches(p) \in SUBSET Nat
      /\ IsFiniteSet(Stages(p)) /\ IsFiniteSet(Nodes(p)) /\ IsFiniteSet(Branches(p))
      /\ p.trace # NoRef => IsFiniteSet(DOMAIN p.trace)
      /\ None \notin Nodes(p)
    BY <1>2, LoadedIs, LoadedIsFinite
<1>4. /\ Stand(stageRow, StageKey(p), StageRows(p), Stages(p))
      /\ Stand(nodeRow, NodeKey(p), NodeRows(p), Nodes(p))
      /\ Stand(branchRow, BranchKey(p), BranchRows(p), Branches(p))
    BY <1>1 DEF SeedInv, StagesStand, NodesStand, BranchesStand
<1>5. Clean(p) /\ IdsAreUnique(p)
    BY <1>1
<1>6. \A f \in Stages(p) : OwnRow(p.stages[f])
    BY <1>3, <1>4, <1>5, StandsAsOwn
<1>7. ASSUME NEW n \in Nodes(p)
      PROVE  /\ nodeRow[n] \in DOMAIN stageRow
             /\ stageRow[nodeRow[n]].title = p.stages[p.nodes[n].stage.file].title
    <2>1. PICK f \in Stages(p) : f = p.nodes[n].stage.file /\ BuiltStageOf(p, n) = p.stages[f].id
        BY <1>3, <1>5, CleanNodes
    <2>2. nodeRow[n] = BuiltStageOf(p, n)
        <3>1. NodeKey(p)[n] = n /\ NodeRows(p)[n] = BuiltStageOf(p, n)
            BY DEF NodeKey, NodeRows
        <3>2. \A g \in Nodes(p) : NodeKey(p)[g] = NodeKey(p)[n] => g <= n
            BY <1>3 DEF NodeKey
        <3> QED
            BY <1>4, <3>1, <3>2 DEF Stand
    <2>3. OwnRow(p.stages[f])
        BY <1>6
    <2>4. PICK s : s = p.stages[f]
        OBVIOUS
    <2>5. s.id \in DOMAIN stageRow /\ stageRow[s.id].title = s.title
        BY <2>3, <2>4 DEF OwnRow
    <2> QED
        BY <2>1, <2>2, <2>4, <2>5
<1>8. \A f \in Stages(p) : PlayedAsAuthored(p, p.stages[f])
    BY <1>3, <1>4, <1>6, StagesArePlayed
<1>9. ASSUME NEW f \in Stages(p), p.stages[f].type \in {"math", "writing"}
      PROVE  \/ stageRow[p.stages[f].id].rubric \in Rubrics(p)
             \/ p.stages[f].type = "math" /\ HasContract(p.stages[f])
    <2>1. stageRow[p.stages[f].id].rubric = p.stages[f].rubric
        <3>1. OwnRow(p.stages[f])
            BY <1>6
        <3> QED
            BY <3>1 DEF OwnRow
    <2> QED
        BY <1>5, <1>9, <2>1, CleanGrading
<1>10. \A b \in ShownSample(StoredSample(p)) : p.branches[b.branch].type = "failed" => b.told = {}
    BY FailedIsUntold
<1>11. Warnings(p) = {} /\ p.trace # NoRef => TreeHoldsBranches(p)
    BY <1>3, <1>5, CleanTree
<1> QED
    BY <1>1, <1>7, <1>8, <1>9, <1>10, <1>11 DEF ValidatedIsPlayable

\* What the validator lets through can be played, every stage as it was authored
\* and graded against what its author gave, and the plan of a stage that runs
\* names just the stages that run on some path to it, for any packages, however
\* large and whether or not their graph has cycles (index.ts, seed.ts, sandbox.ts).
THEOREM ValidationAlwaysSuffices == BothSpec => []ValidationSuffices
<1>1. ASSUME SeedInv PROVE PlansAreComplete
    <2> SUFFICES ASSUME seed.pc = "version", NEW plan \in Plans(Loaded)
                 PROVE  plan.needs = {StageOf(Loaded, m) : m \in {m \in Nodes(Loaded) :
                            Path(Loaded, m, plan.node) /\ Gated(Loaded, StageOf(Loaded, m))}}
        BY DEF PlansAreComplete
    <2>1. IsFiniteSet(Nodes(Loaded))
        BY <1>1, LoadedIsFinite DEF SeedInv, SeedType, AtWork, Loaded
    <2> QED
        BY <2>1, PlansAre
<1>2. SeedInv => ValidationSuffices
    BY <1>1, SeededIsPlayable DEF ValidationSuffices
<1> QED
    BY <1>2, SeedInvariance, PTL

----------------------------------------------------------------------------
(* ErpDraft.  What a run's folder holds and what a command on it has in    *)
(* hand are related at each point of the command; a command that stopped   *)
(* leaves the folder, of which alone SavedIs speaks.                       *)

Prefix(a, b) == Len(a) <= Len(b) /\ \A i \in 1 .. Len(a) : a[i] = b[i]

FolderRec == [manifest : Draft!Manifest \cup {None}, files : Seq(Outcome),
              report : {None, "skipped", "passed", "failed"}]
CommandRec == [kind : {"create", "resume"}, skip : BOOLEAN,
               at : {"resolve", "copy", "copying", "filling", "validate", "run", "report", "save"},
               manifest : Draft!Manifest]

\* A manifest whose validation ended tells how the last report it lists ended.
Judged(m) == m.validate \in {"completed", "blocked"} =>
                m.reports # <<>> /\ Draft!Ok(Draft!Last(m.reports)) = (m.validate = "completed")

\* It and the files of its folder tell the same.
Stands(m, f) ==
    /\ Prefix(m.reports, f.files) /\ Judged(m)
    /\ m.validate = "completed" => f.report = "passed"
    /\ m.validate = "blocked" => f.report = "failed"
    /\ m.validate = "pending" => m.reports = <<>> /\ f.report = None

SavedIs(f) == f # None /\ f.manifest # None => Stands(f.manifest, f)

\* Before validation begins a command holds what is saved; from then on the
\* saved manifest says so, until the new report is told of and saved.
HandIs(f, c) ==
    LET m == c.manifest
        s == f.manifest
    IN  /\ f \in FolderRec /\ Prefix(m.reports, f.files)
        /\ c.at = "resolve" => /\ s = None /\ f.report = None
                               /\ m.validate = "pending" /\ m.reports = <<>>
        /\ c.at \in {"copy", "copying", "filling", "validate"} =>
             m.reports = s.reports /\ m.validate = s.validate /\ Stands(m, f)
        /\ c.at = "run" => m.reports = s.reports /\ s.validate = "running"
        /\ c.at \in {"report", "save"} =>
             /\ s.validate \in {"running", "skipped"} /\ Prefix(s.reports, m.reports)
             /\ m.validate \in {"skipped", "completed", "blocked"} /\ Judged(m)
        /\ c.at = "save" => f.report = Draft!Told(m)

RunIs(f, c) == SavedIs(f) /\ (c # None => HandIs(f, c))

\* What a step leaves of the reports that were listed.
Continues(f, g) ==
    f # None /\ f.manifest # None =>
        Prefix(f.manifest.reports, g.manifest.reports) /\ Prefix(f.manifest.reports, g.files)

\* While a template is copied its package is there.
CopiesStand ==
    \A r \in Run : command[r] # None /\ command[r].at \in {"copying", "filling"} =>
        package[command[r].manifest.package] # None

DraftInv == /\ Draft!TypeOK /\ \A r \in Run : RunIs(folder[r], command[r])
            /\ CopiesStand

\* What a run's folder and command become, and that reports stay.
Moved(f, g, d) == /\ g \in FolderRec \cup {None} /\ d \in CommandRec \cup {None}
                  /\ RunIs(g, d) /\ Continues(f, g)

LEMMA PrefixFacts ==
    ASSUME NEW T, NEW a \in Seq(T), NEW x \in T
    PROVE  /\ Prefix(a, a) /\ Prefix(<<>>, a)
           /\ Append(a, x) \in Seq(T) /\ Prefix(a, Append(a, x)) /\ Append(a, x) # <<>>
           /\ Draft!Last(Append(a, x)) = x
<1>1. PICK b \in Seq(T) : b = Append(a, x)
    BY AppendProperties
<1>2. /\ Len(b) = Len(a) + 1 /\ b[Len(a) + 1] = x /\ \A i \in 1 .. Len(a) : b[i] = a[i]
      /\ Len(a) \in Nat
    BY <1>1
<1>3. Prefix(a, b) /\ b # <<>> /\ Draft!Last(b) = x
    BY <1>2 DEF Prefix, Draft!Last
<1>4. Prefix(a, a) /\ Prefix(<<>>, a)
    BY DEF Prefix
<1> QED
    BY <1>1, <1>3, <1>4

LEMMA ManifestIs ==
    ASSUME NEW m \in Draft!Manifest
    PROVE  /\ m.reports \in Seq(Outcome) /\ m.package \in Target
           /\ m.validate \in {"pending", "running", "completed", "blocked", "skipped"}
BY DEF Draft!Manifest

LEMMA MarkedIs ==
    ASSUME NEW m \in Draft!Manifest, NEW state \in {"running", "completed", "blocked", "skipped"},
           NEW v, v = Draft!Marked(m, "validate", state)
    PROVE  /\ v \in Draft!Manifest /\ v.reports = m.reports /\ v.package = m.package
           /\ v.validate = state
BY DEF Draft!Marked, Draft!Manifest

LEMMA GeneratedIs ==
    ASSUME NEW m \in Draft!Manifest, NEW v, v = Draft!Marked(m, "generate", "completed")
    PROVE  /\ v \in Draft!Manifest /\ v.reports = m.reports /\ v.package = m.package
           /\ v.validate = m.validate
BY DEF Draft!Marked, Draft!Manifest

\* A command that ends, at its end or anywhere, leaves what is saved.
LEMMA StopMoves ==
    ASSUME NEW f \in FolderRec, SavedIs(f)
    PROVE  Moved(f, f, None)
<1>1. f.manifest # None => f.manifest.reports \in Seq(Outcome)
    BY ManifestIs DEF FolderRec
<1>2. f.manifest # None => Prefix(f.manifest.reports, f.manifest.reports)
    BY <1>1 DEF Prefix
<1> QED
    BY <1>2 DEF Moved, RunIs, Continues, SavedIs, Stands

\* Its next step up to validation changes nothing that is listed.
LEMMA GoMoves ==
    ASSUME NEW f \in FolderRec, NEW c \in CommandRec, RunIs(f, c), c # None,
           NEW d, d = [c EXCEPT !.at = "copying"] \/ d = [c EXCEPT !.at = "filling"],
           c.at \in {"copy", "copying"}
    PROVE  Moved(f, f, d)
<1>1. SavedIs(f) /\ HandIs(f, c)
    BY DEF RunIs
<1>2. /\ d \in CommandRec /\ d.manifest = c.manifest
      /\ d.at \in {"copying", "filling"}
    BY DEF CommandRec
<1>3. HandIs(f, d)
    BY <1>1, <1>2 DEF HandIs
<1> QED
    BY <1>1, <1>2, <1>3, StopMoves DEF Moved, RunIs

LEMMA CreateMoves ==
    ASSUME NEW p \in Target, NEW skip \in BOOLEAN, NEW d,
           d = [kind |-> "create", skip |-> skip, at |-> "resolve",
                manifest |-> Draft!FirstManifest(p)]
    PROVE  Moved(None, Draft!EmptyFolder, d)
<1>1. PICK g, m : g = Draft!EmptyFolder /\ m = Draft!FirstManifest(p)
    OBVIOUS
<1>2. g \in FolderRec /\ g.manifest = None /\ g.report = None /\ g.files = <<>>
    BY <1>1 DEF Draft!EmptyFolder, FolderRec
<1>3. m \in Draft!Manifest /\ m.validate = "pending" /\ m.reports = <<>>
    BY <1>1 DEF Draft!FirstManifest, Draft!Manifest
<1>4. d \in CommandRec /\ d.at = "resolve" /\ d.manifest = m
    BY <1>1, <1>3 DEF CommandRec
<1>5. Prefix(m.reports, g.files)
    BY <1>2, <1>3 DEF Prefix
<1>6. HandIs(g, d)
    BY <1>2, <1>3, <1>4, <1>5 DEF HandIs
<1> QED
    BY <1>1, <1>2, <1>4, <1>6 DEF Moved, RunIs, SavedIs, Continues

LEMMA ResumeMoves ==
    ASSUME NEW f \in FolderRec, f # None, f.manifest # None, SavedIs(f), NEW skip \in BOOLEAN,
           NEW at \in {"copy", "validate"}, NEW d,
           d = [kind |-> "resume", skip |-> skip, at |-> at, manifest |-> f.manifest]
    PROVE  Moved(f, f, d)
<1>1. f.manifest \in Draft!Manifest
    BY DEF FolderRec
<1>2. d \in CommandRec /\ d.at \in {"copy", "validate"} /\ d.manifest = f.manifest
    BY <1>1 DEF CommandRec
<1>3. Moved(f, f, None)
    BY StopMoves
<1>4. HandIs(f, d)
    BY <1>2 DEF SavedIs, HandIs, Stands
<1> QED
    BY <1>2, <1>3, <1>4 DEF Moved, RunIs

LEMMA ResolveMoves ==
    ASSUME NEW f \in FolderRec, NEW c \in CommandRec, HandIs(f, c), c.at = "resolve",
           NEW g, g = [f EXCEPT !.manifest = c.manifest],
           NEW d, d = [c EXCEPT !.at = "copy"]
    PROVE  Moved(f, g, d)
<1>1. c.manifest \in Draft!Manifest
    BY DEF CommandRec
<1>2. /\ g \in FolderRec /\ g.manifest = c.manifest /\ g.files = f.files
      /\ g.report = f.report
    BY <1>1 DEF FolderRec
<1>3. d \in CommandRec /\ d.at = "copy" /\ d.manifest = c.manifest
    BY DEF CommandRec
<1>4. Stands(c.manifest, g)
    BY <1>2 DEF HandIs, Stands, Judged
<1>5. HandIs(g, d) /\ SavedIs(g)
    BY <1>2, <1>3, <1>4 DEF HandIs, SavedIs
<1>6. Continues(f, g)
    BY DEF HandIs, Continues
<1> QED
    BY <1>2, <1>3, <1>5, <1>6 DEF Moved, RunIs

LEMMA GeneratedMoves ==
    ASSUME NEW f \in FolderRec, NEW c \in CommandRec, SavedIs(f), HandIs(f, c),
           c.at = "filling", NEW m, m = Draft!Marked(c.manifest, "generate", "completed"),
           NEW g, g = f \/ g = [f EXCEPT !.manifest = m],
           NEW d, d = [c EXCEPT !.at = "validate", !.manifest = m]
    PROVE  Moved(f, g, d)
<1>1. c.manifest \in Draft!Manifest
    BY DEF CommandRec
<1>2. /\ m \in Draft!Manifest /\ m.reports = c.manifest.reports
      /\ m.validate = c.manifest.validate
    BY <1>1, GeneratedIs
<1>3. d \in CommandRec /\ d.at = "validate" /\ d.manifest = m
    BY <1>2 DEF CommandRec
<1>4. CASE g = f
    <2>1. HandIs(g, d)
        BY <1>2, <1>3, <1>4 DEF HandIs, Stands, Judged
    <2> QED
        BY <1>3, <1>4, <2>1, StopMoves DEF Moved, RunIs
<1>5. CASE g = [f EXCEPT !.manifest = m]
    <2>1. /\ g \in FolderRec /\ g.manifest = m /\ g.files = f.files /\ g.report = f.report
        BY <1>2, <1>5 DEF FolderRec
    <2>2. Stands(m, g)
        BY <1>2, <2>1 DEF HandIs, Stands, Judged
    <2>5. HandIs(g, d) /\ SavedIs(g)
        BY <1>2, <1>3, <2>1, <2>2 DEF HandIs, SavedIs
    <2>3. f # None /\ f.manifest # None =>
            Prefix(f.manifest.reports, f.manifest.reports)
        <3>1. f.manifest # None => f.manifest \in Draft!Manifest
            BY DEF FolderRec
        <3> QED
            BY <3>1, ManifestIs DEF Prefix
    <2>4. Continues(f, g)
        BY <1>2, <2>1, <2>3 DEF HandIs, Continues
    <2> QED
        BY <1>3, <2>1, <2>5, <2>4 DEF Moved, RunIs
<1> QED
    BY <1>4, <1>5

LEMMA BeginMoves ==
    ASSUME NEW f \in FolderRec, NEW c \in CommandRec, HandIs(f, c), c.at = "validate",
           NEW m, m = Draft!Marked(c.manifest, "validate",
                                   IF c.skip THEN "skipped" ELSE "running"),
           NEW g, g = [f EXCEPT !.manifest = m],
           NEW d, d = [c EXCEPT !.manifest = m, !.at = IF c.skip THEN "report" ELSE "run"]
    PROVE  Moved(f, g, d)
<1>1. c.manifest \in Draft!Manifest /\ c.skip \in BOOLEAN
    BY DEF CommandRec
<1>2. PICK state \in {"running", "skipped"} : state = IF c.skip THEN "skipped" ELSE "running"
    BY <1>1
<1>3. /\ m \in Draft!Manifest /\ m.reports = c.manifest.reports /\ m.validate = state
    BY <1>1, <1>2, MarkedIs
<1>4. /\ g \in FolderRec /\ g.manifest = m /\ g.files = f.files /\ g.report = f.report
    BY <1>3 DEF FolderRec
<1>5. /\ d \in CommandRec /\ d.manifest = m
      /\ \/ d.at = "report" /\ state = "skipped"
         \/ d.at = "run" /\ state = "running"
    BY <1>1, <1>2, <1>3 DEF CommandRec
<1>6. Prefix(m.reports, m.reports) /\ Prefix(m.reports, g.files)
    BY <1>3, <1>4, ManifestIs DEF Prefix, HandIs
<1>7. Stands(m, g)
    BY <1>3, <1>6 DEF Stands, Judged
<1>8. HandIs(g, d) /\ SavedIs(g)
    BY <1>3, <1>4, <1>5, <1>6, <1>7 DEF HandIs, SavedIs, Judged
<1>9. Continues(f, g)
    BY <1>3, <1>4, <1>6 DEF HandIs, Continues
<1> QED
    BY <1>4, <1>5, <1>8, <1>9 DEF Moved, RunIs

\* A report file is written after those the manifest lists.
LEMMA SetFileIs ==
    ASSUME NEW files0 \in Seq(Outcome), NEW reports \in Seq(Outcome), NEW o \in Outcome,
           Prefix(reports, files0), NEW new, new = Draft!SetFile(files0, Len(reports) + 1, o)
    PROVE  /\ new \in Seq(Outcome) /\ Prefix(reports, new)
           /\ Prefix(Append(reports, o), new)
<1>1. Len(reports) \in Nat /\ Len(files0) \in Nat /\ Len(reports) <= Len(files0)
    BY DEF Prefix
<1>2. /\ new \in Seq(Outcome) /\ Len(reports) + 1 <= Len(new) /\ new[Len(reports) + 1] = o
      /\ \A i \in 1 .. Len(reports) : new[i] = files0[i]
    <2>1. CASE Len(reports) + 1 \in DOMAIN files0
        <3>1. new = [files0 EXCEPT ![Len(reports) + 1] = o]
            BY <2>1 DEF Draft!SetFile
        <3> QED
            BY <1>1, <2>1, <3>1
    <2>2. CASE Len(reports) + 1 \notin DOMAIN files0
        <3>1. new = Append(files0, o)
            BY <2>2 DEF Draft!SetFile
        <3>2. Len(files0) = Len(reports)
            BY <1>1, <2>2
        <3> QED
            BY <1>1, <3>1, <3>2
    <2> QED
        BY <2>1, <2>2
<1>3. Prefix(reports, new)
    BY <1>1, <1>2 DEF Prefix
<1>4. PICK b \in Seq(Outcome) : b = Append(reports, o)
    BY AppendProperties
<1>5. /\ Len(b) = Len(reports) + 1 /\ b[Len(reports) + 1] = o
      /\ \A i \in 1 .. Len(reports) : b[i] = reports[i]
    BY <1>4
<1>6. Prefix(b, new)
    BY <1>1, <1>2, <1>5 DEF Prefix
<1> QED
    BY <1>2, <1>3, <1>4, <1>6

LEMMA ValidateMoves ==
    ASSUME NEW f \in FolderRec, NEW c \in CommandRec, HandIs(f, c), SavedIs(f), c.at = "run",
           NEW o \in Outcome,
           NEW v, v = [c.manifest EXCEPT !.reports = Append(@, o)],
           NEW m, m = Draft!Marked(v, "validate", IF Draft!Ok(o) THEN "completed" ELSE "blocked"),
           NEW g, g = [f EXCEPT !.files = Draft!SetFile(@, Draft!ReportIndex(c.manifest), o)],
           NEW d, d = [c EXCEPT !.at = "report", !.manifest = m]
    PROVE  Moved(f, g, d)
<1>1. PICK reports \in Seq(Outcome), files0 \in Seq(Outcome) :
        reports = c.manifest.reports /\ files0 = f.files /\ c.manifest \in Draft!Manifest
    BY ManifestIs DEF FolderRec, CommandRec
<1>2. PICK b \in Seq(Outcome) : b = Append(reports, o)
    BY AppendProperties
<1>3. Prefix(reports, b) /\ Prefix(reports, reports) /\ b # <<>> /\ Draft!Last(b) = o
    BY <1>2, PrefixFacts
<1>4. v \in Draft!Manifest /\ v.reports = b
    BY <1>1, <1>2 DEF Draft!Manifest
<1>5. PICK state \in {"completed", "blocked"} : state = IF Draft!Ok(o) THEN "completed" ELSE "blocked"
    OBVIOUS
<1>6. m \in Draft!Manifest /\ m.reports = b /\ m.validate = state
    <2>1. m = Draft!Marked(v, "validate", state)
        BY <1>5
    <2>2. m \in Draft!Manifest /\ m.reports = v.reports /\ m.validate = state
        <3>1. state \in {"running", "completed", "blocked", "skipped"} /\ v \in Draft!Manifest
            BY <1>4, <1>5
        <3> QED
            BY <2>1, <3>1 DEF Draft!Marked, Draft!Manifest
    <2> QED
        BY <1>4, <2>2
<1>7. Judged(m)
    BY <1>3, <1>5, <1>6 DEF Judged, Draft!Ok
<1>8. PICK new : new = Draft!SetFile(files0, Len(reports) + 1, o)
    OBVIOUS
<1>9. Prefix(reports, files0)
    BY <1>1 DEF HandIs
<1>10. new \in Seq(Outcome) /\ Prefix(reports, new) /\ Prefix(b, new)
    BY <1>2, <1>8, <1>9, SetFileIs
<1>11. /\ g \in FolderRec /\ g.manifest = f.manifest /\ g.files = new /\ g.report = f.report
    BY <1>1, <1>8, <1>10 DEF FolderRec, Draft!ReportIndex
<1>12. d \in CommandRec /\ d.manifest = m /\ d.at = "report"
    BY <1>6 DEF CommandRec
<1>13. f.manifest.reports = reports /\ f.manifest.validate = "running"
    BY <1>1 DEF HandIs
<1>14. HandIs(g, d)
    BY <1>3, <1>5, <1>6, <1>7, <1>10, <1>11, <1>12, <1>13 DEF HandIs
<1>15. SavedIs(g)
    BY <1>10, <1>11, <1>13 DEF SavedIs, Stands, Judged
<1>16. Continues(f, g)
    BY <1>3, <1>10, <1>11, <1>13 DEF Continues
<1> QED
    BY <1>11, <1>12, <1>14, <1>15, <1>16 DEF Moved, RunIs

\* While a new manifest waits to be saved, what the saved one lists is there.
LEMMA ListedBySaved ==
    ASSUME NEW f \in FolderRec, NEW c \in CommandRec, HandIs(f, c), c.at \in {"report", "save"},
           f.manifest # None
    PROVE  Prefix(f.manifest.reports, f.files)
<1>1. f.manifest.reports \in Seq(Outcome) /\ c.manifest.reports \in Seq(Outcome)
    BY ManifestIs DEF FolderRec, CommandRec
<1>2. PICK a \in Seq(Outcome), b \in Seq(Outcome), n \in Seq(Outcome) :
        a = f.manifest.reports /\ b = c.manifest.reports /\ n = f.files
    BY <1>1 DEF FolderRec
<1>3. Prefix(a, b) /\ Prefix(b, n)
    BY <1>2 DEF HandIs
<1>4. Prefix(a, n)
    BY <1>3 DEF Prefix
<1> QED
    BY <1>2, <1>4

LEMMA ReportMoves ==
    ASSUME NEW f \in FolderRec, NEW c \in CommandRec, HandIs(f, c), SavedIs(f), c.at = "report",
           NEW g, g = [f EXCEPT !.report = Draft!Told(c.manifest)],
           NEW d, d = [c EXCEPT !.at = "save"]
    PROVE  Moved(f, g, d)
<1>1. Draft!Told(c.manifest) \in {"skipped", "passed", "failed"}
    BY DEF Draft!Told
<1>2. /\ g \in FolderRec /\ g.manifest = f.manifest /\ g.files = f.files
      /\ g.report = Draft!Told(c.manifest)
    BY <1>1 DEF FolderRec
<1>3. d \in CommandRec /\ d.at = "save" /\ d.manifest = c.manifest
    BY DEF CommandRec
<1>4. HandIs(g, d)
    BY <1>2, <1>3 DEF HandIs
<1>5. f.manifest.validate \in {"running", "skipped"}
    BY DEF HandIs
<1>6. SavedIs(g)
    BY <1>2, <1>5, ListedBySaved DEF SavedIs, Stands, Judged
<1>7. Moved(f, f, None)
    BY StopMoves
<1>8. Continues(f, g)
    BY <1>2, <1>7 DEF Continues, Moved
<1> QED
    BY <1>2, <1>3, <1>4, <1>6, <1>8 DEF Moved, RunIs

LEMMA FinishMoves ==
    ASSUME NEW f \in FolderRec, NEW c \in CommandRec, HandIs(f, c), c.at = "save",
           NEW g, g = [f EXCEPT !.manifest = c.manifest]
    PROVE  Moved(f, g, None)
<1>1. c.manifest \in Draft!Manifest
    BY DEF CommandRec
<1>2. /\ g \in FolderRec /\ g.manifest = c.manifest /\ g.files = f.files
      /\ g.report = f.report
    BY <1>1 DEF FolderRec
<1>3. /\ Prefix(c.manifest.reports, g.files) /\ Prefix(f.manifest.reports, c.manifest.reports)
      /\ c.manifest.validate \in {"skipped", "completed", "blocked"} /\ Judged(c.manifest)
      /\ g.report = Draft!Told(c.manifest)
    BY <1>2 DEF HandIs
<1>4. Stands(c.manifest, g)
    BY <1>3 DEF Stands, Judged, Draft!Told
<1>5. f.manifest # None => Prefix(f.manifest.reports, g.files)
    BY <1>2, ListedBySaved
<1> QED
    BY <1>2, <1>3, <1>4, <1>5 DEF Moved, RunIs, SavedIs, Continues

LEMMA StepMoves ==
    ASSUME DraftInv, NEW r \in Run, Draft!Step(r)
    PROVE  \E g, d : /\ folder' = [folder EXCEPT ![r] = g]
                     /\ command' = [command EXCEPT ![r] = d]
                     /\ Moved(folder[r], g, d)
<1>1. /\ folder \in [Run -> FolderRec \cup {None}] /\ command \in [Run -> CommandRec \cup {None}]
      /\ RunIs(folder[r], command[r])
    BY DEF DraftInv, Draft!TypeOK, FolderRec, CommandRec
<1>2. PICK f, c : f = folder[r] /\ c = command[r]
    OBVIOUS
<1>3. /\ c # None /\ c \in CommandRec /\ HandIs(f, c) /\ SavedIs(f) /\ RunIs(f, c)
      /\ f \in FolderRec
    BY <1>1, <1>2 DEF Draft!Step, RunIs, HandIs
<1>4. [folder EXCEPT ![r] = f] = folder /\ [command EXCEPT ![r] = c] = command
    BY <1>1, <1>2
<1> DEFINE Becomes(g, d) == /\ folder' = [folder EXCEPT ![r] = g]
                            /\ command' = [command EXCEPT ![r] = d]
                            /\ Moved(f, g, d)
<1>5. CASE Draft!Resolve(r)
    <2>1. PICK g, d : g = [f EXCEPT !.manifest = c.manifest] /\ d = [c EXCEPT !.at = "copy"]
        OBVIOUS
    <2>2. c.at = "resolve" /\ folder' = [folder EXCEPT ![r] = g] /\ command' = [command EXCEPT ![r] = d]
        BY <1>1, <1>2, <1>5, <2>1 DEF Draft!Resolve, Draft!Saves, Draft!Goes
    <2> QED
        BY <1>2, <1>3, <2>1, <2>2, ResolveMoves, ZenonT(60)
<1>6. CASE Draft!BeginCopy(r)
    <2>1. PICK d : d = [c EXCEPT !.at = "copying"]
        OBVIOUS
    <2>2. c.at = "copy" /\ folder' = folder
          /\ (command' = [command EXCEPT ![r] = d] \/ command' = [command EXCEPT ![r] = None])
        BY <1>2, <1>6, <2>1 DEF Draft!BeginCopy, Draft!Goes
    <2>3. Moved(f, f, d) /\ Moved(f, f, None)
        BY <1>3, <2>1, <2>2, GoMoves, StopMoves
    <2> QED
        BY <1>2, <1>4, <2>2, <2>3
<1>7. CASE Draft!CopyDone(r)
    <2>1. PICK d : d = [c EXCEPT !.at = "filling"]
        OBVIOUS
    <2>2. c.at = "copying" /\ folder' = folder /\ command' = [command EXCEPT ![r] = d]
        BY <1>2, <1>7, <2>1 DEF Draft!CopyDone, Draft!Goes
    <2>3. Moved(f, f, d)
        BY <1>3, <2>1, <2>2, GoMoves
    <2> QED
        BY <1>2, <1>4, <2>2, <2>3
<1>8. CASE Draft!Generated(r)
    <2>1. PICK m, d : /\ m = Draft!Marked(c.manifest, "generate", "completed")
                      /\ d = [c EXCEPT !.at = "validate", !.manifest = m]
        OBVIOUS
    <2>2. /\ c.at = "filling" /\ command' = [command EXCEPT ![r] = d]
          /\ \E g : /\ g = f \/ g = [f EXCEPT !.manifest = m]
                    /\ folder' = [folder EXCEPT ![r] = g]
        BY <1>1, <1>2, <1>4, <1>8, <2>1 DEF Draft!Generated, Draft!Saves
    <2>3. PICK g : /\ g = f \/ g = [f EXCEPT !.manifest = m]
                   /\ folder' = [folder EXCEPT ![r] = g]
        BY <2>2
    <2>4. Moved(f, g, d)
        BY <1>3, <2>1, <2>2, <2>3, GeneratedMoves
    <2> QED
        BY <1>2, <2>2, <2>3, <2>4
<1>9. CASE Draft!BeginValidation(r)
    <2>1. PICK m, g, d :
            /\ m = Draft!Marked(c.manifest, "validate", IF c.skip THEN "skipped" ELSE "running")
            /\ g = [f EXCEPT !.manifest = m]
            /\ d = [c EXCEPT !.manifest = m, !.at = IF c.skip THEN "report" ELSE "run"]
        OBVIOUS
    <2>2. c.at = "validate" /\ folder' = [folder EXCEPT ![r] = g] /\ command' = [command EXCEPT ![r] = d]
        BY <1>1, <1>2, <1>9, <2>1 DEF Draft!BeginValidation, Draft!Saves
    <2>3. Moved(f, g, d)
        BY <1>3, <2>1, <2>2, BeginMoves
    <2> QED
        BY <1>2, <2>2, <2>3
<1>10. ASSUME NEW o \in Outcome, Draft!Validate(r, o) PROVE \E g, d : Becomes(g, d)
    <2>1. PICK v : v = [c.manifest EXCEPT !.reports = Append(@, o)]
        OBVIOUS
    <2>2. PICK m, g, d :
            /\ m = Draft!Marked(v, "validate", IF Draft!Ok(o) THEN "completed" ELSE "blocked")
            /\ g = [f EXCEPT !.files = Draft!SetFile(@, Draft!ReportIndex(c.manifest), o)]
            /\ d = [c EXCEPT !.at = "report", !.manifest = m]
        OBVIOUS
    <2>3. c.at = "run" /\ folder' = [folder EXCEPT ![r] = g] /\ command' = [command EXCEPT ![r] = d]
        BY <1>1, <1>2, <1>10, <2>1, <2>2 DEF Draft!Validate
    <2>4. Moved(f, g, d)
        BY <1>3, <2>1, <2>2, <2>3, ValidateMoves
    <2> QED
        BY <2>3, <2>4
<1>11. CASE Draft!WriteReport(r)
    <2>1. PICK g, d : g = [f EXCEPT !.report = Draft!Told(c.manifest)] /\ d = [c EXCEPT !.at = "save"]
        OBVIOUS
    <2>2. c.at = "report" /\ folder' = [folder EXCEPT ![r] = g] /\ command' = [command EXCEPT ![r] = d]
        BY <1>1, <1>2, <1>11, <2>1 DEF Draft!WriteReport, Draft!Goes
    <2>3. Moved(f, g, d)
        BY <1>3, <2>1, <2>2, ReportMoves
    <2> QED
        BY <1>2, <2>2, <2>3
<1>12. CASE Draft!Finish(r)
    <2>1. PICK g : g = [f EXCEPT !.manifest = c.manifest]
        OBVIOUS
    <2>2. c.at = "save" /\ folder' = [folder EXCEPT ![r] = g] /\ command' = [command EXCEPT ![r] = None]
        BY <1>1, <1>2, <1>12, <2>1 DEF Draft!Finish, Draft!Saves
    <2>3. Moved(f, g, None)
        BY <1>3, <2>1, <2>2, FinishMoves
    <2> QED
        BY <1>2, <2>2, <2>3
<1>13. ASSUME NEW t \in TemplateFile, Draft!CopyFile(r, t) \/ Draft!FillFile(r, t)
       PROVE  \E g, d : Becomes(g, d)
    <2>1. folder' = folder /\ command' = command
        BY <1>13 DEF Draft!CopyFile, Draft!FillFile, Draft!Becomes
    <2>2. Moved(f, f, c)
        BY <1>3, StopMoves DEF Moved
    <2> QED
        BY <1>4, <2>1, <2>2
<1>14. \E g, d : Becomes(g, d)
    BY <1>2, <1>5, <1>6, <1>7, <1>8, <1>9, <1>10, <1>11, <1>12, <1>13 DEF Draft!Step
<1> QED
    BY <1>2, <1>14

\* Any step of a command given or at work.
LEMMA SomeRunMoves ==
    ASSUME DraftInv, [Draft!Next]_(Draft!vars)
    PROVE  \/ \E r \in Run : \E g, d : /\ folder' = [folder EXCEPT ![r] = g]
                                        /\ command' = [command EXCEPT ![r] = d]
                                        /\ Moved(folder[r], g, d)
           \/ folder' = folder /\ command' = command
<1>1. /\ folder \in [Run -> FolderRec \cup {None}] /\ command \in [Run -> CommandRec \cup {None}]
      /\ \A r \in Run : SavedIs(folder[r])
    BY DEF DraftInv, RunIs, Draft!TypeOK, FolderRec, CommandRec
<1>2. ASSUME NEW r \in Run, NEW skip \in BOOLEAN, Draft!Resume(r, skip)
      PROVE  \E g, d : /\ folder' = [folder EXCEPT ![r] = g]
                       /\ command' = [command EXCEPT ![r] = d] /\ Moved(folder[r], g, d)
    <2>1. PICK f, at : f = folder[r] /\ at = IF package[f.manifest.package] = None
                                             THEN "copy" ELSE "validate"
        OBVIOUS
    <2>2. PICK d : d = [kind |-> "resume", skip |-> skip, at |-> at, manifest |-> f.manifest]
        OBVIOUS
    <2>3. /\ f # None /\ f.manifest # None /\ folder' = folder
          /\ command' = [command EXCEPT ![r] = d]
        BY <1>2, <2>1, <2>2 DEF Draft!Resume, Draft!Starts
    <2>4. f \in FolderRec /\ SavedIs(f) /\ at \in {"copy", "validate"}
        BY <1>1, <2>1, <2>3
    <2>5. Moved(f, f, d)
        BY <2>2, <2>3, <2>4, ResumeMoves
    <2>6. folder' = [folder EXCEPT ![r] = f]
        BY <1>1, <2>1, <2>3
    <2> QED
        BY <2>1, <2>3, <2>5, <2>6
<1>3. ASSUME NEW r \in Run, NEW skip \in BOOLEAN, NEW i \in Input, NEW s \in Spelling,
             Draft!Create(r, i, s, skip)
      PROVE  \E g, d : /\ folder' = [folder EXCEPT ![r] = g]
                       /\ command' = [command EXCEPT ![r] = d] /\ Moved(folder[r], g, d)
    <2>1. PICK p : p = Draft!PackageOf(s)
        OBVIOUS
    <2>2. p \in Target
        BY <1>3, <2>1, AuthoringAssumption DEF Draft!Create, Draft!PackageOf, Draft!ErpDraftAssumption
    <2>3. PICK d : d = [kind |-> "create", skip |-> skip, at |-> "resolve",
                        manifest |-> Draft!FirstManifest(p)]
        OBVIOUS
    <2>4. /\ folder[r] = None /\ folder' = [folder EXCEPT ![r] = Draft!EmptyFolder]
          /\ command' = [command EXCEPT ![r] = d]
        BY <1>3, <2>1, <2>3 DEF Draft!Create, Draft!Starts
    <2>5. Moved(None, Draft!EmptyFolder, d)
        BY <2>2, <2>3, CreateMoves
    <2> QED
        BY <2>4, <2>5
<1>4. ASSUME NEW r \in Run, Draft!Stop(r)
      PROVE  \E g, d : /\ folder' = [folder EXCEPT ![r] = g]
                       /\ command' = [command EXCEPT ![r] = d] /\ Moved(folder[r], g, d)
    <2>1. command[r] # None /\ folder' = folder /\ command' = [command EXCEPT ![r] = None]
        BY <1>4 DEF Draft!Stop
    <2>2. PICK f : f = folder[r]
        OBVIOUS
    <2>3. f \in FolderRec /\ SavedIs(f)
        BY <1>1, <2>1, <2>2 DEF DraftInv, RunIs, HandIs
    <2>4. Moved(f, f, None)
        BY <2>3, StopMoves
    <2>5. folder' = [folder EXCEPT ![r] = f]
        BY <1>1, <2>1, <2>2
    <2> QED
        BY <2>1, <2>2, <2>4, <2>5
<1>5. ASSUME NEW p \in Target, NEW new, Draft!Author(p, new)
      PROVE  folder' = folder /\ command' = command
    BY <1>5 DEF Draft!Author
<1>6. CASE UNCHANGED Draft!vars
    BY <1>6 DEF Draft!vars
<1>7. CASE Draft!Next
    <2>1. CASE \E r \in Run, skip \in BOOLEAN :
                 \/ Draft!Resume(r, skip)
                 \/ \E i \in Input, s \in Spelling : Draft!Create(r, i, s, skip)
        BY <1>2, <1>3, <2>1
    <2>2. CASE \E r \in Run : Draft!Step(r) \/ Draft!Stop(r)
        BY <1>4, <2>2, StepMoves
    <2>3. CASE \E p \in Target : Draft!Discard(p) \/ \E t \in TemplateFile : Draft!Edit(p, t)
        BY <1>5, <2>3 DEF Draft!Discard, Draft!Edit
    <2> QED
        BY <1>7, <2>1, <2>2, <2>3 DEF Draft!Next
<1> QED
    BY <1>6, <1>7

\* The run that moves is in order, and the others stay as they are.
LEMMA RunsStayInOrder ==
    ASSUME DraftInv, [Draft!Next]_(Draft!vars)
    PROVE  /\ folder' \in [Run -> FolderRec \cup {None}]
           /\ command' \in [Run -> CommandRec \cup {None}]
           /\ \A r \in Run : RunIs(folder'[r], command'[r]) /\ Continues(folder[r], folder'[r])
<1>1. /\ folder \in [Run -> FolderRec \cup {None}] /\ command \in [Run -> CommandRec \cup {None}]
      /\ \A r \in Run : RunIs(folder[r], command[r])
    BY DEF DraftInv, Draft!TypeOK, FolderRec, CommandRec
<1>2. ASSUME NEW r \in Run PROVE Continues(folder[r], folder[r])
    <2>1. PICK f \in FolderRec \cup {None} : f = folder[r]
        BY <1>1
    <2>2. f \in FolderRec => Continues(f, f)
        BY <1>1, <2>1, StopMoves DEF Moved, RunIs
    <2>3. f = None => Continues(f, f)
        BY DEF Continues
    <2> QED
        BY <2>1, <2>2, <2>3
<1>3. CASE folder' = folder /\ command' = command
    BY <1>1, <1>2, <1>3
<1>4. ASSUME NEW r \in Run, NEW g, NEW d, Moved(folder[r], g, d),
             folder' = [folder EXCEPT ![r] = g], command' = [command EXCEPT ![r] = d]
      PROVE  /\ folder' \in [Run -> FolderRec \cup {None}]
             /\ command' \in [Run -> CommandRec \cup {None}]
             /\ \A q \in Run : RunIs(folder'[q], command'[q]) /\ Continues(folder[q], folder'[q])
    <2>1. g \in FolderRec \cup {None} /\ d \in CommandRec \cup {None} /\ RunIs(g, d)
          /\ Continues(folder[r], g)
        BY <1>4 DEF Moved
    <2> QED
        BY <1>1, <1>2, <1>4, <2>1
<1> QED
    BY <1>3, <1>4, SomeRunMoves

\* A file somebody edited stays edited while its package is there.
EditsStay ==
    \A p \in Target, t \in TemplateFile :
        (package[p] # None /\ package'[p] # None /\ package[p][t] = "edited")
            => package'[p][t] = "edited"

Tree == [TemplateFile -> Draft!FileState] \cup {None}

LEMMA TreesKept ==
    ASSUME DraftInv, package' = package,
           NEW r \in Run, \A q \in Run \ {r} : command'[q] = command[q],
           command'[r] = None \/ command'[r].at \notin {"copying", "filling"}
    PROVE  package' \in [Target -> Tree] /\ CopiesStand' /\ EditsStay
BY DEF DraftInv, Draft!TypeOK, Tree, CopiesStand, EditsStay

LEMMA StepKeepsTrees ==
    ASSUME DraftInv, NEW r \in Run, Draft!Step(r)
    PROVE  package' \in [Target -> Tree] /\ CopiesStand' /\ EditsStay
<1>1. /\ package \in [Target -> Tree] /\ command \in [Run -> CommandRec \cup {None}]
      /\ command[r] # None /\ CopiesStand
    BY DEF DraftInv, Draft!TypeOK, CommandRec, Tree, Draft!Step
<1>2. command[r] \in CommandRec /\ command[r].manifest.package \in Target
    BY <1>1, ManifestIs DEF CommandRec
<1>3. None \notin [TemplateFile -> Draft!FileState]
    BY AuthoringAssumption DEF Draft!ErpDraftAssumption
<1>4. CASE \/ Draft!Resolve(r) \/ Draft!Generated(r) \/ Draft!BeginValidation(r)
           \/ Draft!WriteReport(r) \/ Draft!Finish(r) \/ \E o \in Outcome : Draft!Validate(r, o)
    <2>1. package' = package
        BY <1>4 DEF Draft!Resolve, Draft!Generated, Draft!BeginValidation, Draft!WriteReport,
                    Draft!Finish, Draft!Validate
    <2>2. \A q \in Run \ {r} : command'[q] = command[q]
        BY <1>1, <1>4 DEF Draft!Resolve, Draft!Generated, Draft!BeginValidation,
                          Draft!WriteReport, Draft!Finish, Draft!Validate, Draft!Goes
    <2>3. command'[r] = None \/ command'[r].at \notin {"copying", "filling"}
        <3>1. CASE Draft!Resolve(r)
            BY <1>1, <1>2, <3>1 DEF Draft!Resolve, Draft!Goes, CommandRec
        <3>2. CASE Draft!Generated(r)
            BY <1>1, <1>2, <3>2 DEF Draft!Generated, CommandRec
        <3>3. CASE Draft!BeginValidation(r)
            BY <1>1, <1>2, <3>3 DEF Draft!BeginValidation, CommandRec
        <3>4. CASE Draft!WriteReport(r)
            BY <1>1, <1>2, <3>4 DEF Draft!WriteReport, Draft!Goes, CommandRec
        <3>5. CASE Draft!Finish(r)
            BY <1>1, <3>5 DEF Draft!Finish
        <3>6. ASSUME NEW o \in Outcome, Draft!Validate(r, o)
              PROVE  command'[r].at = "report"
            BY <1>1, <1>2, <3>6 DEF Draft!Validate, CommandRec
        <3> QED
            BY <1>4, <3>1, <3>2, <3>3, <3>4, <3>5, <3>6
    <2> QED
        BY <2>1, <2>2, <2>3, TreesKept
<1>5. CASE Draft!BeginCopy(r)
    <2>1. PICK p \in Target : p = command[r].manifest.package
        BY <1>2
    <2>2. CASE package[p] = None
        <3>1. /\ package' = [package EXCEPT ![p] = Draft!Missing]
              /\ command' = [command EXCEPT ![r].at = "copying"]
            BY <1>5, <2>1, <2>2 DEF Draft!BeginCopy, Draft!CanCopy, Draft!Goes
        <3>2. Draft!Missing \in [TemplateFile -> Draft!FileState]
            BY DEF Draft!Missing, Draft!FileState
        <3>3. package' \in [Target -> Tree] /\ \A q \in Target : package'[q] # None \/ package'[q] = package[q]
            BY <1>1, <1>3, <3>1, <3>2 DEF Tree
        <3>4. /\ command'[r].manifest = command[r].manifest
              /\ \A q \in Run \ {r} : command'[q] = command[q]
            BY <1>1, <1>2, <3>1 DEF CommandRec
        <3>5. package'[p] # None
            BY <1>1, <1>3, <3>1, <3>2
        <3>6. CopiesStand'
            <4>1. \A q \in Run : command[q] # None => command[q].manifest.package \in Target
                BY <1>1, ManifestIs DEF CommandRec
            <4> QED
                BY <1>1, <2>1, <3>3, <3>4, <3>5, <4>1 DEF CopiesStand
        <3>7. EditsStay
            BY <1>1, <2>2, <3>1 DEF EditsStay
        <3> QED
            BY <3>3, <3>6, <3>7
    <2>3. CASE package[p] # None
        <3>1. command' = [command EXCEPT ![r] = None] /\ package' = package
            BY <1>5, <2>1, <2>3 DEF Draft!BeginCopy, Draft!CanCopy
        <3> QED
            BY <1>1, <3>1, TreesKept
    <2> QED
        BY <2>2, <2>3
<1>6. CASE Draft!CopyDone(r)
    <2>1. /\ package' = package /\ command[r].at = "copying"
          /\ command' = [command EXCEPT ![r].at = "filling"]
        BY <1>6 DEF Draft!CopyDone, Draft!Goes
    <2>2. /\ command'[r].manifest = command[r].manifest
          /\ \A q \in Run \ {r} : command'[q] = command[q]
        BY <1>1, <1>2, <2>1 DEF CommandRec
    <2>3. package[command[r].manifest.package] # None
        BY <1>1, <2>1 DEF CopiesStand
    <2>4. CopiesStand'
        BY <1>1, <2>1, <2>2, <2>3 DEF CopiesStand
    <2> QED
        BY <1>1, <2>1, <2>4 DEF EditsStay
<1>7. ASSUME NEW t \in TemplateFile, Draft!CopyFile(r, t) \/ Draft!FillFile(r, t)
      PROVE  package' \in [Target -> Tree] /\ CopiesStand' /\ EditsStay
    <2>1. PICK p \in Target : p = command[r].manifest.package
        BY <1>2
    <2>2. package[p] # None
        BY <1>1, <1>7, <2>1 DEF CopiesStand, Draft!CopyFile, Draft!FillFile
    <2>3. PICK old, new : /\ old \in {"missing", "template"} /\ new \in {"template", "filled"}
                          /\ package[p][t] = old /\ package' = [package EXCEPT ![p][t] = new]
                          /\ command' = command
        BY <1>7, <2>1 DEF Draft!CopyFile, Draft!FillFile, Draft!Becomes
    <2>4. package[p] \in [TemplateFile -> Draft!FileState] /\ new \in Draft!FileState
        BY <1>1, <2>2, <2>3 DEF Tree, Draft!FileState
    <2>5. PICK tree : tree = [package[p] EXCEPT ![t] = new]
        OBVIOUS
    <2>6. tree \in [TemplateFile -> Draft!FileState] /\ package' = [package EXCEPT ![p] = tree]
        BY <2>3, <2>4, <2>5
    <2>7. package' \in [Target -> Tree] /\ \A q \in Target : package[q] # None => package'[q] # None
        BY <1>1, <1>3, <2>6 DEF Tree
    <2>8. CopiesStand'
        <3>1. \A q \in Run : command[q] # None => command[q].manifest.package \in Target
            BY <1>1, ManifestIs DEF CommandRec
        <3> QED
            BY <1>1, <2>3, <2>7, <3>1 DEF CopiesStand
    <2>9. EditsStay
        BY <1>1, <2>3, <2>4, <2>5, <2>6 DEF EditsStay
    <2> QED
        BY <2>7, <2>8, <2>9
<1> QED
    BY <1>4, <1>5, <1>6, <1>7 DEF Draft!Step

LEMMA TreesStand ==
    ASSUME DraftInv, [Draft!Next]_(Draft!vars)
    PROVE  package' \in [Target -> Tree] /\ CopiesStand' /\ EditsStay
<1>1. /\ package \in [Target -> Tree] /\ command \in [Run -> CommandRec \cup {None}]
      /\ CopiesStand /\ None \notin [TemplateFile -> Draft!FileState]
    BY AuthoringAssumption DEF DraftInv, Draft!TypeOK, CommandRec, Tree, Draft!ErpDraftAssumption
<1>2. CASE UNCHANGED Draft!vars
    BY <1>1, <1>2 DEF Draft!vars, CopiesStand, EditsStay
<1>3. ASSUME NEW r \in Run, NEW skip \in BOOLEAN,
             \/ Draft!Resume(r, skip) \/ Draft!Stop(r)
             \/ \E i \in Input, s \in Spelling : Draft!Create(r, i, s, skip)
      PROVE  package' \in [Target -> Tree] /\ CopiesStand' /\ EditsStay
    <2>1. /\ package' = package /\ \A q \in Run \ {r} : command'[q] = command[q]
          /\ command'[r] = None \/ command'[r].at \in {"resolve", "copy", "validate"}
        BY <1>1, <1>3 DEF Draft!Resume, Draft!Stop, Draft!Create, Draft!Starts
    <2> QED
        BY <2>1, TreesKept
<1>4. ASSUME NEW p \in Target, NEW new, Draft!Author(p, new),
             new \in Tree, new # None => \A t \in TemplateFile : package[p][t] = "edited" => new[t] = "edited"
      PROVE  package' \in [Target -> Tree] /\ CopiesStand' /\ EditsStay
    <2>1. /\ package' = [package EXCEPT ![p] = new] /\ command' = command /\ ~Draft!Copying(p)
        BY <1>4 DEF Draft!Author
    <2>2. CopiesStand'
        BY <1>1, <2>1 DEF CopiesStand, Draft!Copying
    <2>3. EditsStay
        BY <1>1, <1>4, <2>1 DEF EditsStay
    <2> QED
        BY <1>1, <1>4, <2>1, <2>2, <2>3
<1>5. ASSUME NEW p \in Target, Draft!Discard(p)
      PROVE  package' \in [Target -> Tree] /\ CopiesStand' /\ EditsStay
    BY <1>4, <1>5 DEF Draft!Discard, Tree
<1>6. ASSUME NEW p \in Target, NEW t \in TemplateFile, Draft!Edit(p, t)
      PROVE  package' \in [Target -> Tree] /\ CopiesStand' /\ EditsStay
    <2>1. PICK new : new = [package[p] EXCEPT ![t] = "edited"]
        OBVIOUS
    <2>2. package[p] # None /\ Draft!Author(p, new)
        BY <1>6, <2>1 DEF Draft!Edit
    <2>3. package[p] \in [TemplateFile -> Draft!FileState]
        BY <1>1, <2>2 DEF Tree
    <2>4. new \in Tree /\ \A u \in TemplateFile : package[p][u] = "edited" => new[u] = "edited"
        BY <2>1, <2>3 DEF Tree, Draft!FileState
    <2> QED
        BY <1>4, <2>2, <2>4
<1> QED
    BY <1>2, <1>3, <1>5, <1>6, StepKeepsTrees DEF Draft!Next

LEMMA DraftStarts == Draft!Init => DraftInv
BY DEF Draft!Init, DraftInv, Draft!TypeOK, RunIs, SavedIs, CopiesStand

LEMMA DraftNext == DraftInv /\ [Draft!Next]_(Draft!vars) => DraftInv'
<1> SUFFICES ASSUME DraftInv, [Draft!Next]_(Draft!vars) PROVE DraftInv'
    OBVIOUS
<1>1. Draft!TypeOK'
    BY RunsStayInOrder, TreesStand DEF Draft!TypeOK, FolderRec, CommandRec, Tree
<1> QED
    BY <1>1, RunsStayInOrder, TreesStand DEF DraftInv

\* The folders, packages and commands are what they are taken to be, and each
\* command and the folder it works on are related as its point of work says.
THEOREM DraftInvariance == BothSpec => []DraftInv
BY DraftStarts, DraftNext, PartsRun, PTL DEF Draft!Spec

\* What is saved of a run never contradicts its report files or the agent's
\* report, wherever commands stopped, for any runs, packages and validators
\* (workflow.py:221-275).
THEOREM RecordsAlwaysAgree == BothSpec => []RecordsAgree
<1>1. ASSUME DraftInv PROVE RecordsAgree
    <2>1. ASSUME NEW r \in Run, folder[r] # None, folder[r].manifest # None
          PROVE  LET m == folder[r].manifest
                 IN  /\ m.reports = SubSeq(folder[r].files, 1, Len(m.reports))
                     /\ m.validate = "completed" => folder[r].report = "passed"
                     /\ m.validate = "blocked" => folder[r].report = "failed"
                     /\ m.validate \in {"completed", "blocked"} =>
                           /\ m.reports # <<>>
                           /\ Draft!Ok(Draft!Last(m.reports)) = (m.validate = "completed")
                     /\ (m.validate = "pending" => m.reports = <<>> /\ folder[r].report = None)
        <3>1. Stands(folder[r].manifest, folder[r])
            BY <1>1, <2>1 DEF DraftInv, RunIs, SavedIs
        <3>2. folder[r].files \in Seq(Outcome) /\ folder[r].manifest.reports \in Seq(Outcome)
            BY <1>1, <2>1, ManifestIs DEF DraftInv, Draft!TypeOK, FolderRec
        <3>3. PICK a \in Seq(Outcome), b \in Seq(Outcome) :
                a = folder[r].manifest.reports /\ b = folder[r].files
            BY <3>2
        <3>4. a = SubSeq(b, 1, Len(a))
            BY <3>1, <3>3 DEF Stands, Prefix
        <3> QED
            BY <3>1, <3>3, <3>4 DEF Stands, Judged
    <2> QED
        BY <2>1 DEF RecordsAgree, Draft!RecordsAgree
<1> QED
    BY <1>1, DraftInvariance, PTL

\* No command undoes earlier work, for any runs of any packages at once
\* (scaffold.py:28, workflow.py:82-85).
THEOREM WorkAlwaysSurvives == BothSpec => WorkSurvives
<1>1. ASSUME DraftInv, [Draft!Next]_(Draft!vars)
      PROVE  /\ \A r \in Run : folder[r] # None /\ folder[r].manifest # None =>
                    LET listed == folder[r].manifest.reports
                    IN  /\ Draft!IsPrefix(listed, folder'[r].manifest.reports)
                        /\ Draft!IsPrefix(listed, folder'[r].files)
             /\ \A p \in Target, f \in TemplateFile :
                    (/\ package[p] # None /\ package'[p] # None
                     /\ package[p][f] = "edited") => package'[p][f] = "edited"
    <2>1. ASSUME NEW a, NEW b, Prefix(a, b) PROVE Draft!IsPrefix(a, b)
        BY <2>1 DEF Prefix, Draft!IsPrefix
    <2>2. \A r \in Run : Continues(folder[r], folder'[r])
        BY <1>1, RunsStayInOrder
    <2>3. EditsStay
        BY <1>1, TreesStand
    <2> QED
        BY <2>1, <2>2, <2>3 DEF Continues, EditsStay
<1> QED
    BY <1>1, DraftInvariance, PartsRun, PTL DEF WorkSurvives, Draft!WorkSurvives, Draft!Spec
=============================================================================
