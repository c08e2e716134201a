------------------------- MODULE Housekeeping_proofs -------------------------
(***************************************************************************)
(* Proofs about the three parts of Housekeeping, for any constants:        *)
(* BackgroundJobs, AccountErasure (Account) and BundleLifecycle (Bundles). *)
(* A behaviour of the whole is one of each part (PartsRun), so each is     *)
(* reasoned about alone.                                                   *)
(***************************************************************************)
EXTENDS Housekeeping, FiniteSetTheorems, SequenceTheorems, TLAPS

\* While one part moves the others stutter.
LEMMA PartsRun ==
    AllSpec => /\ Init /\ [][Next]_vars
               /\ Account!Init /\ [][Account!Next]_(Account!vars)
               /\ Bundles!Init /\ [][Bundles!Next]_(Bundles!vars)
<1>1. AllInit => Init /\ Account!Init /\ Bundles!Init
  BY DEF AllInit
<1>2. [AllNext]_<<part, vars, account, bundles>>
        => /\ [Next]_vars /\ [Account!Next]_(Account!vars) /\ [Bundles!Next]_(Bundles!vars)
  BY DEF AllNext, account, bundles, Account!vars, Bundles!vars
<1> QED BY <1>1, <1>2, PTL DEF AllSpec

----------------------------------------------------------------------------
(* BackgroundJobs.                                                         *)


Measure == [branch : Branch, n : Nat, node : Nat]
JobRow == [state : {"none", "waiting", "active", "completed", "failed"},
           kind : {None, "rollup", "render"}, cohort : Cohort \cup {None},
           from : Nat, to : Nat, live : BOOLEAN]
StatRow == [branch : Branch, cohort : Cohort \cup {None}, from : Nat, to : Nat,
            n : Nat, percent : Int \cup {None}]
ProcRow == [job : Job \cup {None},
            pc : {"idle", "start", "next", "write", "stamp", "announce", "done"},
            todo : SUBSET Measure,
            row : {None} \cup Nat \cup [new : Measure] \cup [new : Measure, old : Nat]]

Typed ==
    /\ now \in Nat /\ IsFiniteSet(Ever)
    /\ schedule \in JobRow \cup {None}
    /\ job \in [Job -> JobRow] /\ proc \in [Worker -> ProcRow]
    /\ stat \in Seq(StatRow)
    /\ slugs \in Nat

\* A worker that is busy has a job of its own, which nobody else touches.
Holding ==
    /\ \A w \in Worker : proc[w].pc # "idle" =>
         proc[w].job \in Job /\ job[proc[w].job].state = "active"
    /\ \A v, w \in Worker :
         proc[v].pc # "idle" /\ proc[w].pc # "idle" /\ proc[v].job = proc[w].job => v = w

\* A count a worker has read is one the table still has.
Measured(a, from, to) ==
    /\ a.n <= Count(Ever, a.branch, from, to)
    /\ a.node <= NodeCount(Ever, from, to)
Counts(w) ==
    /\ proc[w].pc \in {"next", "write"} =>
         \A a \in proc[w].todo : Measured(a, On(w).from, On(w).to)
    /\ proc[w].pc = "write" =>
         /\ proc[w].row \in [new : Measure] \cup [new : Measure, old : Nat]
         /\ Measured(proc[w].row.new, On(w).from, On(w).to)
         /\ "old" \in DOMAIN proc[w].row =>
              proc[w].row.old \in Existing(w, proc[w].row.new.branch)

\* What is published of a row is still true of its window.
Large(s) == s.percent # None =>
    /\ Count(Ever, s.branch, s.from, s.to) >= s.n /\ s.n >= BranchMinN
    /\ NodeCount(Ever, s.from, s.to) >= NodeMinN

Counting == \A w \in Worker : Counts(w)
StatInv == Typed /\ Holding /\ Counting /\ PublishedIsLarge

----------------------------------------------------------------------------
\* Counts are numbers, and do not fall while rows are only added.
Within(T, B, from, to) == {x \in T : x.branch \in B /\ from <= x.at /\ x.at < to}

LEMMA SubsetCount ==
    ASSUME NEW T, NEW U, IsFiniteSet(U), T \subseteq U, NEW B, NEW from, NEW to
    PROVE  /\ Cardinality(Within(T, B, from, to)) \in Nat
           /\ Cardinality(Within(U, B, from, to)) \in Nat
           /\ Cardinality(Within(T, B, from, to)) <= Cardinality(Within(U, B, from, to))
<1> DEFINE t == Within(T, B, from, to)
           u == Within(U, B, from, to)
<1>1. u \subseteq U /\ t \subseteq u
  BY DEF Within
<1> HIDE DEF t, u
<1>2. IsFiniteSet(u)
  BY <1>1, FS_Subset
<1>3. IsFiniteSet(t) /\ Cardinality(t) <= Cardinality(u)
  BY <1>1, <1>2, FS_Subset
<1>4. Cardinality(t) \in Nat /\ Cardinality(u) \in Nat
  BY <1>2, <1>3, FS_CardinalityType
<1> QED BY <1>3, <1>4 DEF t, u

LEMMA CountTypes ==
    ASSUME NEW T, IsFiniteSet(T), NEW b, NEW from, NEW to
    PROVE  Count(T, b, from, to) \in Nat /\ NodeCount(T, from, to) \in Nat
<1>1. /\ Count(T, b, from, to) = Cardinality(Within(T, {b}, from, to))
      /\ NodeCount(T, from, to) = Cardinality(Within(T, Branch, from, to))
  BY DEF Count, NodeCount, Taken, Within
<1> QED BY <1>1, SubsetCount

\* What was counted once is there for good.
LEMMA MeasuredStays ==
    ASSUME IsFiniteSet(Ever)', Ever \subseteq Ever',
           NEW b, NEW n \in Nat, NEW m \in Nat, NEW from, NEW to
    PROVE  /\ n <= Count(Ever, b, from, to) => n <= Count(Ever, b, from, to)'
           /\ m <= NodeCount(Ever, from, to) => m <= NodeCount(Ever, from, to)'
<1>1. /\ Count(Ever, b, from, to) = Cardinality(Within(Ever, {b}, from, to))
      /\ NodeCount(Ever, from, to) = Cardinality(Within(Ever, Branch, from, to))
      /\ Count(Ever, b, from, to)' = Cardinality(Within(Ever', {b}, from, to))
      /\ NodeCount(Ever, from, to)' = Cardinality(Within(Ever', Branch, from, to))
  BY DEF Count, NodeCount, Taken, Within
<1>2. ASSUME NEW B
      PROVE  /\ Cardinality(Within(Ever, B, from, to)) \in Nat
             /\ Cardinality(Within(Ever', B, from, to)) \in Nat
             /\ Cardinality(Within(Ever, B, from, to))
                  <= Cardinality(Within(Ever', B, from, to))
  BY SubsetCount
<1> QED BY <1>1, <1>2

\* A percentage stands for enough.
LEMMA PercentNeeds ==
    ASSUME NEW n \in Nat, NEW node \in Nat
    PROVE  /\ Percent(n, node) \in Int \cup {None}
           /\ Percent(n, node) # None => n >= BranchMinN /\ node >= NodeMinN
<1>1. CASE node < NodeMinN \/ n < BranchMinN \/ node = 0
  BY <1>1 DEF Percent
<1>2. CASE ~(node < NodeMinN \/ n < BranchMinN \/ node = 0)
  <2>1. (40 * n + node) \div (2 * node) \in Int
    <3>1. 40 * n + node \in Int /\ 2 * node \in Int /\ 2 * node > 0
      BY <1>2
    <3> QED BY <3>1
  <2>2. 5 * ((40 * n + node) \div (2 * node)) \in Int
    BY <2>1
  <2>3. n >= BranchMinN /\ node >= NodeMinN
    BY <1>2, JobsAssumption
  <2> QED BY <1>2, <2>2, <2>3 DEF Percent
<1> QED BY <1>1, <1>2

LEMMA AggregateMeasures ==
    ASSUME IsFiniteSet(Ever), NEW data \in JobRow
    PROVE  /\ Aggregate(data) \subseteq Measure
           /\ \A a \in Aggregate(data) : Measured(a, data.from, data.to)
<1> SUFFICES ASSUME NEW a \in Aggregate(data)
             PROVE  a \in Measure /\ Measured(a, data.from, data.to)
  OBVIOUS
<1>1. PICK b \in Branch : a = [branch |-> b, n |-> Count(traversal, b, data.from, data.to),
                               node |-> NodeCount(traversal, data.from, data.to)]
  BY DEF Aggregate
<1>2. \A B : /\ Cardinality(Within(traversal, B, data.from, data.to)) \in Nat
             /\ Cardinality(Within(traversal, B, data.from, data.to))
                  <= Cardinality(Within(Ever, B, data.from, data.to))
  BY SubsetCount DEF Ever
<1>3. \A T : /\ Count(T, b, data.from, data.to) = Cardinality(Within(T, {b}, data.from, data.to))
             /\ NodeCount(T, data.from, data.to) = Cardinality(Within(T, Branch, data.from, data.to))
  BY DEF Count, NodeCount, Taken, Within
<1> QED BY <1>1, <1>2, <1>3 DEF Measure, Measured

----------------------------------------------------------------------------
\* What a worker has in hand stays true while others work.
LEMMA CountsStay ==
    ASSUME Typed, IsFiniteSet(Ever)', Ever \subseteq Ever',
           NEW w \in Worker, Counts(w), proc'[w] = proc[w],
           proc[w].pc # "idle" =>
             /\ job'[proc[w].job].from = job[proc[w].job].from
             /\ job'[proc[w].job].to = job[proc[w].job].to
             /\ job'[proc[w].job].cohort = job[proc[w].job].cohort,
           \A i \in DOMAIN stat : /\ i \in DOMAIN stat'
                                  /\ stat'[i].branch = stat[i].branch
                                  /\ stat'[i].cohort = stat[i].cohort
                                  /\ stat'[i].from = stat[i].from
    PROVE  Counts(w)'
<1> SUFFICES ASSUME proc[w].pc \in {"next", "write"} PROVE Counts(w)'
  BY DEF Counts
<1>1. PICK from, to, cohort : /\ from = On(w).from /\ from = On(w)'.from
                              /\ to = On(w).to /\ to = On(w)'.to
                              /\ cohort = On(w).cohort /\ cohort = On(w)'.cohort
  BY DEF On
<1>2. ASSUME NEW a \in Measure, Measured(a, from, to)
      PROVE  Measured(a, from, to)'
  <2>1. a.n \in Nat /\ a.node \in Nat
    BY DEF Measure
  <2>2. /\ a.n <= Count(Ever, a.branch, from, to) => a.n <= Count(Ever, a.branch, from, to)'
        /\ a.node <= NodeCount(Ever, from, to) => a.node <= NodeCount(Ever, from, to)'
    BY <2>1, MeasuredStays
  <2> QED BY <1>2, <2>2 DEF Measured
<1>3. proc[w].todo \subseteq Measure
  BY DEF Typed, ProcRow
<1>4. \A a \in proc'[w].todo : Measured(a, On(w).from, On(w).to)'
  <2> SUFFICES ASSUME NEW a \in proc[w].todo PROVE Measured(a, from, to)'
    BY <1>1 DEF Measured
  <2>1. a \in Measure /\ Measured(a, from, to)
    BY <1>1, <1>3 DEF Counts
  <2> QED BY <1>2, <2>1
<1>5. CASE proc[w].pc = "write"
  <2>1. PICK a \in Measure : a = proc[w].row.new
    BY <1>5 DEF Counts
  <2>2. Measured(a, from, to)'
    BY <1>1, <1>2, <1>5, <2>1 DEF Counts
  <2>3. Measured(proc[w].row.new, On(w).from, On(w).to)'
    BY <1>1, <2>1, <2>2 DEF Measured
  <2>4. ASSUME "old" \in DOMAIN proc[w].row
        PROVE  proc'[w].row.old \in Existing(w, proc[w].row.new.branch)'
    <3>1. proc[w].row.old \in Existing(w, proc[w].row.new.branch)
      BY <1>5, <2>4 DEF Counts
    <3> QED BY <1>1, <3>1 DEF Existing
  <2> QED BY <1>4, <1>5, <2>3, <2>4 DEF Counts
<1>6. CASE proc[w].pc # "write"
  BY <1>4, <1>6 DEF Counts
<1> QED BY <1>5, <1>6

LEMMA LargeStays ==
    ASSUME Typed, IsFiniteSet(Ever)', Ever \subseteq Ever', NEW s \in StatRow, Large(s)
    PROVE  Large(s)'
<1> SUFFICES ASSUME s.percent # None PROVE Large(s)'
  BY DEF Large
<1>1. s.n \in Nat /\ NodeMinN \in Nat
  BY JobsAssumption DEF StatRow
<1>2. PICK b, from, to : b = s.branch /\ from = s.from /\ to = s.to
  OBVIOUS
<1>3. Count(Ever, b, from, to) \in Nat /\ NodeCount(Ever, from, to) \in Nat
  BY CountTypes DEF Typed
<1>4. s.n <= Count(Ever, b, from, to) /\ NodeMinN <= NodeCount(Ever, from, to) /\ s.n >= BranchMinN
  BY <1>1, <1>2, <1>3 DEF Large
<1>5. s.n <= Count(Ever, b, from, to)' /\ NodeMinN <= NodeCount(Ever, from, to)'
  BY <1>1, <1>4, MeasuredStays
<1> QED BY <1>1, <1>2, <1>4, <1>5 DEF Large

\* Adding a job leaves those at work alone.
LEMMA ActiveJobsStay ==
    ASSUME StatInv, \/ Tick \/ Install \/ \E b \in Branch \cup {NoBranch} : Traverse(b)
                    \/ (\E own \in SUBSET traversal : Erase(own)) \/ \E j \in Job : Fire(j) \/ Ask(j)
    PROVE  /\ job' \in [Job -> JobRow]
           /\ \A j \in Job : job[j].state = "active" => job'[j] = job[j]
<1> USE JobsAssumption
<1>1. job \in [Job -> JobRow] /\ schedule \in JobRow \cup {None}
  BY DEF StatInv, Typed
<1>2. ASSUME NEW j \in Job, NEW data \in JobRow, Enqueue(j, data)
      PROVE  /\ job' \in [Job -> JobRow]
             /\ \A k \in Job : job[k].state = "active" => job'[k] = job[k]
  <2>1. [data EXCEPT !.state = "waiting"] \in JobRow
    BY DEF JobRow
  <2> QED BY <1>1, <1>2, <2>1 DEF Enqueue
<1>3. CASE \E j \in Job : Fire(j)
  <2>1. PICK j \in Job : Enqueue(j, schedule) /\ schedule # None
    BY <1>3 DEF Fire
  <2> QED BY <1>1, <1>2, <2>1
<1>4. CASE \E j \in Job : Ask(j)
  <2>1. PICK j \in Job : Ask(j)
    BY <1>4
  <2>2. CASE \E cohort \in Cohort, x \in AdminWindow : Enqueue(j, Rollup(cohort, x[1], x[2], TRUE))
    <3>1. PICK cohort \in Cohort, x \in AdminWindow : Enqueue(j, Rollup(cohort, x[1], x[2], TRUE))
      BY <2>2
    <3>2. x[1] \in Nat /\ x[2] \in Nat
      OBVIOUS
    <3>3. Rollup(cohort, x[1], x[2], TRUE) \in JobRow
      BY <3>2 DEF Rollup, Slot, JobRow
    <3> QED BY <1>2, <3>1, <3>3
  <2>3. CASE Enqueue(j, [Slot EXCEPT !.kind = "render"])
    <3>1. [Slot EXCEPT !.kind = "render"] \in JobRow
      BY DEF Slot, JobRow
    <3> QED BY <1>2, <2>3, <3>1
  <2> QED BY <2>1, <2>2, <2>3 DEF Ask
<1>5. CASE UNCHANGED job
  BY <1>1, <1>5
<1> QED BY <1>3, <1>4, <1>5 DEF Tick, Install, Erase, Traverse

\* Steps of learners, of the clock and of those who add jobs.
LEMMA OutsideKeeps ==
    ASSUME StatInv, \/ Tick \/ Install \/ \E b \in Branch \cup {NoBranch} : Traverse(b)
                    \/ (\E own \in SUBSET traversal : Erase(own)) \/ \E j \in Job : Fire(j) \/ Ask(j)
    PROVE  StatInv'
<1> USE JobsAssumption
<1>1. now' \in Nat /\ Ever \subseteq Ever' /\ IsFiniteSet(Ever)'
  <2>1. IsFiniteSet(Ever) /\ now \in Nat
    BY DEF StatInv, Typed
  <2>2. CASE \E b \in Branch \cup {NoBranch} : Traverse(b)
    <3>1. PICK x : traversal' = traversal \cup {x} /\ now' = now /\ erased' = erased
      BY <2>2 DEF Traverse
    <3>2. Ever' = Ever \cup {x}
      BY <3>1 DEF Ever
    <3> QED BY <2>1, <3>1, <3>2, FS_AddElement
  <2>3. CASE \E own \in SUBSET traversal : Erase(own)
    <3>1. Ever' = Ever /\ now' = now
      BY <2>3 DEF Erase, Ever
    <3> QED BY <2>1, <3>1
  <2>4. CASE Tick \/ Install \/ \E j \in Job : Fire(j) \/ Ask(j)
    <3>1. Ever' = Ever /\ now' \in {now, now + 1}
      BY <2>4 DEF Tick, Install, Fire, Ask, Ever
    <3> QED BY <2>1, <3>1
  <2> QED BY <2>2, <2>3, <2>4
<1>2. UNCHANGED <<proc, stat, slugs>>
  BY DEF Tick, Install, Erase, Traverse, Fire, Ask, db
<1>3. schedule' \in JobRow \cup {None}
  <2>1. schedule \in JobRow \cup {None} /\ now \in Nat
    BY DEF StatInv, Typed
  <2>2. CASE Install
    <3>1. PICK cohort \in Cohort :
             schedule' = Rollup(cohort, IF now > Window THEN now - Window ELSE 0, now, FALSE)
      BY <2>2 DEF Install
    <3>2. (IF now > Window THEN now - Window ELSE 0) \in Nat
      BY <2>1
    <3> QED BY <2>1, <3>1, <3>2 DEF Rollup, Slot, JobRow
  <2>3. CASE ~Install
    BY <2>1, <2>3 DEF Tick, Erase, Traverse, Fire, Ask
  <2> QED BY <2>2, <2>3
<1>4. /\ job' \in [Job -> JobRow]
      /\ \A j \in Job : job[j].state = "active" => job'[j] = job[j]
  BY ActiveJobsStay
<1>5. Typed'
  BY <1>1, <1>2, <1>3, <1>4 DEF StatInv, Typed
<1>6. Holding'
  BY <1>2, <1>4 DEF StatInv, Holding
<1>7. Counting'
  <2> SUFFICES ASSUME NEW w \in Worker PROVE Counts(w)'
    BY DEF Counting
  <2>1. proc[w].pc # "idle" => job'[proc[w].job] = job[proc[w].job]
    BY <1>4 DEF StatInv, Holding
  <2> QED BY <1>1, <1>2, <2>1, CountsStay DEF StatInv, Counting
<1>8. PublishedIsLarge'
  <2> SUFFICES ASSUME NEW i \in DOMAIN stat PROVE Large(stat[i])'
    BY <1>2 DEF PublishedIsLarge, Large
  <2>1. PICK s \in StatRow : s = stat[i] /\ s = stat'[i]
    BY <1>2 DEF StatInv, Typed
  <2>2. Large(s)
    BY <2>1 DEF StatInv, PublishedIsLarge, Large
  <2>3. Large(s)'
    BY <1>1, <2>2, LargeStays DEF StatInv
  <2> QED BY <2>1, <2>3 DEF Large
<1> QED BY <1>5, <1>6, <1>7, <1>8 DEF StatInv

\* A worker takes a waiting job; no other worker has it.
LEMMA TakeKeeps == ASSUME StatInv, NEW w \in Worker, NEW j \in Job, Take(w, j) PROVE StatInv'
<1> USE JobsAssumption
<1>1. /\ proc[w].pc = "idle" /\ job[j].state = "waiting"
      /\ job' = [job EXCEPT ![j].state = "active"]
      /\ proc' = [proc EXCEPT ![w] = [Idle EXCEPT !.job = j, !.pc = "start"]]
      /\ UNCHANGED <<now, traversal, erased, schedule, stat, slugs>>
  BY DEF Take, db
<1>2. job \in [Job -> JobRow] /\ proc \in [Worker -> ProcRow] /\ IsFiniteSet(Ever)
  BY DEF StatInv, Typed
<1>3. /\ proc'[w].pc = "start" /\ proc'[w].job = j
      /\ \A v \in Worker \ {w} : proc'[v] = proc[v]
      /\ job'[j].state = "active" /\ \A k \in Job \ {j} : job'[k] = job[k]
  BY <1>1, <1>2 DEF Idle
<1>4. Typed'
  <2>1. [Idle EXCEPT !.job = j, !.pc = "start"] \in ProcRow
    BY DEF Idle, ProcRow
  <2>2. [job[j] EXCEPT !.state = "active"] \in JobRow
    BY <1>2 DEF JobRow
  <2>3. proc' \in [Worker -> ProcRow] /\ job' \in [Job -> JobRow]
    BY <1>1, <1>2, <2>1, <2>2
  <2> QED BY <1>1, <2>3 DEF StatInv, Typed, Ever
<1>5. \A v \in Worker \ {w} : proc[v].pc # "idle" => proc[v].job # j
  BY <1>1 DEF StatInv, Holding
<1>6. Holding'
  BY <1>3, <1>5 DEF StatInv, Holding
<1>7. Counting'
  <2> SUFFICES ASSUME NEW v \in Worker PROVE Counts(v)'
    BY DEF Counting
  <2>1. CASE v = w
    BY <1>3, <2>1 DEF Counts
  <2>2. CASE v # w
    <3>1. proc'[v] = proc[v] /\ (proc[v].pc # "idle" => job'[proc[v].job] = job[proc[v].job])
      BY <1>3, <1>5, <2>2 DEF StatInv, Holding
    <3> QED BY <1>1, <1>2, <3>1, CountsStay DEF StatInv, Counting, Ever
  <2> QED BY <2>1, <2>2
<1>8. PublishedIsLarge'
  BY <1>1 DEF StatInv, PublishedIsLarge, Count, NodeCount, Taken, Ever
<1> QED BY <1>4, <1>6, <1>7, <1>8 DEF StatInv

\* A worker's step that leaves its job alone and the table as it is.
LEMMA StepKeeps ==
    ASSUME StatInv, NEW w \in Worker, proc[w].pc # "idle", NEW moved,
           proc' = [proc EXCEPT ![w] = moved], moved \in ProcRow,
           moved.job = proc[w].job, moved.pc # "idle",
           UNCHANGED <<now, traversal, erased, schedule, job, stat>>, slugs' \in Nat,
           Counts(w)'
    PROVE  StatInv'
<1>1. job \in [Job -> JobRow] /\ proc \in [Worker -> ProcRow] /\ IsFiniteSet(Ever)
  BY DEF StatInv, Typed
<1>2. Typed'
  BY <1>1 DEF StatInv, Typed, Ever
<1>3. proc'[w] = moved /\ \A v \in Worker \ {w} : proc'[v] = proc[v]
  BY <1>1
<1>4. Holding'
  BY <1>3 DEF StatInv, Holding
<1>5. Counting'
  <2> SUFFICES ASSUME NEW v \in Worker \ {w} PROVE Counts(v)'
    BY DEF Counting
  <2> QED BY <1>1, <1>3, CountsStay DEF StatInv, Counting, Ever
<1>6. PublishedIsLarge'
  BY DEF StatInv, PublishedIsLarge, Count, NodeCount, Taken, Ever
<1> QED BY <1>2, <1>4, <1>5, <1>6 DEF StatInv

LEMMA ReadKeeps == ASSUME StatInv, NEW w \in Worker, ReadTraversals(w) PROVE StatInv'
<1>1. /\ proc[w].pc = "start" /\ On(w) = job[proc[w].job]
      /\ proc' = [proc EXCEPT ![w].pc = "next", ![w].todo = Aggregate(On(w))]
      /\ UNCHANGED <<now, traversal, erased, schedule, job, stat, slugs>>
  BY DEF ReadTraversals, db, On
<1>2. proc \in [Worker -> ProcRow] /\ IsFiniteSet(Ever) /\ slugs \in Nat
  BY DEF StatInv, Typed
<1>3. On(w) \in JobRow
  BY <1>1 DEF StatInv, Typed, Holding
<1>4. Aggregate(On(w)) \subseteq Measure
      /\ \A a \in Aggregate(On(w)) : Measured(a, On(w).from, On(w).to)
  BY <1>2, <1>3, AggregateMeasures
<1> DEFINE n == [proc[w] EXCEPT !.pc = "next", !.todo = Aggregate(On(w))]
<1>5. n \in ProcRow /\ n.job = proc[w].job /\ n.pc = "next" /\ n.todo = Aggregate(On(w))
  BY <1>2, <1>4 DEF ProcRow
<1>6. proc' = [proc EXCEPT ![w] = n] /\ proc'[w] = n
  BY <1>1, <1>2
<1> HIDE DEF n
<1>7. Counts(w)'
  <2>1. On(w)' = On(w)
    BY <1>1, <1>5, <1>6 DEF On
  <2>2. \A a \in n.todo : Measured(a, On(w).from, On(w).to)'
    BY <1>1, <1>4, <1>5, <2>1 DEF Measured, Count, NodeCount, Taken, Ever
  <2> QED BY <1>5, <1>6, <2>2 DEF Counts
<1> QED BY <1>1, <1>2, <1>5, <1>6, <1>7, StepKeeps

LEMMA FindKeeps ==
    ASSUME StatInv, NEW w \in Worker, NEW a \in proc[w].todo, FindStat(w, a)
    PROVE  StatInv'
<1>1. /\ proc[w].pc = "next"
      /\ UNCHANGED <<now, traversal, erased, schedule, job, stat, slugs>>
  BY DEF FindStat, db
<1>2. PICK work : /\ proc' = [proc EXCEPT ![w].pc = "write", ![w].row = work]
                 /\ \/ work = [new |-> a]
                    \/ \E i \in Existing(w, a.branch) : work = [new |-> a, old |-> i]
  BY DEF FindStat
<1>3. proc \in [Worker -> ProcRow] /\ slugs \in Nat /\ stat \in Seq(StatRow)
  BY DEF StatInv, Typed
<1>4. a \in Measure /\ proc[w].todo \subseteq Measure
  BY <1>3 DEF ProcRow
<1>5. /\ work \in [new : Measure] \cup [new : Measure, old : Nat]
      /\ work.new = a
      /\ "old" \in DOMAIN work => work.old \in Existing(w, a.branch)
  <2>1. CASE work = [new |-> a]
    BY <1>4, <2>1
  <2>2. CASE \E i \in Existing(w, a.branch) : work = [new |-> a, old |-> i]
    <3>1. PICK i \in Existing(w, a.branch) : work = [new |-> a, old |-> i]
      BY <2>2
    <3>2. i \in Nat
      BY <1>3 DEF Existing
    <3> QED BY <1>4, <3>1, <3>2
  <2> QED BY <1>2, <2>1, <2>2
<1> DEFINE n == [proc[w] EXCEPT !.pc = "write", !.row = work]
<1>6. n \in ProcRow /\ n.job = proc[w].job /\ n.pc = "write" /\ n.todo = proc[w].todo
      /\ n.row = work
  BY <1>3, <1>5 DEF ProcRow
<1>7. proc' = [proc EXCEPT ![w] = n] /\ proc'[w] = n
  BY <1>2, <1>3
<1> HIDE DEF n
<1>8. Counts(w)'
  <2>1. On(w)' = On(w)
    BY <1>1, <1>6, <1>7 DEF On
  <2>2. \A b \in proc[w].todo : Measured(b, On(w).from, On(w).to)'
    BY <1>1, <2>1 DEF StatInv, Counting, Counts, Measured, Count, NodeCount, Taken, Ever
  <2>3. "old" \in DOMAIN work => work.old \in Existing(w, work.new.branch)'
    BY <1>1, <1>5, <2>1 DEF Existing
  <2>4. Measured(work.new, On(w).from, On(w).to)'
    BY <1>5, <2>2
  <2> QED BY <1>5, <1>6, <1>7, <2>2, <2>3, <2>4 DEF Counts
<1> QED BY <1>1, <1>3, <1>6, <1>7, <1>8, StepKeeps

\* The row found is updated in place, or a row is added; either way what is
\* published of it was counted in its own window.
LEMMA WriteKeeps == ASSUME StatInv, NEW w \in Worker, WriteStat(w) PROVE StatInv'
<1>1. /\ proc[w].pc = "write"
      /\ proc' = [proc EXCEPT ![w].pc = "next", ![w].todo = Rest(w), ![w].row = None]
      /\ UNCHANGED <<now, traversal, erased, schedule, job, slugs>>
  BY DEF WriteStat
<1>2. /\ proc \in [Worker -> ProcRow] /\ job \in [Job -> JobRow] /\ stat \in Seq(StatRow)
      /\ IsFiniteSet(Ever) /\ On(w) \in JobRow /\ proc[w].job \in Job
  BY <1>1 DEF StatInv, Typed, Holding, On
<1>3. PICK a \in Measure : a = proc[w].row.new
  BY <1>1 DEF StatInv, Counting, Counts
<1>4. a.branch \in Branch /\ a.n \in Nat /\ a.node \in Nat
  BY DEF Measure
<1>5. PICK percent \in Int \cup {None} :
         /\ percent = Percent(a.n, a.node)
         /\ percent # None => a.n >= BranchMinN /\ a.node >= NodeMinN
  BY <1>4, PercentNeeds
<1>6. PICK from \in Nat, to \in Nat, cohort \in Cohort \cup {None} :
         from = On(w).from /\ to = On(w).to /\ cohort = On(w).cohort
  BY <1>2 DEF JobRow
<1>7. PICK fresh \in StatRow :
         /\ fresh.branch = a.branch /\ fresh.cohort = cohort /\ fresh.from = from
         /\ fresh.to = to /\ fresh.n = a.n /\ fresh.percent = percent
         /\ \/ \E i \in DOMAIN stat : /\ stat' = [stat EXCEPT ![i] = fresh]
                                      /\ stat[i].branch = a.branch /\ stat[i].cohort = cohort
                                      /\ stat[i].from = from
            \/ stat' = Append(stat, fresh)
  <2>1. CASE "old" \in DOMAIN proc[w].row
    <3>1. PICK i : i = proc[w].row.old
      OBVIOUS
    <3>2. /\ i \in DOMAIN stat /\ stat[i].branch = a.branch /\ stat[i].cohort = cohort
          /\ stat[i].from = from
      BY <1>1, <1>3, <1>6, <2>1, <3>1 DEF StatInv, Counting, Counts, Existing
    <3>3. stat' = [stat EXCEPT ![i] = [stat[i] EXCEPT !.n = a.n, !.percent = percent, !.to = to]]
      BY <1>3, <1>5, <1>6, <2>1, <3>1 DEF WriteStat
    <3>4. PICK r \in StatRow : r = stat[i]
      BY <1>2, <3>2
    <3> DEFINE e == [r EXCEPT !.n = a.n, !.percent = percent, !.to = to]
    <3>5. /\ e \in StatRow
          /\ e.branch = r.branch /\ e.cohort = r.cohort /\ e.from = r.from
          /\ e.to = to /\ e.n = a.n /\ e.percent = percent
      BY <1>4 DEF StatRow
    <3>6. stat' = [stat EXCEPT ![i] = e]
      BY <3>3, <3>4
    <3> HIDE DEF e
    <3> QED BY <3>2, <3>4, <3>5, <3>6
  <2>2. CASE "old" \notin DOMAIN proc[w].row
    <3> DEFINE e == [branch |-> a.branch, cohort |-> cohort, from |-> from, to |-> to,
                     n |-> a.n, percent |-> percent]
    <3>1. e \in StatRow
      BY <1>4 DEF StatRow
    <3>2. stat' = Append(stat, e)
      BY <1>3, <1>5, <1>6, <2>2 DEF WriteStat
    <3> QED BY <3>1, <3>2
  <2> QED BY <2>1, <2>2
<1>8. Large(fresh)
  <2>1. a.n <= Count(Ever, a.branch, from, to) /\ a.node <= NodeCount(Ever, from, to)
    BY <1>1, <1>3, <1>6 DEF StatInv, Counting, Counts, Measured
  <2>2. Count(Ever, a.branch, from, to) \in Nat /\ NodeCount(Ever, from, to) \in Nat
    BY <1>2, CountTypes
  <2>3. NodeMinN \in Nat /\ BranchMinN \in Nat
    BY JobsAssumption
  <2> QED BY <1>4, <1>5, <1>7, <2>1, <2>2, <2>3 DEF Large
<1>9. /\ stat' \in Seq(StatRow)
      /\ \A i \in DOMAIN stat : /\ i \in DOMAIN stat'
                                /\ stat'[i].branch = stat[i].branch
                                /\ stat'[i].cohort = stat[i].cohort
                                /\ stat'[i].from = stat[i].from
      /\ \A i \in DOMAIN stat' : stat'[i] = fresh \/ (i \in DOMAIN stat /\ stat'[i] = stat[i])
  <2>1. CASE \E i \in DOMAIN stat : /\ stat' = [stat EXCEPT ![i] = fresh]
                                    /\ stat[i].branch = a.branch /\ stat[i].cohort = cohort
                                    /\ stat[i].from = from
    <3>1. PICK i \in DOMAIN stat : /\ stat' = [stat EXCEPT ![i] = fresh]
                                   /\ stat[i].branch = a.branch /\ stat[i].cohort = cohort
                                   /\ stat[i].from = from
      BY <2>1
    <3>2. stat' \in Seq(StatRow) /\ DOMAIN stat' = DOMAIN stat
      BY <1>2, <1>7, <3>1
    <3>3. \A k \in DOMAIN stat : stat'[k] = IF k = i THEN fresh ELSE stat[k]
      BY <1>2, <3>1
    <3> QED BY <1>7, <3>1, <3>2, <3>3
  <2>2. CASE stat' = Append(stat, fresh)
    <3>1. /\ stat' \in Seq(StatRow) /\ DOMAIN stat = 1 .. Len(stat)
          /\ DOMAIN stat' = 1 .. Len(stat) + 1 /\ Len(stat) \in Nat
          /\ \A k \in 1 .. Len(stat) : stat'[k] = stat[k]
          /\ stat'[Len(stat) + 1] = fresh
      BY <1>2, <1>7, <2>2
    <3> QED BY <3>1
  <2> QED BY <1>7, <2>1, <2>2
<1> DEFINE n == [proc[w] EXCEPT !.pc = "next", !.todo = Rest(w), !.row = None]
<1>10. n \in ProcRow /\ n.job = proc[w].job /\ n.pc = "next" /\ n.todo \subseteq proc[w].todo
  BY <1>2 DEF ProcRow, Rest
<1>11. /\ proc' = [proc EXCEPT ![w] = n] /\ proc'[w] = n
       /\ \A v \in Worker \ {w} : proc'[v] = proc[v]
  BY <1>1, <1>2
<1> HIDE DEF n
<1>12. Typed'
  BY <1>1, <1>2, <1>9, <1>10, <1>11 DEF StatInv, Typed, Ever
<1>13. Holding'
  <2>1. \A v \in Worker : /\ proc'[v].job = proc[v].job
                          /\ proc'[v].pc # "idle" => proc[v].pc # "idle"
    BY <1>1, <1>10, <1>11
  <2>2. \A v \in Worker : proc'[v].pc # "idle" =>
          proc'[v].job \in Job /\ job'[proc'[v].job].state = "active"
    BY <1>1, <2>1 DEF StatInv, Holding
  <2>3. \A v, u \in Worker :
          proc'[v].pc # "idle" /\ proc'[u].pc # "idle" /\ proc'[v].job = proc'[u].job => v = u
    BY <2>1 DEF StatInv, Holding
  <2> QED BY <2>2, <2>3 DEF Holding
<1>14. Counting'
  <2> SUFFICES ASSUME NEW v \in Worker PROVE Counts(v)'
    BY DEF Counting
  <2>1. CASE v = w
    <3>1. On(w)' = On(w)
      BY <1>1, <1>10, <1>11 DEF On
    <3>2. ASSUME NEW b \in n.todo PROVE Measured(b, On(w).from, On(w).to)'
      <4>1. Measured(b, On(w).from, On(w).to)
        BY <1>1, <1>10 DEF StatInv, Counting, Counts
      <4>2. Ever' = Ever
        BY <1>1 DEF Ever
      <4> QED BY <3>1, <4>1, <4>2 DEF Measured, Count, NodeCount, Taken
    <3> QED BY <1>10, <1>11, <2>1, <3>2 DEF Counts
  <2>2. CASE v # w
    <3>1. proc'[v] = proc[v]
      BY <1>11, <2>2
    <3> QED BY <1>1, <1>2, <1>9, <3>1, CountsStay DEF StatInv, Counting, Ever
  <2> QED BY <2>1, <2>2
<1>15. PublishedIsLarge'
  <2> SUFFICES ASSUME NEW i \in DOMAIN stat' PROVE Large(stat[i])'
    BY DEF PublishedIsLarge, Large
  <2>1. CASE stat'[i] = fresh
    <3>1. Large(fresh)'
      BY <1>1, <1>8 DEF Large, Count, NodeCount, Taken, Ever
    <3> QED BY <2>1, <3>1 DEF Large
  <2>2. CASE i \in DOMAIN stat /\ stat'[i] = stat[i]
    <3>1. Large(stat[i])
      BY <2>2 DEF StatInv, PublishedIsLarge, Large
    <3> QED BY <1>1, <2>2, <3>1 DEF Large, Count, NodeCount, Taken, Ever
  <2> QED BY <1>9, <2>1, <2>2
<1> QED BY <1>12, <1>13, <1>14, <1>15 DEF StatInv

LEMMA RenderKeeps ==
    ASSUME StatInv, NEW w \in Worker, FindCard(w) \/ StampSlug(w) \/ Announce(w)
    PROVE  StatInv'
<1>1. proc \in [Worker -> ProcRow] /\ slugs \in Nat
  BY DEF StatInv, Typed
<1>2. /\ UNCHANGED <<now, traversal, erased, schedule, job, stat>> /\ slugs' \in Nat
      /\ proc[w].pc # "idle"
  BY <1>1 DEF FindCard, StampSlug, Announce, db
<1>3. PICK n \in ProcRow : /\ proc' = [proc EXCEPT ![w] = n]
                           /\ n.job = proc[w].job /\ n.pc \in {"stamp", "announce", "done"}
  <2>1. CASE FindCard(w)
    <3>1. AfterFind \in {"stamp", "done"}
      BY DEF AfterFind
    <3> DEFINE n == [proc[w] EXCEPT !.pc = AfterFind]
    <3>2. n \in ProcRow /\ n.job = proc[w].job /\ n.pc = AfterFind
      BY <1>1, <3>1 DEF ProcRow
    <3>3. proc' = [proc EXCEPT ![w] = n]
      BY <1>1, <2>1 DEF FindCard, Go
    <3> QED BY <3>1, <3>2, <3>3
  <2>2. CASE StampSlug(w)
    <3> DEFINE n == [proc[w] EXCEPT !.pc = "announce", !.row = slugs + 1]
    <3>1. slugs + 1 \in Nat
      BY <1>1
    <3>2. n \in ProcRow /\ n.job = proc[w].job /\ n.pc = "announce"
      BY <1>1, <3>1 DEF ProcRow
    <3>3. proc' = [proc EXCEPT ![w] = n]
      BY <1>1, <2>2 DEF StampSlug
    <3> QED BY <3>2, <3>3
  <2>3. CASE Announce(w)
    <3> DEFINE n == [proc[w] EXCEPT !.pc = "done", !.row = None]
    <3>1. n \in ProcRow /\ n.job = proc[w].job /\ n.pc = "done"
      BY <1>1 DEF ProcRow
    <3>2. proc' = [proc EXCEPT ![w] = n]
      BY <1>1, <2>3 DEF Announce
    <3> QED BY <3>1, <3>2
  <2> QED BY <2>1, <2>2, <2>3
<1>4. Counts(w)'
  <2>1. proc'[w] = n
    BY <1>1, <1>3
  <2> QED BY <1>3, <2>1 DEF Counts
<1> QED BY <1>2, <1>3, <1>4, StepKeeps

\* A job ends, or its worker is gone.
LEMMA DropKeeps ==
    ASSUME StatInv, NEW w \in Worker, Settle(w) \/ Throw(w) \/ Crash(w)
    PROVE  StatInv'
<1>1. /\ proc \in [Worker -> ProcRow] /\ job \in [Job -> JobRow]
      /\ proc[w].pc # "idle" /\ proc[w].job \in Job
      /\ proc' = [proc EXCEPT ![w] = Idle]
      /\ UNCHANGED <<now, traversal, erased, schedule, stat, slugs>>
  <2>1. proc[w].pc # "idle"
    BY DEF Settle, Throw, Crash, Finished
  <2>2. /\ proc' = [proc EXCEPT ![w] = Idle]
        /\ UNCHANGED <<now, traversal, erased, schedule, stat, slugs>>
    BY DEF Settle, Throw, Crash, db
  <2> QED BY <2>1, <2>2 DEF StatInv, Typed, Holding
<1>2. PICK moved \in JobRow : job' = [job EXCEPT ![proc[w].job] = moved]
  <2>1. /\ [Slot EXCEPT !.state = "completed"] \in JobRow
        /\ [Slot EXCEPT !.state = "failed"] \in JobRow
    BY DEF Slot, JobRow
  <2>2. [job[proc[w].job] EXCEPT !.state = "waiting"] \in JobRow
    BY <1>1 DEF JobRow
  <2>3. CASE Settle(w)
    BY <2>1, <2>3 DEF Settle
  <2>4. CASE Throw(w)
    BY <2>1, <2>4 DEF Throw
  <2>5. CASE Crash(w)
    BY <1>1, <2>2, <2>5 DEF Crash
  <2> QED BY <2>3, <2>4, <2>5
<1>3. Idle \in ProcRow /\ Idle.pc = "idle"
  BY DEF Idle, ProcRow
<1>4. /\ proc'[w] = Idle /\ \A v \in Worker \ {w} : proc'[v] = proc[v]
      /\ \A j \in Job \ {proc[w].job} : job'[j] = job[j]
  BY <1>1, <1>2
<1>5. Typed'
  BY <1>1, <1>2, <1>3 DEF StatInv, Typed, Ever
<1>6. \A v \in Worker \ {w} : proc[v].pc # "idle" => job'[proc[v].job] = job[proc[v].job]
  BY <1>1, <1>4 DEF StatInv, Holding
<1>7. Holding'
  BY <1>3, <1>4, <1>6 DEF StatInv, Holding
<1>8. Counting'
  <2> SUFFICES ASSUME NEW v \in Worker PROVE Counts(v)'
    BY DEF Counting
  <2>1. CASE v = w
    BY <1>3, <1>4, <2>1 DEF Counts
  <2>2. CASE v # w
    <3>1. proc'[v] = proc[v] /\ (proc[v].pc # "idle" => job'[proc[v].job] = job[proc[v].job])
      BY <1>4, <1>6, <2>2
    <3> QED BY <1>1, <3>1, CountsStay DEF StatInv, Counting, Typed, Ever
  <2> QED BY <2>1, <2>2
<1>9. PublishedIsLarge'
  BY <1>1 DEF StatInv, PublishedIsLarge, Count, NodeCount, Taken, Ever
<1> QED BY <1>5, <1>7, <1>8, <1>9 DEF StatInv

LEMMA JobsBegin == Init => StatInv
<1> SUFFICES ASSUME Init PROVE StatInv
  OBVIOUS
<1>1. /\ now = 0 /\ traversal = {} /\ erased = {} /\ schedule = None
      /\ stat = <<>> /\ slugs = 0
      /\ job = [j \in Job |-> Slot] /\ proc = [w \in Worker |-> Idle]
  BY DEF Init
<1>2. Slot \in JobRow /\ Idle \in ProcRow /\ Idle.pc = "idle"
  BY DEF Slot, JobRow, Idle, ProcRow
<1>3. Typed
  <2>1. Ever = {} /\ IsFiniteSet(Ever)
    BY <1>1, FS_EmptySet DEF Ever
  <2> QED BY <1>1, <1>2, <2>1 DEF Typed
<1>4. Holding /\ Counting
  BY <1>1, <1>2 DEF Holding, Counting, Counts
<1>5. PublishedIsLarge
  BY <1>1 DEF PublishedIsLarge
<1> QED BY <1>3, <1>4, <1>5 DEF StatInv

LEMMA JobsStep == StatInv /\ [Next]_vars => StatInv'
<1> SUFFICES ASSUME StatInv, [Next]_vars PROVE StatInv'
  OBVIOUS
<1>1. CASE \/ Tick \/ Install \/ \E b \in Branch \cup {NoBranch} : Traverse(b)
           \/ (\E own \in SUBSET traversal : Erase(own)) \/ \E j \in Job : Fire(j) \/ Ask(j)
  BY <1>1, OutsideKeeps
<1>2. ASSUME NEW w \in Worker, TakeAny(w) \/ Process(w) \/ Throw(w) \/ Crash(w)
      PROVE  StatInv'
  <2>1. CASE TakeAny(w)
    BY <2>1, TakeKeeps DEF TakeAny
  <2>2. CASE ReadTraversals(w)
    BY <2>2, ReadKeeps
  <2>3. CASE \E a \in proc[w].todo : FindStat(w, a)
    BY <2>3, FindKeeps
  <2>4. CASE WriteStat(w)
    BY <2>4, WriteKeeps
  <2>5. CASE FindCard(w) \/ StampSlug(w) \/ Announce(w)
    BY <2>5, RenderKeeps
  <2>6. CASE Settle(w) \/ Throw(w) \/ Crash(w)
    BY <2>6, DropKeeps
  <2> QED BY <1>2, <2>1, <2>2, <2>3, <2>4, <2>5, <2>6 DEF Process
<1>3. CASE UNCHANGED vars
  <2>1. UNCHANGED <<now, traversal, erased, schedule, job, proc, stat, slugs>>
    BY <1>3 DEF vars, db
  <2>2. Typed' /\ Holding'
    BY <2>1 DEF StatInv, Typed, Holding, Ever
  <2>3. Counting'
    BY <2>1, CountsStay DEF StatInv, Counting, Typed, Ever
  <2>4. PublishedIsLarge'
    BY <2>1 DEF StatInv, PublishedIsLarge, Count, NodeCount, Taken, Ever
  <2> QED BY <2>2, <2>3, <2>4 DEF StatInv
<1> QED BY <1>1, <1>2, <1>3 DEF Next

----------------------------------------------------------------------------
(* One worker.                                                             *)

OneWorker == \A v, w \in Worker : v = w

\* What a worker that found no row has in hand has no row.
Missing(w) ==
    proc[w].pc = "write" /\ "old" \notin DOMAIN proc[w].row =>
        Existing(w, proc[w].row.new.branch) = {}
KeyInv == OneRowPerKey /\ \A w \in Worker : Missing(w)

\* A card gets its slug once, and the slug a worker is about to announce is the
\* card's.
Stamping(w) == /\ proc[w].pc = "stamp" => slug = None
               /\ proc[w].pc = "announce" => slug \in Nat /\ proc[w].row = slug
SlugInv == /\ AnnouncedIsServed
           /\ slug = None => announced = {}
           /\ \A w \in Worker : Stamping(w)

OnceInv == StatInv /\ KeyInv /\ SlugInv

LEMMA OnceBegins == Init => OnceInv
<1> SUFFICES ASSUME Init PROVE OnceInv
  OBVIOUS
<1>1. /\ stat = <<>> /\ announced = {} /\ \A w \in Worker : proc[w].pc = "idle"
  BY DEF Init, Idle
<1>2. KeyInv /\ SlugInv
  BY <1>1 DEF KeyInv, OneRowPerKey, Missing, SlugInv, AnnouncedIsServed, Stamping
<1> QED BY <1>2, JobsBegin DEF OnceInv

\* A worker that neither stamps nor announces next leaves the slug's story alone.
LEMMA SlugStays ==
    ASSUME SlugInv, UNCHANGED <<slug, announced>>,
           \A v \in Worker : proc'[v] = proc[v] \/ proc'[v].pc \notin {"stamp", "announce"}
    PROVE  SlugInv'
BY DEF SlugInv, AnnouncedIsServed, Stamping

LEMMA KeyStays ==
    ASSUME KeyInv, UNCHANGED stat,
           \A v \in Worker : \/ proc'[v].pc # "write"
                             \/ proc'[v] = proc[v] /\ job'[proc[v].job] = job[proc[v].job]
    PROVE  KeyInv'
<1>1. OneRowPerKey'
  BY DEF KeyInv, OneRowPerKey
<1>2. ASSUME NEW v \in Worker PROVE Missing(v)'
  BY DEF KeyInv, Missing, Existing, On
<1> QED BY <1>1, <1>2 DEF KeyInv

LEMMA OnceStep == ASSUME OneWorker, OnceInv, [Next]_vars PROVE OnceInv'
<1> USE JobsAssumption
<1>1. StatInv' /\ StatInv /\ KeyInv /\ SlugInv /\ proc \in [Worker -> ProcRow]
  BY JobsStep DEF OnceInv, StatInv, Typed
<1>2. CASE \/ Tick \/ Install \/ \E b \in Branch \cup {NoBranch} : Traverse(b)
           \/ (\E own \in SUBSET traversal : Erase(own)) \/ \E j \in Job : Fire(j) \/ Ask(j)
  <2>1. UNCHANGED <<proc, stat, slug, announced>>
    BY <1>2 DEF Tick, Install, Erase, Traverse, Fire, Ask, db
  <2>2. \A j \in Job : job[j].state = "active" => job'[j] = job[j]
    BY <1>1, <1>2, ActiveJobsStay
  <2>3. \A v \in Worker : proc[v].pc # "idle" => job'[proc[v].job] = job[proc[v].job]
    BY <1>1, <2>2 DEF StatInv, Holding
  <2> QED BY <1>1, <2>1, <2>3, KeyStays, SlugStays DEF OnceInv
<1>3. ASSUME NEW w \in Worker, TakeAny(w) \/ Process(w) \/ Throw(w) \/ Crash(w)
      PROVE  OnceInv'
  <2>1. \A v \in Worker : v = w
    BY DEF OneWorker
  <2>2. CASE TakeAny(w) \/ ReadTraversals(w) \/ Settle(w) \/ Throw(w) \/ Crash(w)
    <3>1. UNCHANGED <<stat, slug, announced>>
      BY <2>2 DEF TakeAny, Take, ReadTraversals, Settle, Throw, Crash, db
    <3>2. \/ \E j : proc' = [proc EXCEPT ![w] = [Idle EXCEPT !.job = j, !.pc = "start"]]
          \/ \E todo : proc' = [proc EXCEPT ![w].pc = "next", ![w].todo = todo]
          \/ proc' = [proc EXCEPT ![w] = Idle]
      BY <2>2 DEF TakeAny, Take, ReadTraversals, Settle, Throw, Crash
    <3>3. proc'[w].pc \in {"start", "next", "idle"}
      <4>1. CASE \E j : proc' = [proc EXCEPT ![w] = [Idle EXCEPT !.job = j, !.pc = "start"]]
        BY <1>1, <4>1 DEF Idle
      <4>2. CASE \E todo : proc' = [proc EXCEPT ![w].pc = "next", ![w].todo = todo]
        <5>1. PICK todo : proc' = [proc EXCEPT ![w].pc = "next", ![w].todo = todo]
          BY <4>2
        <5> QED BY <1>1, <5>1 DEF ProcRow
      <4>3. CASE proc' = [proc EXCEPT ![w] = Idle]
        BY <1>1, <4>3 DEF Idle
      <4> QED BY <3>2, <4>1, <4>2, <4>3
    <3> QED BY <1>1, <2>1, <3>1, <3>3, KeyStays, SlugStays DEF OnceInv
  <2>3. CASE \E a \in proc[w].todo : FindStat(w, a)
    <3>1. PICK a \in proc[w].todo : FindStat(w, a)
      BY <2>3
    <3>2. PICK work :
             /\ proc' = [proc EXCEPT ![w].pc = "write", ![w].row = work]
             /\ \/ Existing(w, a.branch) = {} /\ work = [new |-> a]
                \/ \E i \in Existing(w, a.branch) : work = [new |-> a, old |-> i]
      BY <3>1 DEF FindStat
    <3>3. /\ UNCHANGED <<stat, slug, announced, job>> /\ proc'[w].pc = "write"
          /\ proc'[w].job = proc[w].job /\ proc'[w].row = work
      BY <1>1, <3>1, <3>2, ZenonT(60) DEF FindStat, db, ProcRow
    <3>4. Missing(w)'
      <4>1. On(w)' = On(w)
        BY <3>3 DEF On
      <4>2. work.new = a /\ ("old" \notin DOMAIN work => Existing(w, a.branch) = {})
        BY <3>2
      <4>3. "old" \notin DOMAIN work => Existing(w, work.new.branch)' = {}
        BY <3>3, <4>1, <4>2 DEF Existing
      <4> QED BY <3>3, <4>3 DEF Missing, Existing
    <3>5. KeyInv'
      BY <1>1, <2>1, <3>3, <3>4 DEF KeyInv, OneRowPerKey
    <3> QED BY <1>1, <2>1, <3>3, <3>5, SlugStays DEF OnceInv
  <2>4. CASE WriteStat(w)
    <3>1. UNCHANGED <<slug, announced>> /\ proc'[w].pc = "next" /\ proc[w].pc = "write"
      BY <1>1, <2>4 DEF WriteStat
    <3>2. OneRowPerKey'
      <4>1. stat \in Seq(StatRow) /\ OneRowPerKey
        BY <1>1 DEF StatInv, Typed, KeyInv
      <4>2. CASE "old" \in DOMAIN proc[w].row
        <5>1. PICK i : i = proc[w].row.old
          OBVIOUS
        <5>2. PICK n, percent, to : stat' = [stat EXCEPT ![i] =
                 [@ EXCEPT !.n = n, !.percent = percent, !.to = to]]
          BY <2>4, <4>2, <5>1 DEF WriteStat
        <5>3. i \in DOMAIN stat
          BY <1>1, <3>1, <4>2, <5>1 DEF StatInv, Counting, Counts, Existing
        <5>4. ASSUME NEW k \in DOMAIN stat
              PROVE  /\ stat'[k].branch = stat[k].branch
                     /\ stat'[k].cohort = stat[k].cohort /\ stat'[k].from = stat[k].from
          <6>1. PICK r \in StatRow : r = stat[k]
            BY <4>1
          <6>2. stat'[k] = r \/ stat'[k] = [r EXCEPT !.n = n, !.percent = percent, !.to = to]
            BY <4>1, <5>2, <5>3, <6>1
          <6> QED BY <6>1, <6>2 DEF StatRow
        <5>5. DOMAIN stat' = DOMAIN stat
          BY <5>2
        <5> QED BY <4>1, <5>4, <5>5 DEF OneRowPerKey
      <4>3. CASE "old" \notin DOMAIN proc[w].row
        <5>1. Existing(w, proc[w].row.new.branch) = {}
          BY <1>1, <3>1, <4>3 DEF KeyInv, Missing
        <5>2. PICK s : /\ stat' = Append(stat, s) /\ s.branch = proc[w].row.new.branch
                       /\ s.cohort = On(w).cohort /\ s.from = On(w).from
          BY <2>4, <4>3 DEF WriteStat
        <5>3. \A k \in DOMAIN stat :
                ~(/\ stat[k].branch = s.branch /\ stat[k].cohort = s.cohort
                  /\ stat[k].from = s.from)
          BY <5>1, <5>2 DEF Existing
        <5>4. /\ Len(stat) \in Nat /\ DOMAIN stat = 1 .. Len(stat)
              /\ DOMAIN stat' = 1 .. Len(stat) + 1
              /\ \A k \in 1 .. Len(stat) : stat'[k] = stat[k]
              /\ stat'[Len(stat) + 1] = s
          BY <4>1, <5>2
        <5> QED BY <4>1, <5>3, <5>4 DEF OneRowPerKey
      <4> QED BY <4>2, <4>3
    <3>3. KeyInv'
      BY <2>1, <3>1, <3>2 DEF KeyInv, Missing
    <3> QED BY <1>1, <2>1, <3>1, <3>3, SlugStays DEF OnceInv
  <2>5. CASE FindCard(w)
    <3>1. UNCHANGED <<stat, slug, announced>> /\ proc'[w].pc = AfterFind
      BY <1>1, <2>5 DEF FindCard, Go, db
    <3>2. AfterFind \in {"stamp", "done"} /\ (AfterFind = "stamp" => slug = None)
      BY DEF AfterFind
    <3>3. KeyInv'
      BY <1>1, <2>1, <3>1, <3>2, KeyStays
    <3>4. SlugInv'
      BY <1>1, <2>1, <3>1, <3>2 DEF SlugInv, AnnouncedIsServed, Stamping
    <3> QED BY <1>1, <3>3, <3>4 DEF OnceInv
  <2>6. CASE StampSlug(w)
    <3>1. /\ UNCHANGED <<stat, announced>> /\ proc[w].pc = "stamp" /\ slug' = slugs + 1
          /\ proc'[w].pc = "announce" /\ proc'[w].row = slugs + 1
      BY <1>1, <2>6 DEF StampSlug
    <3>2. slug = None /\ announced = {} /\ slug' \in Nat
      BY <1>1, <3>1 DEF SlugInv, Stamping, StatInv, Typed
    <3>3. KeyInv'
      BY <1>1, <2>1, <3>1, KeyStays
    <3>4. SlugInv'
      BY <1>1, <2>1, <3>1, <3>2 DEF SlugInv, AnnouncedIsServed, Stamping
    <3> QED BY <1>1, <3>3, <3>4 DEF OnceInv
  <2>7. CASE Announce(w)
    <3>1. /\ UNCHANGED <<stat, slug>> /\ proc[w].pc = "announce" /\ proc'[w].pc = "done"
          /\ announced' \in {announced, announced \cup {proc[w].row}}
      BY <1>1, <2>7 DEF Announce
    <3>2. slug \in Nat /\ proc[w].row = slug
      BY <1>1, <3>1 DEF SlugInv, Stamping
    <3>3. KeyInv'
      BY <1>1, <2>1, <3>1, KeyStays
    <3>4. SlugInv'
      BY <1>1, <2>1, <3>1, <3>2 DEF SlugInv, AnnouncedIsServed, Stamping
    <3> QED BY <1>1, <3>3, <3>4 DEF OnceInv
  <2> QED BY <1>3, <2>2, <2>3, <2>4, <2>5, <2>6, <2>7 DEF Process
<1>4. CASE UNCHANGED vars
  <2>1. UNCHANGED <<job, proc, stat, slug, announced>>
    BY <1>4 DEF vars, db
  <2> QED BY <1>1, <2>1, KeyStays, SlugStays DEF OnceInv
<1> QED BY <1>2, <1>3, <1>4 DEF Next

\* With one worker of CONCURRENCY 1, the default, a key never gets two rows, and
\* no percentage is published over too few, however often jobs die and come back
\* while traversals arrive (branch-stats-rollup.ts).
THEOREM StatsAreAlwaysSound == ASSUME OneWorker PROVE AllSpec => []StatsAreSound
<1>1. OnceInv /\ [Next]_vars => OnceInv'
  BY OnceStep
<1>2. OnceInv => StatsAreSound
  BY DEF OnceInv, KeyInv, StatInv, StatsAreSound
<1> QED BY <1>1, <1>2, OnceBegins, PartsRun, PTL

\* An address that was announced is the one the card keeps, whichever delivery
\* of the render job stamped it (share-card-render.ts).
THEOREM AnnouncedIsAlwaysServed == ASSUME OneWorker PROVE AllSpec => []AnnouncedIsServed
<1>1. OnceInv /\ [Next]_vars => OnceInv'
  BY OnceStep
<1>2. OnceInv => AnnouncedIsServed
  BY DEF OnceInv, SlugInv
<1> QED BY <1>1, <1>2, OnceBegins, PartsRun, PTL

----------------------------------------------------------------------------
(* AccountErasure.                                                         *)


\* The tables of rows that belong to the learner alone, and the table of the
\* held that a held of another table belongs to.
Top == {"Session", "Account", "DeviceCodeFlow", "Membership", "VerificationToken",
        "Entitlement", "Enrollment"}
Below == {"StageAttempt", "Submission", "Run", "Grade", "MentorThread", "MentorMessage",
          "NodeTraversal", "ShareCard"}
Table == Top \cup Below
Parent == [StageAttempt |-> "Enrollment", Submission |-> "StageAttempt",
           Run |-> "Submission", Grade |-> "StageAttempt",
           MentorThread |-> "Enrollment", MentorMessage |-> "MentorThread",
           NodeTraversal |-> "Enrollment", ShareCard |-> "Enrollment"]
Found == {"Enrollment", "StageAttempt", "Submission", "MentorThread"}

HeldInv ==
    /\ next \in Nat \ {0} /\ DOMAIN held \subseteq 1 .. next - 1
    /\ \A i \in DOMAIN held :
         /\ held[i].table \in Table
         /\ held[i].table \in Top => held[i].of = 0
         /\ held[i].table \in Below => /\ held[i].of \in DOMAIN held
                                      /\ held[held[i].of].table = Parent[held[i].table]

\* What a statement of the plan that has run did about the rows that were there
\* when the deletion began: a read has their ids, a delete has taken them.
Left == tx.before \ tx.gone
Done(k) ==
    \A i \in Left : held[i].table = Account!DeletePlan[k].table =>
        Account!DeletePlan[k].op = "find" /\ i \in tx.ids[Account!DeletePlan[k].table]

Transaction ==
    [state : {"none", "running", "failed", "done"}, step : Nat \ {0},
     ids : [Found -> SUBSET Nat], gone : SUBSET Nat, before : SUBSET Nat,
     email : {"own", "tombstone"}, calls : Nat, interfered : BOOLEAN]

TxInv ==
    /\ tx \in Transaction /\ email \in {"own", "tombstone"}
    /\ tx.before \subseteq 1 .. next - 1
    /\ tx.state # "running" => tx.gone = {}
    /\ \A i \in Account!Seen : held[i].table \in Below => held[i].of \in Account!Seen
    /\ tx.state = "running" =>
         /\ tx.before \subseteq DOMAIN held /\ tx.email = "own"
         /\ \A i \in tx.before : held[i].table \in Below => held[i].of \in tx.before
         /\ tx.step <= 20 /\ \A k \in 1 .. tx.step - 1 : Done(k)
    /\ email = IF tx.state = "done" THEN "tombstone" ELSE "own"
    /\ tx.state = "done" => tx.before \cap DOMAIN held = {}
    /\ tx.state = "failed" => tx.interfered

\* What a request is about to insert, and the table of the held it goes by.
Todos == {<<"Enrollment">>, <<"StageAttempt", "Submission">>, <<"Submission">>, <<"Run">>,
          <<"MentorThread", "MentorMessage", "MentorMessage">>,
          <<"MentorMessage", "MentorMessage">>, <<"MentorMessage">>, <<"Grade">>, <<"Session">>}
GoesBy == [StageAttempt |-> "Enrollment", Submission |-> "StageAttempt",
           Run |-> "Submission", Grade |-> "Submission",
           MentorThread |-> "Enrollment", MentorMessage |-> "MentorThread"]
Placed(under, todo) ==
    /\ todo \in Todos /\ under \in Nat /\ under < next
    /\ Head(todo) \in {"Enrollment", "Session"} => under = 0
    /\ Head(todo) \notin {"Enrollment", "Session"} =>
         under # 0 /\ (under \in DOMAIN held => held[under].table = GoesBy[Head(todo)])
Call == [kind : DOMAIN Account!Writes, at : {"start", "resolve", "insert", "end"}, under : Nat,
         todo : Todos \cup {<<>>}]
ReqInv ==
    /\ req \in [Request -> Call]
    /\ \A r \in Request :
         /\ req[r].at \in {"start", "resolve"} => req[r].todo = Account!Writes[req[r].kind]
         /\ req[r].at = "insert" => Placed(req[r].under, req[r].todo)

\* The tables the export has been through.
Read(t) == \/ \E w \in 1 .. export.wave - 1 : t \in Account!Waves[w]
           \/ t \in Account!Waves[export.wave] \ export.left
ExportInv ==
    /\ export \in [wave : 0 .. 4, left : SUBSET Account!Exported, ids : SUBSET Nat, since : SUBSET Nat]
    /\ export.since \subseteq 1 .. next - 1
    /\ export.wave = 0 => export.left = {}
    /\ export.wave > 0 =>
         /\ export.left \subseteq Account!Waves[export.wave]
         /\ export.left = {} => export.wave = 4
         /\ \A i \in export.since \cap DOMAIN held :
              /\ held[i].table \in Below => held[i].of \in export.since
              /\ Read(held[i].table) => i \in export.ids

AccountInv == HeldInv /\ TxInv /\ ReqInv /\ ExportInv

----------------------------------------------------------------------------
(* The plan.                                                               *)

LEMMA PlanFacts ==
    /\ Len(Account!DeletePlan) = 19
    /\ \A k \in 1 .. 19 :
         LET s == Account!DeletePlan[k]
         IN  /\ s.op \in {"find", "delete"} /\ s.table \in Table
             /\ s.op = "find" => s.table \in Found
             /\ s.by \in {"User", "email"} \cup Found
             /\ s.by \in Found =>
                  /\ s.table \in Below /\ Parent[s.table] = s.by
                  /\ \E j \in 1 .. k - 1 : Account!DeletePlan[j].op = "find" /\ Account!DeletePlan[j].table = s.by
    /\ \A t \in Table : \E k \in 1 .. 19 : Account!DeletePlan[k].op = "delete" /\ Account!DeletePlan[k].table = t
BY
   DEF Account!DeletePlan, Account!Statements, Account!Find, Account!DeleteMany, Table, Top, Below, Found, Parent

\* Rows that would stand in a delete's way are deleted before it.
LEMMA PlanOrder ==
    \A k \in 1 .. 19 :
        LET s == Account!DeletePlan[k]
            Before(t) == \E j \in 1 .. k - 1 : /\ Account!DeletePlan[j].op = "delete"
                                              /\ Account!DeletePlan[j].table = t
        IN  s.op = "delete" =>
              /\ s.table = "Submission" => Before("Run")
              /\ s.table \in {"StageAttempt", "Enrollment"} => Before("Grade") /\ Before("Submission")
BY DEF Account!DeletePlan, Account!Statements, Account!Find, Account!DeleteMany

\* The four statements a step of the deletion may be at.
LEMMA Statement ==
    ASSUME tx \in Transaction, tx.step <= Len(Account!DeletePlan)
    PROVE  tx.step \in 1 .. 19
BY PlanFacts DEF Transaction

\* Of the rows that were there, those of the statement's table are in its scope.
LEMMA InItsScope ==
    ASSUME HeldInv, TxInv, tx.state = "running", tx.step \in 1 .. 19,
           NEW i \in Left, held[i].table = Account!DeletePlan[tx.step].table
    PROVE  i \in Account!Seen /\ Account!InScope(Account!DeletePlan[tx.step], i)
<1> DEFINE s == Account!DeletePlan[tx.step]
<1>1. i \in Account!Seen /\ tx.before \subseteq DOMAIN held /\ held[i].table = s.table
  BY DEF TxInv, Left, Account!Seen
<1>2. CASE s.by = "User"
  BY <1>1, <1>2 DEF Account!InScope
<1>3. CASE s.by = "email"
  BY <1>1, <1>3 DEF Account!InScope, TxInv
<1>4. CASE s.by \in Found
  <2>1. PICK j \in 1 .. tx.step - 1 : Account!DeletePlan[j].op = "find" /\ Account!DeletePlan[j].table = s.by
    BY <1>4, PlanFacts
  <2>2. held[i].table \in Below /\ Parent[held[i].table] = s.by
    BY <1>1, <1>4, PlanFacts
  <2>3. held[i].of \in Left /\ held[held[i].of].table = s.by
    BY <1>1, <2>2 DEF HeldInv, TxInv, Left, Account!Seen
  <2>4. held[i].of \in tx.ids[s.by]
    BY <2>1, <2>3 DEF TxInv, Done
  <2> QED BY <1>1, <1>4, <2>4 DEF Account!InScope, Found
<1> QED BY <1>2, <1>3, <1>4, PlanFacts

----------------------------------------------------------------------------
(* The deletion.                                                           *)

LEMMA BeginKeeps == ASSUME AccountInv, Account!EraseBegin PROVE AccountInv'
<1>1. /\ tx.state \in {"none", "failed"} /\ UNCHANGED <<held, next, email, req, export>>
      /\ tx' = [Account!NoTx EXCEPT !.state = "running", !.before = DOMAIN held,
                            !.email = email, !.calls = tx.calls + 1]
  BY DEF Account!EraseBegin
<1>2. /\ tx'.state = "running" /\ tx'.before = DOMAIN held /\ tx'.email = email
      /\ tx'.gone = {} /\ tx'.step = 1 /\ tx' \in Transaction
  <2>1. Account!NoIds \in [Found -> SUBSET Nat]
    BY DEF Account!NoIds, Found
  <2>2. tx.calls \in Nat /\ email \in {"own", "tombstone"} /\ DOMAIN held \subseteq Nat
    BY DEF AccountInv, TxInv, HeldInv, Transaction
  <2>3. tx' = [state |-> "running", step |-> 1, ids |-> Account!NoIds, gone |-> {},
               before |-> DOMAIN held, email |-> email, calls |-> tx.calls + 1,
               interfered |-> TRUE]
    BY <1>1 DEF Account!NoTx
  <2> QED BY <2>1, <2>2, <2>3 DEF Transaction
<1>3. TxInv'
  <2>1. email = "own" /\ tx.gone = {}
    BY <1>1 DEF AccountInv, TxInv
  <2>2. DOMAIN held \subseteq 1 .. next - 1
    BY DEF AccountInv, HeldInv
  <2>3. Account!Seen' = DOMAIN held
    BY <1>1, <1>2 DEF Account!Seen
  <2>4. \A i \in DOMAIN held : held[i].table \in Below => held[i].of \in DOMAIN held
    BY DEF AccountInv, HeldInv
  <2> QED BY <1>1, <1>2, <2>1, <2>2, <2>3, <2>4 DEF TxInv
<1>4. HeldInv' /\ ReqInv' /\ ExportInv'
  BY <1>1 DEF AccountInv, HeldInv, ReqInv, ExportInv, Placed, Read
<1> QED BY <1>3, <1>4 DEF AccountInv

LEMMA FindIdsKeeps == ASSUME AccountInv, Account!EraseFind PROVE AccountInv'
<1> DEFINE s == Account!DeletePlan[tx.step]
           ids == {i \in Account!Seen : Account!InScope(s, i)}
<1>1. /\ tx.state = "running" /\ tx.step \in 1 .. 19 /\ s.op = "find"
      /\ tx' = [tx EXCEPT !.ids[s.table] = ids, !.step = @ + 1]
      /\ UNCHANGED <<held, next, email, req, export>>
  BY Statement DEF Account!EraseFind, AccountInv, TxInv
<1>2. s.table \in Found /\ ids \subseteq Nat
  <2>1. DOMAIN held \subseteq Nat
    BY DEF AccountInv, HeldInv
  <2> QED BY <1>1, <2>1, PlanFacts DEF Account!Seen
<1>3. \A i \in Left : held[i].table = s.table => i \in ids
  BY <1>1, InItsScope DEF AccountInv
<1> HIDE DEF ids
<1>4. /\ tx' \in Transaction /\ tx'.state = "running" /\ tx'.gone = tx.gone
      /\ tx'.before = tx.before /\ tx'.email = tx.email /\ tx'.step = tx.step + 1
      /\ tx'.ids = [tx.ids EXCEPT ![s.table] = ids]
  <2>1. tx \in Transaction
    BY DEF AccountInv, TxInv
  <2>2. [tx.ids EXCEPT ![s.table] = ids] \in [Found -> SUBSET Nat]
    BY <1>2, <2>1 DEF Transaction
  <2>3. tx' = [tx EXCEPT !.ids = [tx.ids EXCEPT ![s.table] = ids], !.step = @ + 1]
    BY <1>1
  <2> HIDE DEF s
  <2>4. PICK more : more = [tx.ids EXCEPT ![s.table] = ids]
    OBVIOUS
  <2>5. tx.step + 1 \in Nat \ {0}
    BY <1>1
  <2>6. tx' = [tx EXCEPT !.ids = more, !.step = tx.step + 1]
    BY <2>3, <2>4
  <2> QED BY <1>1, <2>1, <2>2, <2>4, <2>5, <2>6 DEF Transaction
<1>5. Left' = Left /\ Account!Seen' = Account!Seen
  BY <1>1, <1>4 DEF Left, Account!Seen
<1>6. \A k \in 1 .. tx'.step - 1 : Done(k)'
  <2> SUFFICES ASSUME NEW k \in 1 .. tx.step, NEW i \in Left,
                      held[i].table = Account!DeletePlan[k].table
               PROVE  Account!DeletePlan[k].op = "find" /\ i \in tx'.ids[Account!DeletePlan[k].table]
    BY <1>1, <1>4, <1>5 DEF Done
  <2>1. tx.ids \in [Found -> SUBSET Nat]
    BY DEF AccountInv, TxInv, Transaction
  <2>2. CASE Account!DeletePlan[k].table = s.table
    <3>1. Account!DeletePlan[k].op = "find"
      BY <1>1, <2>2 DEF AccountInv, TxInv, Done
    <3> QED BY <1>2, <1>3, <1>4, <2>1, <2>2, <3>1
  <2>3. CASE Account!DeletePlan[k].table # s.table
    <3>1. k \in 1 .. tx.step - 1
      BY <1>1, <2>3
    <3>2. Account!DeletePlan[k].op = "find" /\ i \in tx.ids[Account!DeletePlan[k].table]
      BY <1>1, <3>1 DEF AccountInv, TxInv, Done
    <3> QED BY <1>2, <1>4, <2>1, <2>3, <3>2
  <2> QED BY <2>2, <2>3
<1>7. TxInv'
  BY <1>1, <1>4, <1>5, <1>6 DEF AccountInv, TxInv
<1>8. HeldInv' /\ ReqInv' /\ ExportInv'
  BY <1>1 DEF AccountInv, HeldInv, ReqInv, ExportInv, Placed, Read
<1> QED BY <1>7, <1>8 DEF AccountInv

\* The foreign keys take along what hangs on a held they take: no held is left
\* without the held it belongs to.
LEMMA CascadeIsWhole ==
    ASSUME HeldInv, TxInv, NEW k \in 1 .. 19, ~Account!Blocked(Account!Taken(Account!DeletePlan[k])),
           NEW i \in Account!Seen \ Account!Taken(Account!DeletePlan[k]), held[i].table \in Below
    PROVE  held[i].of \in Account!Seen \ Account!Taken(Account!DeletePlan[k])
<1> DEFINE s == Account!DeletePlan[k]
<1>1. /\ held[i].of \in Account!Seen /\ i \in DOMAIN held /\ held[i].of \in DOMAIN held
      /\ held[held[i].of].table = Parent[held[i].table] /\ 0 \notin DOMAIN held
      /\ \A j \in DOMAIN held : j # 0
  BY DEF HeldInv, TxInv, Account!Seen
<1> SUFFICES ASSUME held[i].of \in Account!Taken(s) PROVE FALSE
  BY <1>1
<1>2. held[i].table \notin Account!Restricted
  BY DEF Account!Blocked
<1>3. held[i].table \in {"StageAttempt", "MentorThread", "MentorMessage", "NodeTraversal", "ShareCard"}
  BY <1>2 DEF Below, Account!Restricted
<1>4. /\ ~Account!InScope(s, held[i].of)
      /\ ~Account!Follows(s, held[i].of)
  BY <1>1, <1>2 DEF Account!Taken, Account!Follows
<1>5. PICK p : p = held[i].of
  OBVIOUS
<1>6. held[p].of # 0 /\ Account!Follows(s, held[p].of)
  BY <1>4, <1>5 DEF Account!Taken
<1>7. held[p].table = "MentorThread" /\ held[p].of \in DOMAIN held
      /\ held[held[p].of].table = "Enrollment"
  BY <1>1, <1>3, <1>5, <1>6 DEF HeldInv, Parent, Top, Below, Table
<1>8. held[held[p].of].of = 0
  BY <1>7 DEF HeldInv, Top
<1>9. 0 \in Account!Seen
  BY <1>6, <1>8 DEF Account!Follows, Account!InScope
<1> QED BY <1>1, <1>9 DEF Account!Seen

\* While only the rows are there that were there at the beginning, the order of
\* the plan leaves nothing that restricts a delete.
LEMMA OrderRespectsKeys ==
    ASSUME HeldInv, TxInv, tx.state = "running", tx.step \in 1 .. 19,
           Account!DeletePlan[tx.step].op = "delete", DOMAIN held = tx.before
    PROVE  ~Account!Blocked(Account!Taken(Account!DeletePlan[tx.step]))
<1> DEFINE s == Account!DeletePlan[tx.step]
           Erased(t) == \E j \in 1 .. tx.step - 1 : /\ Account!DeletePlan[j].op = "delete"
                                                    /\ Account!DeletePlan[j].table = t
<1> SUFFICES ASSUME NEW i \in Account!Seen \ Account!Taken(s), held[i].table \in Account!Restricted,
                    held[i].of \in Account!Taken(s)
             PROVE  FALSE
  BY DEF Account!Blocked
<1>1. /\ i \in Left /\ i \in DOMAIN held /\ held[i].of \in DOMAIN held
      /\ held[held[i].of].table = Parent[held[i].table] /\ 0 \notin DOMAIN held
  BY DEF HeldInv, TxInv, Account!Seen, Left, Account!Restricted, Below
<1>2. ASSUME NEW j \in 1 .. tx.step - 1, Account!DeletePlan[j].op = "delete"
      PROVE  held[i].table # Account!DeletePlan[j].table
  BY <1>1, <1>2 DEF TxInv, Done
<1>3. PICK p : p = held[i].of
  OBVIOUS
<1>4. held[p].table \in {"StageAttempt", "Submission"}
  BY <1>1, <1>3 DEF Account!Restricted, Parent
<1>5. held[p].of \in DOMAIN held /\ held[held[p].of].table = Parent[held[p].table]
  BY <1>1, <1>3, <1>4 DEF HeldInv, Below
<1>6. CASE Account!InScope(s, p)
  <2>1. held[p].table = s.table
    BY <1>6 DEF Account!InScope
  <2>2. \/ held[i].table = "Run" /\ s.table = "Submission"
        \/ held[i].table \in {"Submission", "Grade"} /\ s.table = "StageAttempt"
    BY <1>1, <1>3, <1>4, <2>1 DEF Account!Restricted, Parent
  <2>3. /\ s.table = "Submission" => Erased("Run")
        /\ s.table = "StageAttempt" => Erased("Grade") /\ Erased("Submission")
    BY PlanOrder, ZenonT(60)
  <2> QED BY <1>2, <2>2, <2>3
<1>7. CASE ~Account!InScope(s, p) /\ Account!Follows(s, p)
  <2>1. held[p].table = "StageAttempt"
    BY <1>4, <1>7 DEF Account!Follows, Account!Restricted
  <2>2. s.table = "Enrollment"
    BY <1>5, <1>7, <2>1 DEF Account!Follows, Account!InScope, Parent
  <2>3. held[i].table \in {"Grade", "Submission"}
    BY <1>1, <1>3, <2>1 DEF Account!Restricted, Parent
  <2>4. Erased("Grade") /\ Erased("Submission")
    BY <2>2, PlanOrder, ZenonT(60)
  <2> QED BY <1>2, <2>3, <2>4
<1>8. CASE ~Account!InScope(s, p) /\ ~Account!Follows(s, p)
  <2>1. held[p].table \notin Account!Restricted /\ Account!Follows(s, held[p].of)
    BY <1>3, <1>8 DEF Account!Taken
  <2>2. held[held[p].of].table = "Enrollment"
    BY <1>4, <1>5, <2>1 DEF Account!Restricted, Parent
  <2>3. held[held[p].of].of = 0
    BY <1>5, <2>2 DEF HeldInv, Top
  <2> QED BY <1>1, <2>1, <2>3 DEF Account!Follows, Account!InScope, Account!Seen
<1> QED BY <1>6, <1>7, <1>8

LEMMA RolledBack ==
    ASSUME AccountInv, NEW interfered, interfered = TRUE, Account!Roll(interfered),
           tx.state = "running", UNCHANGED <<held, next, email, req, export>>
    PROVE  AccountInv'
<1>1. Account!NoIds \in [Found -> SUBSET Nat]
  BY DEF Account!NoIds, Found
<1>2. tx' = [state |-> "failed", step |-> 1, ids |-> Account!NoIds, gone |-> {},
             before |-> tx.before, email |-> "own", calls |-> tx.calls, interfered |-> TRUE]
  BY DEF Account!Roll, Account!NoTx
<1>3. tx' \in Transaction
  BY <1>1, <1>2 DEF AccountInv, TxInv, Transaction
<1>4. Account!Seen' = DOMAIN held
  BY <1>2 DEF Account!Seen
<1>5. TxInv'
  BY <1>2, <1>3, <1>4 DEF AccountInv, TxInv, HeldInv
<1>6. HeldInv' /\ ReqInv' /\ ExportInv'
  BY DEF AccountInv, HeldInv, ReqInv, ExportInv, Placed, Read
<1> QED BY <1>5, <1>6 DEF AccountInv

LEMMA LostKeeps == ASSUME AccountInv, Account!EraseLost PROVE AccountInv'
BY RolledBack DEF Account!EraseLost

LEMMA DeleteKeeps == ASSUME AccountInv, Account!EraseDelete PROVE AccountInv'
<1> DEFINE s == Account!DeletePlan[tx.step]
           taken == Account!Taken(s)
<1>1. /\ tx.state = "running" /\ tx.step \in 1 .. 19 /\ s.op = "delete"
      /\ UNCHANGED <<held, next, email, req, export>>
  BY Statement DEF Account!EraseDelete, AccountInv, TxInv
<1>2. CASE Account!Blocked(taken)
  <2>1. DOMAIN held # tx.before
    BY <1>1, <1>2, OrderRespectsKeys DEF AccountInv
  <2>2. Account!Roll(DOMAIN held # tx.before)
    BY <1>2 DEF Account!EraseDelete
  <2>3. PICK b : b = (DOMAIN held # tx.before)
    OBVIOUS
  <2> QED BY <1>1, <2>1, <2>2, <2>3, RolledBack
<1>3. CASE ~Account!Blocked(taken)
  <2>1. tx' = [tx EXCEPT !.gone = @ \cup taken, !.step = @ + 1]
    BY <1>3 DEF Account!EraseDelete
  <2>2. taken \subseteq Account!Seen /\ DOMAIN held \subseteq Nat
    BY DEF Account!Taken, AccountInv, HeldInv
  <2>3. /\ tx' \in Transaction /\ tx'.state = "running" /\ tx'.gone = tx.gone \cup taken
        /\ tx'.before = tx.before /\ tx'.email = tx.email /\ tx'.step = tx.step + 1
        /\ tx'.ids = tx.ids
    <3>1. tx \in Transaction /\ tx.gone \cup taken \in SUBSET Nat
      BY <2>2 DEF AccountInv, TxInv, Transaction, Account!Seen
    <3>2. PICK gone : gone = tx.gone \cup taken
      OBVIOUS
    <3>3. tx.step + 1 \in Nat \ {0}
      BY <1>1
    <3>4. tx' = [tx EXCEPT !.gone = gone, !.step = tx.step + 1]
      BY <2>1, <3>2
    <3> QED BY <1>1, <3>1, <3>2, <3>3, <3>4 DEF Transaction
  <2>4. Account!Seen' = Account!Seen \ taken /\ Left' = Left \ taken
    BY <1>1, <2>3 DEF Account!Seen, Left
  <2>5. \A i \in Account!Seen \ taken : held[i].table \in Below => held[i].of \in Account!Seen \ taken
    BY <1>1, <1>3, CascadeIsWhole DEF AccountInv
  <2>6. \A k \in 1 .. tx'.step - 1 : Done(k)'
    <3> SUFFICES ASSUME NEW k \in 1 .. tx.step, NEW i \in Left \ taken,
                        held[i].table = Account!DeletePlan[k].table
                 PROVE  Account!DeletePlan[k].op = "find" /\ i \in tx.ids[Account!DeletePlan[k].table]
      BY <1>1, <2>3, <2>4 DEF Done
    <3>1. CASE k = tx.step
      <4>1. i \in Account!Seen /\ Account!InScope(s, i)
        BY <1>1, <3>1, InItsScope DEF AccountInv
      <4> QED BY <4>1 DEF Account!Taken
    <3>2. CASE k # tx.step
      BY <1>1, <3>2 DEF AccountInv, TxInv, Done
    <3> QED BY <3>1, <3>2
  <2> HIDE DEF taken
  <2>7. TxInv'
    BY <1>1, <2>3, <2>4, <2>5, <2>6 DEF AccountInv, TxInv
  <2>8. HeldInv' /\ ReqInv' /\ ExportInv'
    BY <1>1 DEF AccountInv, HeldInv, ReqInv, ExportInv, Placed, Read
  <2> QED BY <2>7, <2>8 DEF AccountInv
<1> QED BY <1>2, <1>3

\* When the plan is through, nothing that was there is left.
LEMMA CommitKeeps == ASSUME AccountInv, Account!EraseCommit PROVE AccountInv'
<1>1. /\ tx.state = "running" /\ tx.step > 19 /\ tx.step <= 20
      /\ held' = [i \in Account!Seen |-> held[i]] /\ email' = "tombstone"
      /\ tx' = [Account!NoTx EXCEPT !.state = "done", !.calls = tx.calls, !.before = tx.before]
      /\ UNCHANGED <<next, req, export>>
  BY PlanFacts DEF Account!EraseCommit, AccountInv, TxInv
<1>2. Left = {}
  <2> SUFFICES ASSUME NEW i \in Left PROVE FALSE
    OBVIOUS
  <2>1. held[i].table \in Table
    BY <1>1 DEF AccountInv, HeldInv, TxInv, Left
  <2>2. PICK k \in 1 .. 19 : Account!DeletePlan[k].op = "delete" /\ Account!DeletePlan[k].table = held[i].table
    BY <2>1, PlanFacts
  <2>3. tx.step = 20
    BY <1>1 DEF AccountInv, TxInv, Transaction
  <2> QED BY <1>1, <2>2, <2>3 DEF AccountInv, TxInv, Done
<1>3. DOMAIN held' = Account!Seen /\ \A i \in Account!Seen : held'[i] = held[i]
  BY <1>1
<1>4. Account!NoIds \in [Found -> SUBSET Nat]
  BY DEF Account!NoIds, Found
<1>5. tx' = [state |-> "done", step |-> 1, ids |-> Account!NoIds, gone |-> {}, before |-> tx.before,
             email |-> "own", calls |-> tx.calls, interfered |-> TRUE]
  BY <1>1 DEF Account!NoTx
<1>6. tx' \in Transaction
  BY <1>4, <1>5 DEF AccountInv, TxInv, Transaction
<1>7. Account!Seen' = Account!Seen /\ tx.before \cap Account!Seen = {}
  BY <1>2, <1>3, <1>5 DEF Account!Seen, Left
<1>8. TxInv'
  <2>1. \A i \in Account!Seen' : held'[i].table \in Below => held'[i].of \in Account!Seen'
    BY <1>3, <1>7 DEF AccountInv, TxInv
  <2>2. tx.before \subseteq 1 .. next - 1
    BY DEF AccountInv, TxInv
  <2>3. tx'.before = tx.before /\ tx'.state = "done" /\ tx'.gone = {}
    BY <1>5
  <2> QED BY <1>1, <1>3, <1>6, <1>7, <2>1, <2>2, <2>3 DEF TxInv
<1>9. HeldInv'
  <2>1. Account!Seen \subseteq DOMAIN held
    BY DEF Account!Seen
  <2> QED BY <1>1, <1>3, <2>1 DEF AccountInv, HeldInv, TxInv
<1>10. ReqInv'
  BY <1>1, <1>3 DEF AccountInv, ReqInv, Placed, Account!Seen
<1>11. ExportInv'
  BY <1>1, <1>3 DEF AccountInv, ExportInv, Read, Account!Seen
<1> QED BY <1>8, <1>9, <1>10, <1>11 DEF AccountInv

----------------------------------------------------------------------------
(* The requests.                                                           *)

LEMMA RequestKeeps ==
    ASSUME AccountInv, NEW r \in Request, NEW call \in Call, req' = [req EXCEPT ![r] = call],
           call.at \in {"start", "resolve"} => call.todo = Account!Writes[call.kind],
           call.at = "insert" => Placed(call.under, call.todo),
           UNCHANGED <<held, next, email, tx, export>>
    PROVE  AccountInv'
<1>1. req \in [Request -> Call]
  BY DEF AccountInv, ReqInv
<1>2. req' \in [Request -> Call] /\ req'[r] = call /\ \A q \in Request \ {r} : req'[q] = req[q]
  BY <1>1
<1>3. ReqInv'
  BY <1>2 DEF AccountInv, ReqInv, Placed
<1>4. HeldInv' /\ ExportInv'
  BY DEF AccountInv, HeldInv, ExportInv, Read
<1>5. TxInv'
  BY DEF AccountInv, TxInv, Account!Seen, Done, Left
<1> QED BY <1>3, <1>4, <1>5 DEF AccountInv

LEMMA AuthenticateKeeps == ASSUME AccountInv, NEW r \in Request, Account!Authenticate(r) PROVE AccountInv'
<1>1. /\ req' = [req EXCEPT ![r].at = "resolve"] /\ req[r].at = "start" /\ req[r] \in Call
      /\ req[r].todo = Account!Writes[req[r].kind]
      /\ UNCHANGED <<held, next, email, tx, export>>
  BY DEF Account!Authenticate, Account!Unstarted, AccountInv, ReqInv
<1> DEFINE call == [req[r] EXCEPT !.at = "resolve"]
<1>2. call \in Call /\ call.at = "resolve" /\ call.todo = Account!Writes[call.kind]
  BY <1>1 DEF Call
<1>3. req' = [req EXCEPT ![r] = call]
  BY <1>1
<1> HIDE DEF call
<1> QED BY <1>1, <1>2, <1>3, RequestKeeps

LEMMA EndKeeps ==
    ASSUME AccountInv, NEW r \in Request, req' = [req EXCEPT ![r] = Account!Ended(r)],
           UNCHANGED <<held, next, email, tx, export>>
    PROVE  AccountInv'
<1>1. req[r] \in Call
  BY DEF AccountInv, ReqInv
<1>2. Account!Ended(r) \in Call /\ Account!Ended(r).at = "end"
  BY <1>1 DEF Account!Ended, Call
<1> QED BY <1>2, RequestKeeps

LEMMA GoesKeeps ==
    ASSUME AccountInv, NEW r \in Request, NEW under, NEW todo, Account!Goes(r, under, todo),
           Placed(under, todo), UNCHANGED <<held, next, email, tx, export>>
    PROVE  AccountInv'
<1>1. req[r] \in Call
  BY DEF AccountInv, ReqInv
<1> DEFINE call == [req[r] EXCEPT !.at = "insert", !.under = under, !.todo = todo]
<1>2. call \in Call /\ call.at = "insert" /\ call.under = under /\ call.todo = todo
  BY <1>1 DEF Call, Placed
<1>3. req' = [req EXCEPT ![r] = call]
  BY DEF Account!Goes
<1> HIDE DEF call
<1> QED BY <1>2, <1>3, RequestKeeps

\* Every kind of request goes by a held of the table its first insert needs.
LEMMA ResolveKeeps == ASSUME AccountInv, NEW r \in Request, Account!Resolve(r) PROVE AccountInv'
<1>1. /\ req[r].at = "resolve" /\ req[r].todo = Account!Writes[req[r].kind]
      /\ UNCHANGED <<held, next, email, tx, export>>
  BY DEF Account!Resolve, AccountInv, ReqInv
<1>2. next \in Nat \ {0} /\ \A i \in DOMAIN held : i \in Nat /\ i # 0 /\ i < next
  BY DEF AccountInv, HeldInv
<1>3. CASE req' = [req EXCEPT ![r] = Account!Ended(r)]
  BY <1>1, <1>3, EndKeeps
<1>4. CASE Account!ResolveEnrolment(r) /\ req' # [req EXCEPT ![r] = Account!Ended(r)]
  <2>1. Account!Goes(r, 0, <<"Enrollment">>)
    BY <1>1, <1>4 DEF Account!ResolveEnrolment, Account!Writes
  <2>2. Placed(0, <<"Enrollment">>)
    BY <1>2 DEF Placed, Todos
  <2> QED BY <1>1, <2>1, <2>2, GoesKeeps
<1>5. CASE Account!ResolveAttempt(r) /\ req' # [req EXCEPT ![r] = Account!Ended(r)]
  <2>1. CASE \E e \in Account!Of("Enrollment") : Account!Goes(r, e, req[r].todo)
    <3>1. PICK e \in Account!Of("Enrollment") : Account!Goes(r, e, <<"StageAttempt", "Submission">>)
      BY <1>1, <1>5, <2>1 DEF Account!ResolveAttempt, Account!Writes
    <3>2. Placed(e, <<"StageAttempt", "Submission">>)
      BY <1>2 DEF Placed, Todos, Account!Of, GoesBy
    <3> QED BY <1>1, <3>1, <3>2, GoesKeeps
  <2>2. CASE \E a \in Account!Of("StageAttempt") : Account!Goes(r, a, <<"Submission">>)
    <3>1. PICK a \in Account!Of("StageAttempt") : Account!Goes(r, a, <<"Submission">>)
      BY <2>2
    <3>2. Placed(a, <<"Submission">>)
      BY <1>2 DEF Placed, Todos, Account!Of, GoesBy
    <3> QED BY <1>1, <3>1, <3>2, GoesKeeps
  <2> QED BY <1>5, <2>1, <2>2 DEF Account!ResolveAttempt
<1>6. CASE Account!ResolveSubmission(r) /\ req' # [req EXCEPT ![r] = Account!Ended(r)]
  <2>1. PICK s \in Account!Of("Submission") : Account!Goes(r, s, req[r].todo)
    BY <1>6 DEF Account!ResolveSubmission
  <2>2. PICK todo \in {<<"Run">>, <<"Grade">>} : todo = req[r].todo
    BY <1>1, <1>6 DEF Account!ResolveSubmission, Account!Writes
  <2>3. Placed(s, todo)
    BY <1>2 DEF Placed, Todos, Account!Of, GoesBy
  <2> QED BY <1>1, <2>1, <2>2, <2>3, GoesKeeps
<1>7. CASE Account!ResolveThread(r) /\ req' # [req EXCEPT ![r] = Account!Ended(r)]
  <2>1. req[r].todo = <<"MentorThread", "MentorMessage", "MentorMessage">>
    BY <1>1, <1>7 DEF Account!ResolveThread, Account!Writes
  <2>2. PICK e \in Account!Of("Enrollment") :
           \/ Account!Goes(r, e, req[r].todo)
           \/ \E t \in Account!Of("MentorThread") : Account!Goes(r, t, Tail(req[r].todo))
    BY <1>7 DEF Account!ResolveThread
  <2>3. CASE Account!Goes(r, e, req[r].todo)
    <3>1. Placed(e, <<"MentorThread", "MentorMessage", "MentorMessage">>)
      BY <1>2 DEF Placed, Todos, Account!Of, GoesBy
    <3> QED BY <1>1, <2>1, <2>3, <3>1, GoesKeeps
  <2>4. CASE \E t \in Account!Of("MentorThread") : Account!Goes(r, t, Tail(req[r].todo))
    <3>1. PICK t \in Account!Of("MentorThread") : Account!Goes(r, t, Tail(req[r].todo))
      BY <2>4
    <3>2. Tail(req[r].todo) = <<"MentorMessage", "MentorMessage">>
      BY <2>1
    <3>3. Placed(t, <<"MentorMessage", "MentorMessage">>)
      BY <1>2 DEF Placed, Todos, Account!Of, GoesBy
    <3> QED BY <1>1, <3>1, <3>2, <3>3, GoesKeeps
  <2> QED BY <2>2, <2>3, <2>4
<1>8. CASE Account!ResolveLogin(r)
  <2>1. Account!Goes(r, 0, <<"Session">>)
    BY <1>1, <1>8 DEF Account!ResolveLogin, Account!Writes
  <2>2. Placed(0, <<"Session">>)
    BY <1>2 DEF Placed, Todos
  <2> QED BY <1>1, <2>1, <2>2, GoesKeeps
<1> QED BY <1>3, <1>4, <1>5, <1>6, <1>7, <1>8 DEF Account!Resolve

LEMMA Lists ==
    \A todo \in Todos :
        LET t == Head(todo)
            rest == Tail(todo)
        IN  /\ t \in {"Enrollment", "StageAttempt", "Submission", "Run", "MentorThread",
                      "MentorMessage", "Grade", "Session"}
            /\ rest = <<>> \/ rest \in Todos
            /\ rest # <<>> =>
                 \/ (t = "StageAttempt" /\ Head(rest) = "Submission")
                 \/ (t \in {"MentorThread", "MentorMessage"} /\ Head(rest) = "MentorMessage")
<1>1. ASSUME NEW x PROVE Head(<<x>>) = x /\ Tail(<<x>>) = <<>>
  OBVIOUS
<1>2. ASSUME NEW x, NEW y PROVE Head(<<x, y>>) = x /\ Tail(<<x, y>>) = <<y>>
  OBVIOUS
<1>3. ASSUME NEW x, NEW y, NEW z PROVE Head(<<x, y, z>>) = x /\ Tail(<<x, y, z>>) = <<y, z>>
  OBVIOUS
<1>4. ASSUME NEW x, <<x>> \in Todos
      PROVE  x \in {"Enrollment", "Submission", "Run", "MentorMessage", "Grade", "Session"}
  BY <1>4 DEF Todos
<1>5. ASSUME NEW todo \in Todos
      PROVE  \/ \E x : todo = <<x>>
             \/ todo = <<"StageAttempt", "Submission">>
             \/ todo = <<"MentorMessage", "MentorMessage">>
             \/ todo = <<"MentorThread", "MentorMessage", "MentorMessage">>
  BY Zenon DEF Todos
<1>6. /\ <<"Submission">> \in Todos /\ <<"MentorMessage">> \in Todos
      /\ <<"MentorMessage", "MentorMessage">> \in Todos
  BY Zenon DEF Todos
<1> SUFFICES ASSUME NEW todo \in Todos, NEW t, t = Head(todo), NEW rest, rest = Tail(todo)
             PROVE  /\ t \in {"Enrollment", "StageAttempt", "Submission", "Run", "MentorThread",
                             "MentorMessage", "Grade", "Session"}
                    /\ rest = <<>> \/ rest \in Todos
                    /\ rest # <<>> =>
                         \/ (t = "StageAttempt" /\ Head(rest) = "Submission")
                         \/ (t \in {"MentorThread", "MentorMessage"} /\ Head(rest) = "MentorMessage")
  OBVIOUS
<1>7. CASE \E x : todo = <<x>>
  BY <1>1, <1>4, <1>7
<1>8. CASE todo = <<"StageAttempt", "Submission">>
  <2>1. t = "StageAttempt" /\ rest = <<"Submission">>
    BY <1>2, <1>8
  <2>2. Head(<<"Submission">>) = "Submission"
    BY <1>1
  <2> QED BY <1>6, <2>1, <2>2
<1>9. CASE todo = <<"MentorMessage", "MentorMessage">>
  <2>1. t = "MentorMessage" /\ rest = <<"MentorMessage">>
    BY <1>2, <1>9
  <2>2. Head(<<"MentorMessage">>) = "MentorMessage"
    BY <1>1
  <2> QED BY <1>6, <2>1, <2>2
<1>10. CASE todo = <<"MentorThread", "MentorMessage", "MentorMessage">>
  <2>1. t = "MentorThread" /\ rest = <<"MentorMessage", "MentorMessage">>
    BY <1>3, <1>10
  <2>2. Head(<<"MentorMessage", "MentorMessage">>) = "MentorMessage"
    BY <1>2
  <2> QED BY <1>6, <2>1, <2>2
<1> QED BY <1>5, <1>7, <1>8, <1>9, <1>10

\* The held a request inserts hangs where its table says; what it inserts next
\* goes by it, or by the same thread.
Fits(t, owner, rest) ==
    /\ t \in Table
    /\ t \in Top => owner = 0
    /\ t \in Below => owner \in Account!Seen /\ held[owner].table = Parent[t]
    /\ rest = <<>> \/ rest \in Todos
    /\ rest # <<>> =>
         /\ t = "MentorMessage" => Head(rest) = "MentorMessage"
         /\ t # "MentorMessage" => GoesBy[Head(rest)] = t
         /\ Head(rest) \in {"Submission", "MentorMessage"}

LEMMA NewRow ==
    ASSUME AccountInv, NEW r \in Request, Account!Insert(r)
    PROVE  Fits(Head(req[r].todo), Account!OwnerOf(r), Tail(req[r].todo))
<1>1. PICK todo, t, owner, rest : /\ todo = req[r].todo /\ t = Head(req[r].todo)
                                 /\ owner = Account!OwnerOf(r) /\ rest = Tail(req[r].todo)
  OBVIOUS
<1>2. PICK under : under = req[r].under
  OBVIOUS
<1>3. Placed(under, todo) /\ (under = 0 \/ under \in Account!Seen)
  BY <1>1, <1>2 DEF Account!Insert, AccountInv, ReqInv
<1>4. owner = IF t = "Grade" THEN held[under].of ELSE under
  BY <1>1, <1>2 DEF Account!OwnerOf
<1>5. t = Head(todo) /\ rest = Tail(todo)
  BY <1>1
<1>6. /\ t \in {"Enrollment", "Session"} => under = 0
      /\ t \notin {"Enrollment", "Session"} => under \in Account!Seen /\ held[under].table = GoesBy[t]
  BY <1>3, <1>5 DEF Placed, Account!Seen
<1>7. /\ t \in {"Enrollment", "StageAttempt", "Submission", "Run", "MentorThread",
                "MentorMessage", "Grade", "Session"}
      /\ rest = <<>> \/ rest \in Todos
      /\ rest # <<>> => \/ (t = "StageAttempt" /\ Head(rest) = "Submission")
                       \/ (t \in {"MentorThread", "MentorMessage"} /\ Head(rest) = "MentorMessage")
  BY <1>3, <1>5, Lists DEF Placed
<1> SUFFICES Fits(t, owner, rest)
  BY <1>1
<1>8. CASE t = "Grade"
  <2>1. under \in Account!Seen /\ under \in DOMAIN held /\ held[under].table = "Submission"
    BY <1>6, <1>8 DEF GoesBy, Account!Seen
  <2>2. owner \in Account!Seen /\ held[owner].table = "StageAttempt"
    BY <1>4, <1>8, <2>1 DEF AccountInv, HeldInv, TxInv, Below, Parent
  <2> QED BY <1>7, <1>8, <2>2 DEF Fits, Table, Top, Below, Parent
<1>9. CASE t # "Grade"
  BY <1>4, <1>6, <1>7, <1>9 DEF Fits, Table, Top, Below, GoesBy, Parent
<1> QED BY <1>8, <1>9

LEMMA InsertKeeps == ASSUME AccountInv, NEW r \in Request, Account!Insert(r) PROVE AccountInv'
<1>1. PICK all : all = req[r].todo
  OBVIOUS
<1>2. PICK t, owner, todo, under : /\ t = Head(all) /\ owner = Account!OwnerOf(r)
                                  /\ todo = Tail(all) /\ under = req[r].under
  OBVIOUS
<1>3. /\ req[r].at = "insert" /\ Placed(under, all)
      /\ held' = [i \in DOMAIN held \cup {next} |-> IF i = next THEN Account!Row(t, owner) ELSE held[i]]
      /\ next' = next + 1 /\ UNCHANGED <<email, tx, export>>
  BY <1>1, <1>2 DEF Account!Insert, AccountInv, ReqInv
<1>4. /\ next \in Nat \ {0} /\ \A i \in DOMAIN held : i \in Nat /\ i # 0 /\ i < next
      /\ next' \in Nat \ {0} /\ next \in 1 .. next' - 1 /\ 1 .. next - 1 \subseteq 1 .. next' - 1
      /\ next \notin 1 .. next - 1 /\ next \notin DOMAIN held
  BY <1>3 DEF AccountInv, HeldInv
<1>5. /\ DOMAIN held' = DOMAIN held \cup {next} /\ \A i \in DOMAIN held : held'[i] = held[i]
      /\ held'[next].table = t /\ held'[next].of = owner
  BY <1>3, <1>4 DEF Account!Row
<1>6. /\ t \in Table
      /\ t \in Top => owner = 0
      /\ t \in Below => owner \in Account!Seen /\ held[owner].table = Parent[t]
      /\ todo = <<>> \/ todo \in Todos
      /\ todo # <<>> =>
           /\ t = "MentorMessage" => Head(todo) = "MentorMessage"
           /\ t # "MentorMessage" => GoesBy[Head(todo)] = t
           /\ Head(todo) \in {"Submission", "MentorMessage"}
  <2>1. Fits(t, owner, todo)
    BY <1>1, <1>2, NewRow
  <2> QED BY <2>1 DEF Fits
<1>7. HeldInv'
  <2>1. DOMAIN held' \subseteq 1 .. next' - 1
    BY <1>4, <1>5 DEF AccountInv, HeldInv
  <2>2. ASSUME NEW i \in DOMAIN held
        PROVE  /\ held'[i].table \in Table
               /\ held'[i].table \in Top => held'[i].of = 0
               /\ held'[i].table \in Below => /\ held'[i].of \in DOMAIN held'
                                             /\ held'[held'[i].of].table = Parent[held'[i].table]
    BY <1>5 DEF AccountInv, HeldInv
  <2>3. /\ held'[next].table \in Table
        /\ held'[next].table \in Top => held'[next].of = 0
        /\ held'[next].table \in Below => /\ held'[next].of \in DOMAIN held'
                                         /\ held'[held'[next].of].table = Parent[held'[next].table]
    <3>1. t \in Below => owner \in DOMAIN held
      BY <1>6 DEF Account!Seen
    <3>2. t \in Below => held'[owner].table = Parent[t] /\ owner \in DOMAIN held'
      BY <1>5, <1>6, <3>1
    <3>3. PICK new : new = held'[next]
      OBVIOUS
    <3>4. new.table = t /\ new.of = owner
      BY <1>5, <3>3
    <3>5. /\ new.table \in Table
          /\ new.table \in Top => new.of = 0
          /\ new.table \in Below => new.of \in DOMAIN held' /\ held'[new.of].table = Parent[new.table]
      BY <1>6, <3>2, <3>4
    <3> QED BY <3>3, <3>5
  <2> QED BY <1>4, <1>5, <2>1, <2>2, <2>3 DEF HeldInv
<1>8. TxInv'
  <2>1. next \notin tx.before /\ tx.gone \subseteq Nat
        /\ tx.before \subseteq 1 .. next' - 1
    BY <1>4 DEF AccountInv, TxInv, Transaction
  <2>2. Account!Seen \subseteq Account!Seen' /\ Account!Seen' \subseteq Account!Seen \cup {next}
    BY <1>3, <1>5 DEF Account!Seen
  <2>3. \A i \in Account!Seen' : held'[i].table \in Below => held'[i].of \in Account!Seen'
    <3> SUFFICES ASSUME NEW i \in Account!Seen', held'[i].table \in Below PROVE held'[i].of \in Account!Seen'
      OBVIOUS
    <3>1. CASE i = next
      BY <1>5, <1>6, <2>2, <3>1
    <3>2. CASE i \in Account!Seen
      <4>1. i \in DOMAIN held
        BY <3>2 DEF Account!Seen
      <4> QED BY <1>5, <2>2, <3>2, <4>1 DEF AccountInv, TxInv
    <3> QED BY <2>2, <3>1, <3>2
  <2>4. CASE tx.state = "running"
    <3>1. tx.before \subseteq DOMAIN held /\ tx.before \subseteq DOMAIN held'
      BY <1>5, <2>4 DEF AccountInv, TxInv
    <3>2. \A i \in tx.before : held'[i].table \in Below => held'[i].of \in tx.before
      BY <1>5, <2>4, <3>1 DEF AccountInv, TxInv
    <3>3. ASSUME NEW k \in 1 .. tx.step - 1 PROVE Done(k)'
      BY <1>3, <1>5, <2>4, <3>1 DEF AccountInv, TxInv, Done, Left
    <3> QED BY <1>3, <2>1, <2>3, <2>4, <3>1, <3>2, <3>3 DEF AccountInv, TxInv
  <2>5. CASE tx.state # "running"
    BY <1>3, <1>5, <2>1, <2>3, <2>5 DEF AccountInv, TxInv
  <2> QED BY <2>4, <2>5
<1>9. ReqInv'
  <2>1. ASSUME NEW u, NEW p, Placed(u, p) PROVE Placed(u, p)'
    BY <1>4, <1>5, <2>1, <1>3 DEF Placed
  <2>2. PICK call \in Call :
           /\ req' = [req EXCEPT ![r] = call]
           /\ \/ call.at = "end"
              \/ call.at = "insert" /\ Placed(call.under, call.todo)'
    <3>1. req[r] \in Call
      BY DEF AccountInv, ReqInv
    <3>2. CASE todo = <<>>
      <4>1. req' = [req EXCEPT ![r] = Account!Ended(r)]
        BY <1>1, <1>2, <3>2 DEF Account!Insert
      <4>2. Account!Ended(r) \in Call /\ Account!Ended(r).at = "end"
        BY <3>1 DEF Account!Ended, Call
      <4> QED BY <4>1, <4>2
    <3>3. CASE todo # <<>>
      <4>1. PICK by : by = IF t = "MentorMessage" THEN under ELSE next
        OBVIOUS
      <4>2. Account!Goes(r, by, todo)
        BY <1>1, <1>2, <3>3, <4>1 DEF Account!Insert
      <4> DEFINE call == [req[r] EXCEPT !.at = "insert", !.under = by, !.todo = todo]
      <4>3. req' = [req EXCEPT ![r] = call]
        BY <4>2 DEF Account!Goes
      <4>4. /\ todo \in Todos
            /\ t = "MentorMessage" => Head(todo) = "MentorMessage"
            /\ t # "MentorMessage" => GoesBy[Head(todo)] = t
            /\ Head(todo) \in {"Submission", "MentorMessage"}
        BY <1>6, <3>3
      <4>5. Placed(by, todo)'
        <5>1. CASE t = "MentorMessage"
          <6>1. Head(all) = "MentorMessage" /\ by = under
            BY <1>2, <4>1, <5>1
          <6>2. /\ under \in Nat /\ under < next /\ under < next' /\ under # 0
                /\ under \in DOMAIN held => held[under].table = "MentorThread"
            BY <1>3, <1>4, <6>1 DEF Placed, GoesBy
          <6>3. under \in DOMAIN held' => held'[under].table = "MentorThread"
            BY <1>4, <1>5, <6>2
          <6>4. Head(todo) = "MentorMessage" /\ todo \in Todos
            BY <4>4, <5>1
          <6> QED BY <6>1, <6>2, <6>3, <6>4 DEF Placed, GoesBy
        <5>2. CASE t # "MentorMessage"
          BY <1>3, <1>4, <1>5, <4>1, <4>4, <5>2 DEF Placed
        <5> QED BY <5>1, <5>2
      <4>6. call \in Call /\ call.at = "insert" /\ call.under = by /\ call.todo = todo
        BY <3>1, <4>4, <4>5, <1>4 DEF Call, Placed
      <4> HIDE DEF call
      <4> QED BY <4>3, <4>5, <4>6
    <3> QED BY <3>2, <3>3
  <2>3. req \in [Request -> Call]
    BY DEF AccountInv, ReqInv
  <2>4. req' \in [Request -> Call] /\ req'[r] = call /\ \A q \in Request \ {r} : req'[q] = req[q]
    BY <2>2, <2>3
  <2>5. ASSUME NEW q \in Request, NEW c, c = req'[q]
        PROVE  /\ c.at \in {"start", "resolve"} => c.todo = Account!Writes[c.kind]
               /\ c.at = "insert" => Placed(c.under, c.todo)'
    <3>1. CASE q = r
      BY <2>2, <2>4, <2>5, <3>1
    <3>2. CASE q # r
      <4>1. c = req[q]
        BY <2>4, <2>5, <3>2
      <4>2. /\ c.at \in {"start", "resolve"} => c.todo = Account!Writes[c.kind]
            /\ c.at = "insert" => Placed(c.under, c.todo)
        BY <4>1 DEF AccountInv, ReqInv
      <4> QED BY <2>1, <4>2
    <3> QED BY <3>1, <3>2
  <2> QED BY <2>4, <2>5 DEF ReqInv, Placed
<1>10. ExportInv'
  <2>1. next \notin export.since /\ export.since \subseteq 1 .. next' - 1
    BY <1>4 DEF AccountInv, ExportInv
  <2> QED BY <1>3, <1>5, <2>1 DEF AccountInv, ExportInv, Read
<1> QED BY <1>7, <1>8, <1>9, <1>10 DEF AccountInv

LEMMA InsertFailsKeeps ==
    ASSUME AccountInv, NEW r \in Request, Account!InsertFails(r) PROVE AccountInv'
BY EndKeeps DEF Account!InsertFails

----------------------------------------------------------------------------
(* The export.                                                             *)

\* A held is read by its parent only in a wave after its parent's.
LEMMA WavesFacts ==
    /\ DOMAIN Account!Waves = 1 .. 4 /\ Len(Account!Waves) = 4
    /\ \A w \in 1 .. 4 : Account!Waves[w] # {} /\ Account!Waves[w] \subseteq Account!Exported
    /\ \A w \in 1 .. 4 : \A t \in Account!Waves[w] :
         t \in Below /\ t # "ShareCard" => \E v \in 1 .. w - 1 : Parent[t] \in Account!Waves[v]
<1>1. DOMAIN Account!Waves = 1 .. 4 /\ Len(Account!Waves) = 4
  BY DEF Account!Waves
<1>2. \A w \in 1 .. 4 : Account!Waves[w] # {} /\ Account!Waves[w] \subseteq Account!Exported
  <2>1. \A w \in 1 .. 4 : Account!Waves[w] \subseteq Account!Exported
    BY <1>1 DEF Account!Exported
  <2> QED BY <2>1 DEF Account!Waves
<1>3. ASSUME NEW w \in 1 .. 4, NEW t \in Account!Waves[w], t \in Below, t # "ShareCard"
      PROVE  \E v \in 1 .. w - 1 : Parent[t] \in Account!Waves[v]
  <2>1. CASE w = 1
    BY <1>3, <2>1 DEF Account!Waves, Below
  <2>2. CASE w = 2
    <3>1. Parent[t] \in Account!Waves[1]
      BY <1>3, <2>2 DEF Account!Waves, Below, Parent
    <3> QED BY <2>2, <3>1
  <2>3. CASE w = 3
    <3>1. Parent[t] \in Account!Waves[2]
      BY <1>3, <2>3 DEF Account!Waves, Below, Parent
    <3> QED BY <2>3, <3>1
  <2>4. CASE w = 4
    <3>1. Parent[t] \in Account!Waves[3] \/ Parent[t] \in Account!Waves[2]
      BY <1>3, <2>4 DEF Account!Waves, Below, Parent
    <3> QED BY <2>4, <3>1
  <2> QED BY <2>1, <2>2, <2>3, <2>4
<1> QED BY <1>1, <1>2, <1>3

LEMMA ExportBeginKeeps ==
    ASSUME AccountInv, NEW r \in Request, Account!ExportBegin(r) PROVE AccountInv'
<1>1. req' = [req EXCEPT ![r] = Account!Ended(r)] /\ UNCHANGED <<held, next, email, tx>>
  BY DEF Account!ExportBegin
<1>2. ReqInv'
  <2>1. req \in [Request -> Call] /\ req[r] \in Call
    BY DEF AccountInv, ReqInv
  <2>2. Account!Ended(r) \in Call /\ Account!Ended(r).at = "end"
    BY <2>1 DEF Account!Ended, Call
  <2>3. /\ req' \in [Request -> Call] /\ req'[r] = Account!Ended(r)
        /\ \A q \in Request \ {r} : req'[q] = req[q]
    BY <1>1, <2>1, <2>2
  <2> QED BY <1>1, <2>2, <2>3 DEF AccountInv, ReqInv, Placed
<1>3. ExportInv'
  <2>1. CASE export.wave # 0
    <3>1. export' = export
      BY <2>1 DEF Account!ExportBegin
    <3> QED BY <1>1, <3>1 DEF AccountInv, ExportInv, Read
  <2>2. CASE export.wave = 0
    <3>1. export' = [wave |-> 1, left |-> Account!Waves[1], ids |-> {}, since |-> DOMAIN held]
      BY <2>2 DEF Account!ExportBegin
    <3>2. DOMAIN held \subseteq 1 .. next - 1 /\ DOMAIN held \subseteq Nat
      BY DEF AccountInv, HeldInv
    <3>3. \A t : ~Read(t)'
      BY <3>1 DEF Read
    <3>4. \A i \in DOMAIN held : held[i].table \in Below => held[i].of \in DOMAIN held
      BY DEF AccountInv, HeldInv
    <3> QED BY <1>1, <3>1, <3>2, <3>3, <3>4, WavesFacts DEF ExportInv
  <2> QED BY <2>1, <2>2
<1>4. HeldInv' /\ TxInv'
  BY <1>1 DEF AccountInv, HeldInv, TxInv, Account!Seen, Done, Left
<1> QED BY <1>2, <1>3, <1>4 DEF AccountInv

LEMMA ExportReadKeeps ==
    ASSUME AccountInv, NEW t \in Account!Exported, Account!ExportRead(t) PROVE AccountInv'
<1> DEFINE found == {i \in Account!Of(t) : held[i].of \in export.ids \cup {0} \/ t = "ShareCard"}
           left == export.left \ {t}
           over == left = {} /\ export.wave < Len(Account!Waves)
<1>1. /\ t \in export.left /\ UNCHANGED <<held, next, email, tx, req>>
      /\ export' = [export EXCEPT !.ids = @ \cup found,
                                  !.left = IF over THEN Account!Waves[export.wave + 1] ELSE left,
                                  !.wave = IF over THEN @ + 1 ELSE @]
  BY DEF Account!ExportRead
<1>2. /\ export \in [wave : 0 .. 4, left : SUBSET Account!Exported, ids : SUBSET Nat, since : SUBSET Nat]
      /\ export.wave \in 1 .. 4 /\ t \in Account!Waves[export.wave]
      /\ export.left \subseteq Account!Waves[export.wave]
  BY <1>1 DEF AccountInv, ExportInv
<1>3. found \subseteq Nat
  BY DEF AccountInv, HeldInv, Account!Of
<1>4. \A i \in export.since \cap DOMAIN held : held[i].table = t => i \in found
  <2> SUFFICES ASSUME NEW i \in export.since \cap DOMAIN held, held[i].table = t, t # "ShareCard"
               PROVE  held[i].of \in export.ids \cup {0}
    BY DEF Account!Of
  <2>1. CASE t \in Top
    BY <2>1 DEF AccountInv, HeldInv
  <2>2. CASE t \in Below
    <3>1. PICK w \in 1 .. export.wave - 1 : Parent[t] \in Account!Waves[w]
      BY <1>2, <2>2, WavesFacts
    <3>2. held[i].of \in DOMAIN held /\ held[held[i].of].table = Parent[t]
      BY <2>2 DEF AccountInv, HeldInv
    <3>3. held[i].of \in export.since
      BY <1>2, <2>2 DEF AccountInv, ExportInv
    <3>4. Read(held[held[i].of].table)
      BY <3>1, <3>2 DEF Read
    <3> QED BY <1>2, <3>2, <3>3, <3>4 DEF AccountInv, ExportInv
  <2> QED BY <2>1, <2>2 DEF AccountInv, HeldInv, Table
<1> HIDE DEF found
<1>5. PICK ids, still, wave :
         /\ ids = export.ids \cup found
         /\ still = IF over THEN Account!Waves[export.wave + 1] ELSE left
         /\ wave = IF over THEN export.wave + 1 ELSE export.wave
  OBVIOUS
<1>6. export' = [export EXCEPT !.ids = ids, !.left = still, !.wave = wave]
  BY <1>1, <1>5
<1>7. wave \in 1 .. 4 /\ still \subseteq Account!Waves[wave] /\ (still = {} => wave = 4)
  BY <1>2, <1>5, WavesFacts
<1>8. /\ export'.ids = ids /\ export'.left = still /\ export'.wave = wave
      /\ export'.since = export.since
      /\ export' \in [wave : 0 .. 4, left : SUBSET Account!Exported, ids : SUBSET Nat, since : SUBSET Nat]
  <2>1. still \in SUBSET Account!Exported
    BY <1>7, WavesFacts
  <2>2. export.ids \in SUBSET Nat
    BY <1>2
  <2>3. ids \in SUBSET Nat
    BY <1>3, <1>5, <2>2
  <2>4. wave \in 0 .. 4
    BY <1>7
  <2> QED BY <1>2, <1>6, <2>1, <2>3, <2>4
<1>9. ASSUME NEW s, Read(s)', s # t PROVE Read(s)
  <2>1. CASE over
    <3>1. wave = export.wave + 1 /\ still = Account!Waves[wave] /\ export.left = {t}
      BY <1>1, <1>5, <2>1
    <3>2. PICK w \in 1 .. export.wave : s \in Account!Waves[w]
      BY <1>2, <1>8, <1>9, <3>1 DEF Read
    <3> QED BY <1>2, <1>9, <3>1, <3>2 DEF Read
  <2>2. CASE ~over
    BY <1>5, <1>8, <1>9, <2>2 DEF Read
  <2> QED BY <2>1, <2>2
<1>10. ExportInv'
  <2>1. \A i \in export.since \cap DOMAIN held :
           /\ held[i].table \in Below => held[i].of \in export.since
           /\ Read(held[i].table)' => i \in ids
    <3> SUFFICES ASSUME NEW i \in export.since \cap DOMAIN held, NEW s, s = held[i].table
                 PROVE  /\ s \in Below => held[i].of \in export.since
                        /\ Read(s)' => i \in ids
      BY <1>1
    <3>1. /\ s \in Below => held[i].of \in export.since
          /\ Read(s) => i \in export.ids
      BY <1>2 DEF AccountInv, ExportInv
    <3> QED BY <1>4, <1>5, <1>9, <3>1
  <2>2. export.since \subseteq 1 .. next - 1
    BY DEF AccountInv, ExportInv
  <2>3. wave > 0 /\ wave # 0
    BY <1>7
  <2> QED BY <1>1, <1>7, <1>8, <2>1, <2>2, <2>3 DEF ExportInv, Read
<1>11. HeldInv' /\ TxInv' /\ ReqInv'
  BY <1>1 DEF AccountInv, HeldInv, TxInv, Account!Seen, Done, Left, ReqInv, Placed
<1> QED BY <1>10, <1>11 DEF AccountInv

----------------------------------------------------------------------------
(* The invariant.                                                          *)

LEMMA AccountInit == Account!Init => AccountInv
<1> SUFFICES ASSUME Account!Init PROVE AccountInv
  OBVIOUS
<1>1. HeldInv
  <2>1. CASE held = Account!Fresh /\ next = 5
    <3>1. DOMAIN held = 1 .. 4 /\ \A i \in 1 .. 4 : held[i].table \in Top /\ held[i].of = 0
      BY <2>1 DEF Account!Fresh, Account!Row, Top
    <3> QED BY <2>1, <3>1 DEF HeldInv, Table, Top, Below
  <2>2. CASE held = Account!History /\ next = 16
    <3>1. DOMAIN held = 1 .. 15
      BY <2>2 DEF Account!History
    <3>2. ASSUME NEW i \in 1 .. 7 PROVE held[i].table \in Top /\ held[i].of = 0
      BY <2>2, <3>2 DEF Account!History, Account!Row, Top
    <3>3. ASSUME NEW i \in 8 .. 15
          PROVE  /\ held[i].table \in Below /\ held[i].of \in 1 .. 15
                 /\ held[held[i].of].table = Parent[held[i].table]
      BY <2>2, <3>3 DEF Account!History, Account!Row, Below, Parent
    <3>4. \A i \in 1 .. 15 : i \in 1 .. 7 \/ i \in 8 .. 15
      OBVIOUS
    <3> QED BY <2>2, <3>1, <3>2, <3>3, <3>4, SMTT(60) DEF HeldInv, Table, Top, Below
  <2>3. Len(Account!Fresh) = 4 /\ Len(Account!History) = 15
    BY DEF Account!Fresh, Account!History
  <2>4. \/ held = Account!Fresh /\ next = Len(Account!Fresh) + 1
        \/ held = Account!History /\ next = Len(Account!History) + 1
    BY Zenon DEF Account!Init
  <2> QED BY <2>1, <2>2, <2>3, <2>4
<1>2. TxInv
  <2>1. Account!NoIds \in [Found -> SUBSET Nat]
    BY DEF Account!NoIds, Found
  <2>2. tx = [state |-> "none", step |-> 1, ids |-> Account!NoIds, gone |-> {}, before |-> {},
              email |-> "own", calls |-> 0, interfered |-> TRUE]
    BY DEF Account!Init, Account!NoTx
  <2>3. tx \in Transaction
    BY <2>1, <2>2 DEF Transaction
  <2> QED BY <1>1, <2>2, <2>3 DEF Account!Init, TxInv, HeldInv, Account!Seen
<1>3. ReqInv
  <2>1. PICK kind \in [Request -> Kinds] : req = [r \in Request |-> Account!Idle(kind[r])]
    BY DEF Account!Init
  <2>2. ASSUME NEW k \in DOMAIN Account!Writes PROVE Account!Writes[k] \in Todos \cup {<<>>}
    BY DEF Account!Writes, Todos
  <2>3. ASSUME NEW r \in Request
        PROVE  req[r] \in Call /\ req[r].at = "start" /\ req[r].todo = Account!Writes[req[r].kind]
    BY <2>1, <2>2, HousekeepingAssumption DEF Account!AccountAssumption, Account!Idle, Call
  <2> QED BY <2>1, <2>3 DEF ReqInv
<1>4. ExportInv
  BY DEF Account!Init, ExportInv
<1> QED BY <1>1, <1>2, <1>3, <1>4 DEF AccountInv

LEMMA AccountStep == AccountInv /\ [Account!Next]_(Account!vars) => AccountInv'
<1> SUFFICES ASSUME AccountInv, [Account!Next]_(Account!vars) PROVE AccountInv'
  OBVIOUS
<1>1. CASE Account!Erase
  BY <1>1, BeginKeeps, FindIdsKeeps, DeleteKeeps, CommitKeeps, LostKeeps DEF Account!Erase
<1>2. ASSUME NEW r \in Request, Account!Authenticate(r) \/ Account!Proceed(r) PROVE AccountInv'
  BY <1>2, AuthenticateKeeps, ResolveKeeps, InsertKeeps, InsertFailsKeeps, ExportBeginKeeps
     DEF Account!Proceed
<1>3. ASSUME NEW t \in Account!Exported, Account!ExportRead(t) PROVE AccountInv'
  BY <1>3, ExportReadKeeps
<1>4. CASE UNCHANGED Account!vars
  BY <1>4
     DEF Account!vars, AccountInv, HeldInv, TxInv, ReqInv, ExportInv, Placed, Read, Account!Seen, Done, Left
<1> QED BY <1>1, <1>2, <1>3, <1>4 DEF Account!Next

LEMMA AccountIsSound == AllSpec => []AccountInv
<1> QED BY AccountInit, AccountStep, PartsRun, PTL

\* Once deleteAccount has returned, nothing the learner had when it began is
\* left, whatever requests ran beside it and however many of its calls failed.
THEOREM ErasureIsAlwaysComplete == AllSpec => []ErasureIsComplete
<1>1. AccountInv => Account!ErasureIsComplete
  BY DEF AccountInv, TxInv, Account!ErasureIsComplete
<1> QED BY <1>1, AccountIsSound, PTL DEF ErasureIsComplete

\* The statements are in an order the foreign keys allow: what makes a deletion
\* fail is a held inserted after it began, or a lost connection.
THEOREM OnlyInterferenceEverBlocks == AllSpec => []OnlyInterferenceBlocks
<1>1. AccountInv => Account!OnlyInterferenceBlocks
  BY DEF AccountInv, TxInv, Account!OnlyInterferenceBlocks
<1> QED BY <1>1, AccountIsSound, PTL DEF OnlyInterferenceBlocks

\* The waves of exportAccount find every held that was there throughout, though
\* rows come and go between its reads.
THEOREM ExportIsAlwaysWhole == AllSpec => []ExportIsWhole
<1>1. AccountInv => Account!ExportIsWhole
  <2> SUFFICES ASSUME AccountInv, Account!ExportEnded, NEW i \in export.since \cap DOMAIN held,
                      held[i].table \in Account!Exported
               PROVE  i \in export.ids
    BY DEF Account!ExportIsWhole
  <2>1. export.wave = 4 /\ export.left = {}
    BY DEF Account!ExportEnded, AccountInv, ExportInv
  <2>2. PICK w \in 1 .. 4 : held[i].table \in Account!Waves[w]
    BY WavesFacts DEF Account!Exported
  <2>3. Read(held[i].table)
    BY <2>1, <2>2 DEF Read
  <2> QED BY <2>1, <2>3 DEF AccountInv, ExportInv
<1> QED BY <1>1, AccountIsSound, PTL DEF ExportIsWhole

----------------------------------------------------------------------------
(* BundleLifecycle.  A bundle is stored under the one key its URL signs,   *)
(* and never once its URL is used up or has expired; the sweep has only    *)
(* expired submissions in hand, so what it found gone stays gone.  What a  *)
(* learner's deletion purged stays gone until an upload that is recorded   *)
(* as late, as every upload is that meets such a deletion (BundleInv).     *)


\* No object of submission s is left under either of its keys.
Gone(s) == \A k \in Bundles!Key : <<k, s>> \notin store

\* A deletion of s has run its transaction.
Ended(s) == \E d \in Delete : del[d].sub = s /\ del[d].pc \in {"ok", "failed"}

RowInv(s) ==
    /\ \A k \in Bundles!Key : <<k, s>> \in store => submit[s].pc = "uploaded" /\ k = submit[s].key
    /\ submit[s].pc = "create" => row[s].state = "none" /\ row[s].key = "placeholder"
    /\ s \in expired => submit[s].pc \in {"upload", "uploaded"}
    /\ row[s].state = "deleted" => Ended(s)
    /\ Bundles!InitWorked =>
        /\ submit[s].pc = "rekey" => row[s].state # "none" /\ row[s].key = "placeholder"
        /\ submit[s].pc \in {"upload", "uploaded"} =>
               /\ submit[s].key = "own" /\ row[s].state # "none"
               /\ row[s].state = "live" => row[s].key \in {"own", ""}
        /\ row[s].key = "" => s \in expired /\ Gone(s)
        /\ row[s].state = "deleted" => s \in late \/ Gone(s)

\* What deletion e may count on: only the object under the key it saw is left.
Purging(e) ==
    e.pc \in {"bundle", "log", "rows"} /\ ~(e.pc = "bundle" /\ e.key = "own") =>
        e.sub \in late \/ Gone(e.sub)

DeleteInv(d) ==
    /\ Bundles!InitWorked => Purging(del[d])
    /\ del[d].pc \in {"bundle", "log", "rows"} => row[del[d].sub].state # "none"

SweepInv ==
    /\ \A seen \in sweep.todo \cup sweep.hand : seen.sub \in expired /\ (Bundles!InitWorked => seen.key = "own")
    /\ sweep.pc = "mark" => \A seen \in sweep.hand : Bundles!InitWorked => Gone(seen.sub)
    /\ \A a, b \in sweep.hand : a = b

FinInv(r) ==
    /\ fin[r].pc = "check" =>
           /\ fin[r].head # "none"
           /\ fin[r].head = "found" => submit[fin[r].sub].pc = "uploaded"
           /\ fin[r].head = "error" => fin[r].key = "" \/ faults["storage"] # 0
    /\ fin[r].pc = "accepted" /\ fin[r].key # "" /\ faults["storage"] = 0 =>
           submit[fin[r].sub].pc = "uploaded"

BundleInv ==
    /\ Bundles!TypeOK
    /\ \A s \in Submission : RowInv(s)
    /\ \A d \in Delete : DeleteInv(d)
    /\ SweepInv
    /\ \A r \in Finalize : FinInv(r)

----------------------------------------------------------------------------
(* Types. *)

Sweeping == [todo: SUBSET Bundles!Seen, pc: {"idle", "delete", "mark"}, hand: SUBSET Bundles!Seen]

LEMMA RowWith ==
    ASSUME NEW r \in Bundles!Row
    PROVE  /\ [r EXCEPT !.state = "live"] \in Bundles!Row
           /\ [r EXCEPT !.state = "deleted"] \in Bundles!Row
           /\ [r EXCEPT !.key = "own"] \in Bundles!Row
           /\ [r EXCEPT !.key = ""] \in Bundles!Row
           /\ [r EXCEPT !.log = TRUE] \in Bundles!Row
BY DEF Bundles!Row, Bundles!Key

LEMMA FaultType ==
    ASSUME Bundles!TypeOK, NEW k \in Bundles!FaultKind, Bundles!Fault(k)
    PROVE  /\ faults' \in [Bundles!FaultKind -> Nat]
           /\ faults'[k] # 0
           /\ \A j \in Bundles!FaultKind : faults[j] # 0 => faults'[j] # 0
<1>1. faults \in [Bundles!FaultKind -> Nat] /\ faults' = [faults EXCEPT ![k] = faults[k] + 1]
    BY DEF Bundles!TypeOK, Bundles!Fault
<1>2. \A n \in Nat : n + 1 \in Nat /\ n + 1 # 0
    OBVIOUS
<1> QED
    BY <1>1, <1>2

LEMMA InitBundle == Bundles!Init => BundleInv
<1> SUFFICES ASSUME Bundles!Init PROVE BundleInv
    OBVIOUS
<1>1. Bundles!TypeOK
    <2>1. row \in [Submission -> Bundles!Row]
        BY DEF Bundles!Init, Bundles!Row, Bundles!Key
    <2>2. submit \in [Submission -> [pc: {"create", "rekey", "upload", "uploaded"}, key: Bundles!Key]]
        BY DEF Bundles!Init, Bundles!Key
    <2>3. fin \in [Finalize -> Bundles!FinalizeRequest]
        BY DEF Bundles!Init, Bundles!FinalizeRequest
    <2>4. del \in [Delete -> Bundles!DeleteRequest]
        BY DEF Bundles!Init, Bundles!DeleteRequest
    <2>5. sweep \in [todo: SUBSET Bundles!Seen, pc: {"idle", "delete", "mark"}, hand: SUBSET Bundles!Seen]
        BY DEF Bundles!Init
    <2>6. faults \in [Bundles!FaultKind -> Nat] /\ store \subseteq Bundles!Object /\ expired \subseteq Submission
          /\ old \subseteq expired /\ late \subseteq Submission
        BY DEF Bundles!Init
    <2> QED
        BY <2>1, <2>2, <2>3, <2>4, <2>5, <2>6 DEF Bundles!TypeOK
<1>2. \A s \in Submission : RowInv(s)
    BY DEF Bundles!Init, RowInv
<1>3. \A d \in Delete : DeleteInv(d)
    BY DEF Bundles!Init, DeleteInv, Purging
<1>4. SweepInv
    BY DEF Bundles!Init, SweepInv
<1>5. \A r \in Finalize : FinInv(r)
    BY DEF Bundles!Init, FinInv
<1> QED
    BY <1>1, <1>2, <1>3, <1>4, <1>5 DEF BundleInv

----------------------------------------------------------------------------
(* What no step takes back. *)

\* A bundle appears only under a URL that can be used, and not behind a deletion
\* without being recorded; uploads, faults, records and closed windows stay.
Progress ==
    /\ \A s \in Submission, k \in Bundles!Key :
           <<k, s>> \in store' =>
               \/ <<k, s>> \in store
               \/ s \notin expired /\ submit[s].pc = "upload" /\ (Bundles!TooLate(s) => s \in late')
    /\ late \subseteq late'
    /\ \A s \in Submission : (row[s].state # "none" => row'[s].state # "none") /\ (Ended(s) => Ended(s)')
    /\ \A s \in Submission : submit[s].pc = "uploaded" => submit'[s].pc = "uploaded"
    /\ expired \subseteq expired'
    /\ \A k \in Bundles!FaultKind : faults[k] # 0 => faults'[k] # 0

LEMMA StaysGone ==
    ASSUME Progress
    PROVE  /\ \A s \in Submission :
                  Gone(s) /\ (s \in expired \/ submit[s].pc = "uploaded") => Gone(s)'
           /\ \A s \in Submission : Gone(s) /\ Bundles!TooLate(s) => s \in late' \/ Gone(s)'
           /\ Bundles!InitWorked' => Bundles!InitWorked
<1>1. {"create", "rekey", "storage"} \subseteq Bundles!FaultKind
    BY DEF Bundles!FaultKind
<1> QED
    BY <1>1 DEF Progress, Gone, Bundles!InitWorked

LEMMA FaultsGrow ==
    ASSUME Bundles!TypeOK, UNCHANGED faults \/ \E k \in Bundles!FaultKind : Bundles!Fault(k)
    PROVE  /\ faults' \in [Bundles!FaultKind -> Nat]
           /\ \A j \in Bundles!FaultKind : faults[j] # 0 => faults'[j] # 0
<1>1. CASE UNCHANGED faults
    BY <1>1 DEF Bundles!TypeOK
<1>2. CASE \E k \in Bundles!FaultKind : Bundles!Fault(k)
    BY <1>2, FaultType
<1> QED
    BY <1>1, <1>2

\* What a step leaves of the parts it does not write.
LEMMA RowsKept ==
    ASSUME BundleInv, Progress, UNCHANGED <<row, submit>>,
           \A s \in Submission, k \in Bundles!Key : <<k, s>> \in store' => <<k, s>> \in store,
           \A s \in Submission : s \in expired' => submit[s].pc \in {"upload", "uploaded"}
    PROVE  \A s \in Submission : RowInv(s)'
<1> SUFFICES ASSUME NEW s \in Submission PROVE RowInv(s)'
    OBVIOUS
<1>1. /\ RowInv(s) /\ (Ended(s) => Ended(s)') /\ (Gone(s) => Gone(s)') /\ late \subseteq late'
      /\ expired \subseteq expired' /\ (Bundles!InitWorked' => Bundles!InitWorked)
    BY StaysGone DEF BundleInv, Gone, Progress
<1> QED
    BY <1>1 DEF RowInv

LEMMA DeletesKept ==
    ASSUME BundleInv, Progress, UNCHANGED del
    PROVE  \A d \in Delete : DeleteInv(d)'
<1> SUFFICES ASSUME NEW d \in Delete PROVE DeleteInv(d)'
    OBVIOUS
<1>1. PICK e, s : e = del[d] /\ s = del[d].sub
    OBVIOUS
<1>2. /\ e \in Bundles!DeleteRequest /\ s \in Submission /\ e.sub = s /\ del'[d] = e
      /\ DeleteInv(d) /\ RowInv(s) /\ (Bundles!InitWorked' => Bundles!InitWorked)
    BY <1>1, StaysGone DEF BundleInv, Bundles!TypeOK, Bundles!DeleteRequest
<1>3. ASSUME Bundles!InitWorked', e.pc \in {"bundle", "log", "rows"},
             ~(e.pc = "bundle" /\ e.key = "own")
      PROVE  s \in late' \/ Gone(s)'
    <2>1. s \in late \/ Gone(s)
        BY <1>1, <1>2, <1>3 DEF DeleteInv, Purging
    <2>2. CASE s \in late
        BY <2>2 DEF Progress
    <2>3. CASE Gone(s) /\ submit[s].pc # "upload"
        BY <1>2, <2>3 DEF Progress, Gone
    <2>4. CASE Gone(s) /\ submit[s].pc = "upload"
        <3>1. submit[s].key = "own"
            BY <1>2, <1>3, <2>4 DEF RowInv
        <3>2. Bundles!TooLate(s)
            BY <1>1, <1>2, <1>3, <3>1 DEF Bundles!TooLate
        <3> QED
            BY <1>2, <2>4, <3>2, StaysGone
    <2> QED
        BY <2>1, <2>2, <2>3, <2>4
<1>4. e.pc \in {"bundle", "log", "rows"} => row'[s].state # "none"
    BY <1>1, <1>2 DEF DeleteInv, Progress
<1> QED
    BY <1>1, <1>2, <1>3, <1>4 DEF DeleteInv, Purging

LEMMA SweepKept ==
    ASSUME BundleInv, Progress, UNCHANGED sweep
    PROVE  SweepInv'
<1>1. \A seen \in sweep.todo \cup sweep.hand : seen.sub \in Submission
    BY DEF BundleInv, Bundles!TypeOK, Bundles!Seen
<1> QED
    BY <1>1, StaysGone DEF BundleInv, SweepInv, Progress

LEMMA FinsKept ==
    ASSUME BundleInv, Progress, UNCHANGED fin
    PROVE  \A r \in Finalize : FinInv(r)'
<1>1. \A r \in Finalize : FinInv(r) /\ fin[r].sub \in Submission
    BY DEF BundleInv, Bundles!TypeOK, Bundles!FinalizeRequest
<1>2. "storage" \in Bundles!FaultKind
    BY DEF Bundles!FaultKind
<1> QED
    BY <1>1, <1>2 DEF FinInv, Progress

----------------------------------------------------------------------------
(* Init, the upload and time. *)

LEMMA CreateKeeps ==
    ASSUME BundleInv, NEW s \in Submission, Bundles!CreateRow(s)
    PROVE  BundleInv'
<1>0. Bundles!TypeOK /\ RowInv(s) /\ submit[s].pc = "create"
    BY DEF BundleInv, Bundles!CreateRow
<1>1. /\ UNCHANGED <<store, expired, old, fin, del, sweep>>
      /\ UNCHANGED late /\ (UNCHANGED faults \/ \E k \in Bundles!FaultKind : Bundles!Fault(k))
      /\ \A t \in Submission : t # s => row'[t] = row[t] /\ submit'[t] = submit[t]
    BY <1>0 DEF Bundles!CreateRow, Bundles!TypeOK, Bundles!FaultKind
<1>2. /\ faults' \in [Bundles!FaultKind -> Nat]
      /\ \A j \in Bundles!FaultKind : faults[j] # 0 => faults'[j] # 0
    BY <1>0, <1>1, FaultsGrow
<1>3. /\ submit'[s].key = submit[s].key
      /\ submit' \in [Submission -> [pc: {"create", "rekey", "upload", "uploaded"}, key: Bundles!Key]]
      /\ row' \in [Submission -> Bundles!Row]
      /\ \/ submit'[s].pc = "rekey" /\ row'[s] = [row[s] EXCEPT !.state = "live"]
         \/ /\ submit'[s].pc = "upload" /\ faults'["create"] # 0
            /\ row'[s].state \in {row[s].state, "live"}
    <2>1. /\ submit[s] \in [pc: {"create", "rekey", "upload", "uploaded"}, key: Bundles!Key]
          /\ row[s] \in Bundles!Row /\ "create" \in Bundles!FaultKind
          /\ row \in [Submission -> Bundles!Row]
          /\ submit \in [Submission -> [pc: {"create", "rekey", "upload", "uploaded"}, key: Bundles!Key]]
        BY <1>0 DEF Bundles!TypeOK, Bundles!FaultKind
    <2>2. CASE row' = [row EXCEPT ![s].state = "live"] /\ submit' = [submit EXCEPT ![s].pc = "rekey"]
        BY <2>1, <2>2, RowWith
    <2>3. CASE /\ Bundles!Fault("create") /\ submit' = [submit EXCEPT ![s].pc = "upload"]
               /\ row' \in {row, [row EXCEPT ![s].state = "live"]}
        <3>1. faults'["create"] # 0
            BY <1>0, <2>1, <2>3, FaultType
        <3>3. [row[s] EXCEPT !.state = "live"].state = "live"
            BY <2>1 DEF Bundles!Row
        <3>2. /\ [row EXCEPT ![s].state = "live"] \in [Submission -> Bundles!Row]
              /\ [row EXCEPT ![s].state = "live"][s].state = "live"
            BY <2>1, <3>3, RowWith
        <3> QED
            BY <2>1, <2>3, <3>1, <3>2
    <2> QED
        BY <2>2, <2>3 DEF Bundles!CreateRow
<1>4. Bundles!TypeOK'
    BY <1>0, <1>1, <1>2, <1>3 DEF Bundles!TypeOK
<1>5. Progress
    <2>1. row[s].state = "none"
        BY <1>0 DEF RowInv
    <2> QED
        BY <1>0, <1>1, <1>2, <2>1 DEF Progress, Ended
<1>6. ASSUME NEW t \in Submission PROVE RowInv(t)'
    <2>1. CASE t = s
        <3>1. /\ s \notin expired' /\ \A k \in Bundles!Key : <<k, s>> \notin store'
              /\ row[s].state = "none" /\ row[s].key = "placeholder" /\ row[s] \in Bundles!Row
            BY <1>0, <1>1 DEF RowInv, Bundles!TypeOK
        <3>2. CASE submit'[s].pc = "rekey" /\ row'[s] = [row[s] EXCEPT !.state = "live"]
            <4>1. row'[s].state = "live" /\ row'[s].key = "placeholder"
                BY <3>1, <3>2 DEF Bundles!Row
            <4> QED
                BY <2>1, <3>1, <3>2, <4>1 DEF RowInv
        <3>3. CASE /\ submit'[s].pc = "upload" /\ faults'["create"] # 0
                   /\ row'[s].state \in {row[s].state, "live"}
            BY <2>1, <3>1, <3>3 DEF RowInv, Bundles!InitWorked
        <3> QED
            BY <1>3, <3>2, <3>3
    <2>2. CASE t # s
        <3>1. RowInv(t) /\ row'[t] = row[t] /\ submit'[t] = submit[t]
            BY <1>1, <2>2 DEF BundleInv
        <3>2. (Bundles!InitWorked' => Bundles!InitWorked) /\ (Gone(t) => Gone(t)') /\ (Ended(t) => Ended(t)')
            BY <1>1, <1>5, StaysGone DEF Gone, Ended
        <3> QED
            BY <1>1, <3>1, <3>2 DEF RowInv
    <2> QED
        BY <2>1, <2>2
<1> QED
    BY <1>1, <1>4, <1>5, <1>6, DeletesKept, SweepKept, FinsKept DEF BundleInv

LEMMA RekeyKeeps ==
    ASSUME BundleInv, NEW s \in Submission, Bundles!Rekey(s)
    PROVE  BundleInv'
<1>0. Bundles!TypeOK /\ RowInv(s) /\ submit[s].pc = "rekey"
    BY DEF BundleInv, Bundles!Rekey
<1>1. /\ UNCHANGED <<store, expired, old, fin, del, sweep>>
      /\ UNCHANGED late /\ (UNCHANGED faults \/ \E k \in Bundles!FaultKind : Bundles!Fault(k))
      /\ \A t \in Submission : t # s => row'[t] = row[t] /\ submit'[t] = submit[t]
    BY <1>0 DEF Bundles!Rekey, Bundles!TypeOK, Bundles!FaultKind
<1>2. /\ faults' \in [Bundles!FaultKind -> Nat]
      /\ \A j \in Bundles!FaultKind : faults[j] # 0 => faults'[j] # 0
    BY <1>0, <1>1, FaultsGrow
<1>3. /\ submit'[s].pc = "upload" /\ submit'[s].key = "own"
      /\ submit' \in [Submission -> [pc: {"create", "rekey", "upload", "uploaded"}, key: Bundles!Key]]
    BY <1>0, ZenonT(60) DEF Bundles!Rekey, Bundles!TypeOK, Bundles!Key
<1>4. /\ row' \in [Submission -> Bundles!Row]
      /\ row'[s].state = row[s].state
      /\ \/ row[s].state = "live" /\ row'[s].key = "own"
         \/ row[s].state # "live" /\ row'[s] = row[s]
         \/ faults'["rekey"] # 0
    <2>1. row[s] \in Bundles!Row /\ "rekey" \in Bundles!FaultKind /\ row \in [Submission -> Bundles!Row]
        BY <1>0 DEF Bundles!TypeOK, Bundles!FaultKind
    <2>2. CASE row[s].state = "live" /\ row' = [row EXCEPT ![s].key = "own"]
        <3>1. row' \in [Submission -> Bundles!Row] /\ row'[s] = [row[s] EXCEPT !.key = "own"]
            BY <2>1, <2>2, RowWith
        <3> QED
            BY <2>1, <2>2, <3>1 DEF Bundles!Row
    <2>3. CASE row[s].state # "live" /\ UNCHANGED row
        BY <2>1, <2>3
    <2>4. CASE Bundles!Fault("rekey") /\ UNCHANGED row
        BY <1>0, <2>1, <2>4, FaultType
    <2> QED
        BY <2>2, <2>3, <2>4 DEF Bundles!Rekey
<1>5. Bundles!TypeOK'
    BY <1>0, <1>1, <1>2, <1>3, <1>4 DEF Bundles!TypeOK
<1>6. Progress
    BY <1>0, <1>1, <1>2, <1>4 DEF Progress, Ended
<1>7. ASSUME NEW t \in Submission PROVE RowInv(t)'
    <2>0. Bundles!InitWorked' => Bundles!InitWorked
        BY <1>6, StaysGone
    <2>1. CASE t = s
        <3>1. s \notin expired' /\ (\A k \in Bundles!Key : <<k, s>> \notin store') /\ Gone(s)'
            BY <1>0, <1>1 DEF RowInv, Gone
        <3>2. Bundles!InitWorked' => /\ row'[s].state # "none" /\ row'[s].key # ""
                                     /\ row'[s].state = "live" => row'[s].key = "own"
            BY <1>0, <1>4, <2>0 DEF RowInv, Bundles!InitWorked
        <3>3. row'[s].state = "deleted" => Ended(s)'
            BY <1>0, <1>4, <1>6 DEF RowInv, Progress
        <3> QED
            BY <1>3, <2>1, <3>1, <3>2, <3>3 DEF RowInv
    <2>2. CASE t # s
        <3>1. RowInv(t) /\ row'[t] = row[t] /\ submit'[t] = submit[t]
            BY <1>1, <2>2 DEF BundleInv
        <3>2. (Gone(t) => Gone(t)') /\ (Ended(t) => Ended(t)')
            BY <1>1 DEF Gone, Ended
        <3> QED
            BY <1>1, <2>0, <3>1, <3>2 DEF RowInv
    <2> QED
        BY <2>1, <2>2
<1> QED
    BY <1>1, <1>5, <1>6, <1>7, DeletesKept, SweepKept, FinsKept DEF BundleInv

LEMMA UploadKeeps ==
    ASSUME BundleInv, NEW s \in Submission, Bundles!Upload(s)
    PROVE  BundleInv'
<1>0. Bundles!TypeOK /\ RowInv(s) /\ submit[s].pc = "upload" /\ s \notin expired
    BY DEF BundleInv, Bundles!Upload
<1>1. /\ UNCHANGED <<row, expired, old, fin, del, sweep, faults>>
      /\ store' = store \cup {<<submit[s].key, s>>}
      /\ late \subseteq late' /\ late' \subseteq late \cup {s} /\ (Bundles!TooLate(s) => s \in late')
      /\ submit' = [submit EXCEPT ![s].pc = "uploaded"]
    BY DEF Bundles!Upload
<1>2. /\ submit'[s].pc = "uploaded" /\ submit'[s].key = submit[s].key
      /\ \A t \in Submission : t # s => submit'[t] = submit[t]
      /\ submit' \in [Submission -> [pc: {"create", "rekey", "upload", "uploaded"}, key: Bundles!Key]]
      /\ submit[s].key \in Bundles!Key
    BY <1>0, <1>1 DEF Bundles!TypeOK
<1>3. store' \subseteq Bundles!Object
    BY <1>0, <1>1, <1>2 DEF Bundles!TypeOK, Bundles!Object, Bundles!Key
<1>4. Bundles!TypeOK'
    BY <1>0, <1>1, <1>2, <1>3 DEF Bundles!TypeOK
<1>5. \A t \in Submission, k \in Bundles!Key :
          <<k, t>> \in store' => <<k, t>> \in store \/ (t = s /\ k = submit[s].key)
    BY <1>1
<1>6. Progress
    BY <1>0, <1>1, <1>2, <1>5 DEF Progress, Ended
<1>7. ASSUME NEW t \in Submission PROVE RowInv(t)'
    <2>0. RowInv(t) /\ (Bundles!InitWorked' => Bundles!InitWorked)
        BY <1>6, StaysGone DEF BundleInv
    <2>1. CASE t = s
        <3>1. /\ Bundles!InitWorked => row[s].key # ""
              /\ row[s].state = "deleted" => s \in late' /\ Ended(s)'
            BY <1>0, <1>1 DEF RowInv, Ended, Bundles!TooLate
        <3> QED
            BY <1>0, <1>1, <1>2, <1>5, <2>0, <2>1, <3>1 DEF RowInv
    <2>2. CASE t # s
        <3>1. submit'[t] = submit[t] /\ (Gone(t) => Gone(t)') /\ (Ended(t) => Ended(t)')
            BY <1>1, <1>2, <1>5, <2>2 DEF Gone, Ended
        <3>2. \A k \in Bundles!Key : <<k, t>> \in store' => <<k, t>> \in store
            BY <1>5, <2>2
        <3> QED
            BY <1>1, <2>0, <3>1, <3>2 DEF RowInv
    <2> QED
        BY <2>1, <2>2
<1> QED
    BY <1>1, <1>4, <1>6, <1>7, DeletesKept, SweepKept, FinsKept DEF BundleInv

LEMMA TimeKeeps ==
    ASSUME BundleInv, NEW s \in Submission, Bundles!ExpireUrl(s) \/ Bundles!Age(s)
    PROVE  BundleInv'
<1>0. Bundles!TypeOK /\ submit[s].pc \in {"upload", "uploaded"}
    BY DEF BundleInv, Bundles!ExpireUrl, Bundles!Age
<1>1. /\ UNCHANGED <<row, store, submit, fin, del, sweep, late, faults>>
      /\ expired' \in {expired, expired \cup {s}} /\ old' \subseteq expired' /\ expired \subseteq expired'
    BY <1>0 DEF Bundles!ExpireUrl, Bundles!Age, Bundles!Outlived, Bundles!TypeOK
<1>2. Bundles!TypeOK' /\ Progress
    BY <1>0, <1>1 DEF Bundles!TypeOK, Progress, Ended
<1>3. \A t \in Submission : t \in expired' => submit[t].pc \in {"upload", "uploaded"}
    BY <1>0, <1>1 DEF BundleInv, RowInv
<1> QED
    BY <1>1, <1>2, <1>3, RowsKept, DeletesKept, SweepKept, FinsKept DEF BundleInv

LEMMA LogKeeps ==
    ASSUME BundleInv, NEW s \in Submission, Bundles!RunLogs(s)
    PROVE  BundleInv'
<1>0. Bundles!TypeOK /\ row[s] \in Bundles!Row
    BY DEF BundleInv, Bundles!TypeOK
<1>1. /\ row' = [row EXCEPT ![s].log = TRUE] /\ store' = store \cup {<<"log", s>>}
      /\ UNCHANGED <<expired, old, submit, fin, del, sweep, late, faults>>
    BY DEF Bundles!RunLogs
<1>2. /\ row' \in [Submission -> Bundles!Row]
      /\ \A t \in Submission : row'[t].state = row[t].state /\ row'[t].key = row[t].key
    <2>1. row \in [Submission -> Bundles!Row] /\ [row[s] EXCEPT !.log = TRUE] \in Bundles!Row
        BY <1>0, RowWith DEF Bundles!TypeOK
    <2>2. /\ [row[s] EXCEPT !.log = TRUE].state = row[s].state
          /\ [row[s] EXCEPT !.log = TRUE].key = row[s].key
        BY <1>0 DEF Bundles!Row
    <2> QED
        BY <1>1, <2>1, <2>2
<1>3. \A t \in Submission, k \in Bundles!Key : <<k, t>> \in store' => <<k, t>> \in store
    BY <1>1 DEF Bundles!Key
<1>4. Bundles!TypeOK'
    <2>1. store' \subseteq Bundles!Object
        BY <1>0, <1>1 DEF Bundles!TypeOK, Bundles!Object
    <2> QED
        BY <1>0, <1>1, <1>2, <2>1 DEF Bundles!TypeOK
<1>5. Progress
    BY <1>1, <1>2, <1>3 DEF Progress, Ended
<1>6. ASSUME NEW t \in Submission PROVE RowInv(t)'
    <2>1. /\ RowInv(t) /\ (Bundles!InitWorked' => Bundles!InitWorked)
          /\ (Gone(t) => Gone(t)') /\ (Ended(t) => Ended(t)')
        BY <1>1, <1>3, <1>5, StaysGone DEF BundleInv, Gone, Ended
    <2> QED
        BY <1>1, <1>2, <1>3, <2>1 DEF RowInv
<1> QED
    BY <1>1, <1>4, <1>5, <1>6, DeletesKept, SweepKept, FinsKept DEF BundleInv

----------------------------------------------------------------------------
(* Finalize. *)

\* A step of request r, which becomes f.
LEMMA FinalizeMoves ==
    ASSUME BundleInv, NEW r \in Finalize, NEW f \in Bundles!FinalizeRequest,
           fin' = [fin EXCEPT ![r] = f],
           UNCHANGED <<row, store, expired, old, submit, del, sweep, late>>,
           UNCHANGED faults \/ \E k \in Bundles!FaultKind : Bundles!Fault(k),
           f.pc = "check" =>
               /\ f.head # "none"
               /\ f.head = "found" => submit[f.sub].pc = "uploaded"
               /\ f.head = "error" => f.key = "" \/ faults'["storage"] # 0,
           f.pc = "accepted" /\ f.key # "" /\ faults'["storage"] = 0 =>
               submit[f.sub].pc = "uploaded"
    PROVE  BundleInv'
<1>0. Bundles!TypeOK
    BY DEF BundleInv
<1>1. /\ faults' \in [Bundles!FaultKind -> Nat]
      /\ \A j \in Bundles!FaultKind : faults[j] # 0 => faults'[j] # 0
    BY <1>0, FaultsGrow
<1>2. Bundles!TypeOK'
    BY <1>0, <1>1 DEF Bundles!TypeOK
<1>3. Progress
    BY <1>1 DEF Progress, Ended
<1>4. fin'[r] = f /\ \A q \in Finalize : q # r => fin'[q] = fin[q]
    BY <1>0 DEF Bundles!TypeOK
<1>5. ASSUME NEW q \in Finalize PROVE FinInv(q)'
    <2>1. CASE q = r
        BY <1>4, <2>1 DEF FinInv
    <2>2. CASE q # r
        <3>1. FinInv(q) /\ fin'[q] = fin[q] /\ "storage" \in Bundles!FaultKind
            BY <1>4, <2>2 DEF BundleInv, Bundles!FaultKind
        <3> QED
            BY <1>1, <3>1 DEF FinInv
    <2> QED
        BY <2>1, <2>2
<1>6. \A t \in Submission : t \in expired => submit[t].pc \in {"upload", "uploaded"}
    BY DEF BundleInv, RowInv
<1> QED
    BY <1>2, <1>3, <1>5, <1>6, RowsKept, DeletesKept, SweepKept DEF BundleInv

LEMMA LoadKeeps ==
    ASSUME BundleInv, NEW r \in Finalize, Bundles!FinalizeLoad(r)
    PROVE  BundleInv'
<1>0. /\ fin \in [Finalize -> Bundles!FinalizeRequest] /\ fin[r] \in Bundles!FinalizeRequest
      /\ row[fin[r].sub] \in Bundles!Row
      /\ UNCHANGED <<row, store, expired, old, submit, del, sweep, late>>
      /\ UNCHANGED faults \/ \E k \in Bundles!FaultKind : Bundles!Fault(k)
    BY DEF BundleInv, Bundles!TypeOK, Bundles!FinalizeRequest, Bundles!FinalizeLoad, Bundles!FaultKind
<1>1. PICK pc \in {"head", "unknown"}, key \in {fin[r].key, row[fin[r].sub].key} :
          fin' = [fin EXCEPT ![r] = [fin[r] EXCEPT !.pc = pc, !.key = key]]
    <2>1. \A pc : [fin[r] EXCEPT !.pc = pc] = [fin[r] EXCEPT !.pc = pc, !.key = fin[r].key]
        BY <1>0 DEF Bundles!FinalizeRequest
    <2> QED
        BY <1>0, <2>1 DEF Bundles!FinalizeLoad
<1>2. PICK f : f = [fin[r] EXCEPT !.pc = pc, !.key = key]
    OBVIOUS
<1>3. f \in Bundles!FinalizeRequest /\ f.pc = pc
    BY <1>0, <1>2 DEF Bundles!FinalizeRequest, Bundles!Row
<1> QED
    BY <1>0, <1>1, <1>2, <1>3, FinalizeMoves

LEMMA HeadKeeps ==
    ASSUME BundleInv, NEW r \in Finalize, Bundles!HeadObject(r)
    PROVE  BundleInv'
<1>0. /\ Bundles!TypeOK /\ fin \in [Finalize -> Bundles!FinalizeRequest] /\ fin[r] \in Bundles!FinalizeRequest
      /\ UNCHANGED <<row, store, expired, old, submit, del, sweep, late>>
    BY DEF BundleInv, Bundles!TypeOK, Bundles!HeadObject
<1>1. PICK head \in {"found", "missing", "error"} :
          /\ fin' = [fin EXCEPT ![r] = [fin[r] EXCEPT !.pc = "check", !.head = head]]
          /\ UNCHANGED faults \/ Bundles!Fault("storage")
          /\ head = "found" => fin[r].key # "" /\ <<fin[r].key, fin[r].sub>> \in store
          /\ head = "error" => fin[r].key = "" \/ Bundles!Fault("storage")
    BY <1>0 DEF Bundles!HeadObject
<1>2. PICK f : f = [fin[r] EXCEPT !.pc = "check", !.head = head]
    OBVIOUS
<1>3. /\ f \in Bundles!FinalizeRequest /\ f.pc = "check" /\ f.head = head
      /\ f.key = fin[r].key /\ f.sub = fin[r].sub
    BY <1>0, <1>2 DEF Bundles!FinalizeRequest
<1>4. head = "found" => submit[f.sub].pc = "uploaded"
    <2>1. fin[r].sub \in Submission /\ fin[r].key \in Bundles!Key \cup {""}
        BY <1>0 DEF Bundles!FinalizeRequest
    <2>2. RowInv(fin[r].sub)
        BY <2>1 DEF BundleInv
    <2> QED
        BY <1>1, <1>3, <2>1, <2>2 DEF RowInv
<1>5. "storage" \in Bundles!FaultKind
    BY DEF Bundles!FaultKind
<1>6. head = "error" => f.key = "" \/ faults'["storage"] # 0
    BY <1>0, <1>1, <1>3, <1>5, FaultType
<1>7. UNCHANGED faults \/ \E k \in Bundles!FaultKind : Bundles!Fault(k)
    BY <1>1, <1>5
<1> QED
    BY <1>0, <1>1, <1>2, <1>3, <1>4, <1>6, <1>7, FinalizeMoves

LEMMA CheckKeeps ==
    ASSUME BundleInv, NEW r \in Finalize, Bundles!FinalizeCheck(r)
    PROVE  BundleInv'
<1>0. /\ fin \in [Finalize -> Bundles!FinalizeRequest] /\ fin[r] \in Bundles!FinalizeRequest
      /\ UNCHANGED <<row, store, expired, old, submit, del, sweep, late, faults>>
      /\ fin[r].pc = "check" /\ FinInv(r)
    BY DEF BundleInv, Bundles!TypeOK, Bundles!FinalizeCheck
<1>1. PICK pc \in {"accepted", "refused"} :
          /\ fin' = [fin EXCEPT ![r] = [fin[r] EXCEPT !.pc = pc]]
          /\ pc = "accepted" => fin[r].head # "missing"
    BY <1>0 DEF Bundles!FinalizeCheck, Bundles!Integrity
<1>2. PICK f : f = [fin[r] EXCEPT !.pc = pc]
    OBVIOUS
<1>3. /\ f \in Bundles!FinalizeRequest /\ f.pc = pc /\ f.key = fin[r].key /\ f.sub = fin[r].sub
      /\ fin[r].head \in {"none", "found", "missing", "error"}
    BY <1>0, <1>2 DEF Bundles!FinalizeRequest
<1>4. f.pc = "accepted" /\ f.key # "" /\ faults'["storage"] = 0 => submit[f.sub].pc = "uploaded"
    BY <1>0, <1>1, <1>3 DEF FinInv
<1> QED
    BY <1>0, <1>1, <1>2, <1>3, <1>4, FinalizeMoves

----------------------------------------------------------------------------
(* A learner's deletion. *)

\* A step of request d, which becomes e; objects may go, and the row of its
\* submission once the bundle is gone.
LEMMA DeleteMoves ==
    ASSUME BundleInv, NEW d \in Delete, NEW e \in Bundles!DeleteRequest,
           del' = [del EXCEPT ![d] = e], del[d].pc \notin {"ok", "failed"},
           UNCHANGED <<expired, old, submit, fin, sweep, late>>,
           store' \subseteq store,
           UNCHANGED faults \/ \E k \in Bundles!FaultKind : Bundles!Fault(k),
           row' \in [Submission -> Bundles!Row],
           \A t \in Submission :
               /\ row'[t].key = row[t].key
               /\ \/ row'[t].state = row[t].state
                  \/ /\ row'[t].state = "deleted" /\ row[t].state # "none"
                     /\ e.sub = t /\ e.pc \in {"ok", "failed"}
                     /\ Bundles!InitWorked => t \in late \/ Gone(t),
           e.pc \in {"bundle", "log", "rows"} => row[e.sub].state # "none",
           Bundles!InitWorked => Purging(e)'
    PROVE  BundleInv'
<1>0. Bundles!TypeOK
    BY DEF BundleInv
<1>1. /\ faults' \in [Bundles!FaultKind -> Nat]
      /\ \A j \in Bundles!FaultKind : faults[j] # 0 => faults'[j] # 0
    BY <1>0, FaultsGrow
<1>2. Bundles!TypeOK'
    BY <1>0, <1>1 DEF Bundles!TypeOK
<1>n. e.sub \in Submission
    BY DEF Bundles!DeleteRequest
<1>5. del'[d] = e /\ \A q \in Delete : q # d => del'[q] = del[q]
    BY <1>0 DEF Bundles!TypeOK
<1>3. Progress
    BY <1>1, <1>5 DEF Progress, Ended
<1>4. (Bundles!InitWorked' => Bundles!InitWorked) /\ \A t \in Submission : Gone(t) => Gone(t)'
    BY <1>3, StaysGone DEF Gone
<1>6. ASSUME NEW q \in Delete PROVE DeleteInv(q)'
    <2>1. CASE q = d
        BY <1>3, <1>4, <1>5, <1>n, <2>1 DEF DeleteInv, Purging, Progress
    <2>2. CASE q # d
        <3>1. DeleteInv(q) /\ del'[q] = del[q] /\ del[q].sub \in Submission
            BY <1>0, <1>5, <2>2 DEF BundleInv, Bundles!TypeOK, Bundles!DeleteRequest
        <3> QED
            BY <1>3, <1>4, <3>1 DEF DeleteInv, Purging, Progress
    <2> QED
        BY <2>1, <2>2
<1>7. ASSUME NEW t \in Submission PROVE RowInv(t)'
    <2>1. RowInv(t)
        BY DEF BundleInv
    <2>2. \A k \in Bundles!Key : <<k, t>> \in store' => <<k, t>> \in store
        OBVIOUS
    <2>3. row'[t].state = "deleted" => Ended(t)'
        <3>1. CASE row'[t].state = row[t].state
            BY <1>3, <2>1, <3>1 DEF RowInv, Progress
        <3>2. CASE e.sub = t /\ e.pc \in {"ok", "failed"}
            BY <1>5, <3>2 DEF Ended
        <3> QED
            BY <3>1, <3>2
    <2>4. Bundles!InitWorked /\ row'[t].state = "deleted" => t \in late \/ Gone(t)
        BY <2>1 DEF RowInv
    <2> QED
        BY <1>4, <2>1, <2>2, <2>3, <2>4 DEF RowInv
<1> QED
    BY <1>2, <1>3, <1>6, <1>7, SweepKept, FinsKept DEF BundleInv

LEMMA DeleteReadKeeps ==
    ASSUME BundleInv, NEW d \in Delete, Bundles!DeleteRead(d)
    PROVE  BundleInv'
<1>0. /\ del \in [Delete -> Bundles!DeleteRequest] /\ del[d] \in Bundles!DeleteRequest
      /\ row \in [Submission -> Bundles!Row] /\ del[d].pc = "new"
      /\ UNCHANGED <<row, store, expired, old, submit, fin, sweep, late, faults>>
    BY DEF BundleInv, Bundles!TypeOK, Bundles!DeleteRead
<1>1. PICK s \in Submission : s = del[d].sub
    BY <1>0 DEF Bundles!DeleteRequest
<1>2. PICK e : e = [del[d] EXCEPT !.pc = "bundle", !.key = row[s].key, !.log = row[s].log]
    OBVIOUS
<1>3. row[s].state = "live" /\ row[s] \in Bundles!Row /\ RowInv(s)
    BY <1>0, <1>1 DEF Bundles!DeleteRead, BundleInv
<1>4. e \in Bundles!DeleteRequest /\ e.pc = "bundle" /\ e.sub = s /\ e.key = row[s].key
    BY <1>0, <1>1, <1>2, <1>3 DEF Bundles!DeleteRequest, Bundles!Row
<1>5. del' = [del EXCEPT ![d] = e]
    BY <1>0, <1>1, <1>2 DEF Bundles!DeleteRead
<1>6. Bundles!InitWorked /\ e.key # "own" => Gone(s)'
    BY <1>0, <1>3, <1>4 DEF RowInv, Gone
<1>7. Bundles!InitWorked => Purging(e)'
    BY <1>0, <1>4, <1>6 DEF Purging
<1> QED
    BY <1>0, <1>3, <1>4, <1>5, <1>7, DeleteMoves

\* A deletion under way, and what DeleteInv says of it.
LEMMA Deleting ==
    ASSUME BundleInv, NEW d \in Delete, del[d].pc \in {"bundle", "log", "rows"}
    PROVE  /\ del \in [Delete -> Bundles!DeleteRequest] /\ del[d] \in Bundles!DeleteRequest
           /\ del[d].sub \in Submission /\ row[del[d].sub].state # "none"
           /\ Bundles!InitWorked /\ ~(del[d].pc = "bundle" /\ del[d].key = "own") =>
                  del[d].sub \in late \/ Gone(del[d].sub)
           /\ row \in [Submission -> Bundles!Row]
<1>1. del \in [Delete -> Bundles!DeleteRequest] /\ row \in [Submission -> Bundles!Row] /\ DeleteInv(d)
    BY DEF BundleInv, Bundles!TypeOK
<1>2. del[d] \in Bundles!DeleteRequest /\ del[d].sub \in Submission
    BY <1>1 DEF Bundles!DeleteRequest
<1> QED
    BY <1>1, <1>2 DEF DeleteInv, Purging

\* Without the object under its own key, nothing is left of a bundle whose
\* init worked.
LEMMA OwnGone ==
    ASSUME BundleInv, Bundles!InitWorked, NEW s \in Submission
    PROVE  \A k \in Bundles!Key : <<k, s>> \in store => k = "own"
BY DEF BundleInv, RowInv

LEMMA DeleteBundleKeeps ==
    ASSUME BundleInv, NEW d \in Delete, Bundles!DeleteBundle(d)
    PROVE  BundleInv'
<1>0. del[d].pc = "bundle" /\ UNCHANGED <<row, expired, old, submit, fin, sweep, late>>
    BY DEF Bundles!DeleteBundle
<1>1. PICK pc \in {"log", "unavailable"} :
          /\ del' = [del EXCEPT ![d] = [del[d] EXCEPT !.pc = pc]]
          /\ store' \subseteq store
          /\ UNCHANGED faults \/ \E k \in Bundles!FaultKind : Bundles!Fault(k)
          /\ pc = "log" => store' = Bundles!Without(del[d].key, del[d].sub)
    <2>1. CASE /\ store' = Bundles!BundlePurged(d) /\ del' = [del EXCEPT ![d].pc = "log"]
               /\ UNCHANGED faults
        BY <2>1 DEF Bundles!BundlePurged, Bundles!Without
    <2>2. CASE /\ Bundles!Fault("storage") /\ del' = [del EXCEPT ![d].pc = "unavailable"]
               /\ UNCHANGED store
        BY <2>2 DEF Bundles!FaultKind
    <2> QED
        BY <2>1, <2>2 DEF Bundles!DeleteBundle
<1>2. PICK e : e = [del[d] EXCEPT !.pc = pc]
    OBVIOUS
<1>3. e \in Bundles!DeleteRequest /\ e.pc = pc /\ e.sub = del[d].sub /\ e.key = del[d].key
    BY <1>0, <1>2, Deleting, ZenonT(60) DEF Bundles!DeleteRequest
<1>4. ASSUME pc = "log", Bundles!InitWorked PROVE e.sub \in late \/ Gone(e.sub)'
    <2>1. CASE del[d].key # "own"
        BY <1>0, <1>1, <1>3, <1>4, <2>1, Deleting DEF Gone
    <2>2. CASE del[d].key = "own"
        <3>1. PICK s \in Submission : s = del[d].sub
            BY <1>0, Deleting
        <3>2. \A k \in Bundles!Key : <<k, s>> \in store => k = "own"
            BY <1>4, <3>1, OwnGone
        <3>3. \A k \in Bundles!Key : <<k, s>> \notin store'
            BY <1>1, <1>4, <2>2, <3>1, <3>2 DEF Bundles!Without
        <3> QED
            BY <1>3, <3>1, <3>3 DEF Gone
    <2> QED
        BY <2>1, <2>2
<1>5. row[e.sub].state # "none" /\ (Bundles!InitWorked => Purging(e)')
    BY <1>0, <1>1, <1>3, <1>4, Deleting DEF Purging
<1>6. /\ row' \in [Submission -> Bundles!Row]
      /\ \A t \in Submission : row'[t].key = row[t].key /\ row'[t].state = row[t].state
    BY <1>0, Deleting
<1> QED
    BY <1>0, <1>1, <1>2, <1>3, <1>5, <1>6, DeleteMoves

LEMMA DeleteLogKeeps ==
    ASSUME BundleInv, NEW d \in Delete, Bundles!DeleteLog(d)
    PROVE  BundleInv'
<1>0. del[d].pc = "log" /\ UNCHANGED <<row, expired, old, submit, fin, sweep, late>>
    BY DEF Bundles!DeleteLog
<1>1. PICK pc \in {"rows", "unavailable"} :
          /\ del' = [del EXCEPT ![d] = [del[d] EXCEPT !.pc = pc]]
          /\ store' \subseteq store
          /\ UNCHANGED faults \/ \E k \in Bundles!FaultKind : Bundles!Fault(k)
    <2>1. CASE /\ store' = IF del[d].log THEN Bundles!Without("log", del[d].sub) ELSE store
               /\ del' = [del EXCEPT ![d].pc = "rows"] /\ UNCHANGED faults
        BY <2>1 DEF Bundles!Without
    <2>2. CASE /\ Bundles!Fault("storage") /\ del' = [del EXCEPT ![d].pc = "unavailable"]
               /\ UNCHANGED store
        BY <2>2 DEF Bundles!FaultKind
    <2> QED
        BY <2>1, <2>2 DEF Bundles!DeleteLog
<1>2. PICK e : e = [del[d] EXCEPT !.pc = pc]
    OBVIOUS
<1>3. e \in Bundles!DeleteRequest /\ e.pc = pc /\ e.sub = del[d].sub /\ e.key = del[d].key
    BY <1>0, <1>2, Deleting, ZenonT(60) DEF Bundles!DeleteRequest
<1>4. Bundles!InitWorked => e.sub \in late \/ Gone(e.sub)'
    BY <1>0, <1>1, <1>3, Deleting DEF Gone
<1>5. row[e.sub].state # "none" /\ (Bundles!InitWorked => Purging(e)')
    BY <1>0, <1>1, <1>3, <1>4, Deleting DEF Purging
<1>6. /\ row' \in [Submission -> Bundles!Row]
      /\ \A t \in Submission : row'[t].key = row[t].key /\ row'[t].state = row[t].state
    BY <1>0, Deleting
<1> QED
    BY <1>0, <1>1, <1>2, <1>3, <1>5, <1>6, DeleteMoves

LEMMA DeleteRowsKeeps ==
    ASSUME BundleInv, NEW d \in Delete, Bundles!DeleteRows(d)
    PROVE  BundleInv'
<1>0. del[d].pc = "rows" /\ UNCHANGED <<store, expired, old, submit, fin, sweep, late>>
    BY DEF Bundles!DeleteRows
<1>1. PICK pc \in {"ok", "failed"} :
          /\ del' = [del EXCEPT ![d] = [del[d] EXCEPT !.pc = pc]]
          /\ row' \in {row, [row EXCEPT ![del[d].sub].state = "deleted"]}
          /\ UNCHANGED faults \/ \E k \in Bundles!FaultKind : Bundles!Fault(k)
    BY DEF Bundles!DeleteRows, Bundles!FaultKind
<1>2. PICK e : e = [del[d] EXCEPT !.pc = pc]
    OBVIOUS
<1>3. e \in Bundles!DeleteRequest /\ e.pc = pc /\ e.sub = del[d].sub
    BY <1>0, <1>2, Deleting, ZenonT(60) DEF Bundles!DeleteRequest
<1>4. PICK s \in Submission : s = del[d].sub
    BY <1>0, Deleting
<1>5. row[s].state # "none" /\ (Bundles!InitWorked => s \in late \/ Gone(s))
    BY <1>0, <1>4, Deleting
<1>6. row \in [Submission -> Bundles!Row] /\ row[s] \in Bundles!Row
    BY <1>0, Deleting
<1>7. /\ [row[s] EXCEPT !.state = "deleted"] \in Bundles!Row
      /\ [row[s] EXCEPT !.state = "deleted"].state = "deleted"
      /\ [row[s] EXCEPT !.state = "deleted"].key = row[s].key
    BY <1>6, RowWith DEF Bundles!Row
<1>8. row' \in [Submission -> Bundles!Row]
    BY <1>1, <1>4, <1>6, <1>7
<1>9. \A t \in Submission :
          /\ row'[t].key = row[t].key
          /\ \/ row'[t].state = row[t].state
             \/ /\ row'[t].state = "deleted" /\ row[t].state # "none"
                /\ e.sub = t /\ e.pc \in {"ok", "failed"}
                /\ Bundles!InitWorked => t \in late \/ Gone(t)
    BY <1>1, <1>3, <1>4, <1>5, <1>6, <1>7
<1>10. store' \subseteq store /\ Purging(e)'
    BY <1>0, <1>3 DEF Purging
<1> QED
    BY <1>0, <1>1, <1>2, <1>3, <1>8, <1>9, <1>10, DeleteMoves

----------------------------------------------------------------------------
(* The retention sweep. *)

\* A step of the sweep, which becomes w: objects go, or a row is marked whose
\* bundle has gone.
LEMMA SweepMoves ==
    ASSUME BundleInv, NEW w \in Sweeping, sweep' = w,
           UNCHANGED <<expired, old, submit, fin, del, late>>,
           store' \subseteq store,
           UNCHANGED faults \/ \E k \in Bundles!FaultKind : Bundles!Fault(k),
           row' \in [Submission -> Bundles!Row],
           \A t \in Submission :
               /\ row'[t].state = row[t].state
               /\ \/ row'[t].key = row[t].key
                  \/ row'[t].key = "" /\ t \in expired /\ (Bundles!InitWorked => Gone(t)),
           \A seen \in w.todo \cup w.hand : seen.sub \in expired /\ (Bundles!InitWorked => seen.key = "own"),
           w.pc = "mark" => \A seen \in w.hand : Bundles!InitWorked => Gone(seen.sub)',
           \A a, b \in w.hand : a = b
    PROVE  BundleInv'
<1>0. Bundles!TypeOK
    BY DEF BundleInv
<1>1. /\ faults' \in [Bundles!FaultKind -> Nat]
      /\ \A j \in Bundles!FaultKind : faults[j] # 0 => faults'[j] # 0
    BY <1>0, FaultsGrow
<1>2. Bundles!TypeOK'
    BY <1>0, <1>1 DEF Bundles!TypeOK, Sweeping
<1>3. Progress
    BY <1>1 DEF Progress, Ended
<1>4. (Bundles!InitWorked' => Bundles!InitWorked) /\ \A t \in Submission : Gone(t) => Gone(t)'
    BY <1>3, StaysGone DEF Gone
<1>5. SweepInv'
    BY <1>4 DEF SweepInv, Gone
<1>6. ASSUME NEW t \in Submission PROVE RowInv(t)'
    <2>1. RowInv(t) /\ (Ended(t) => Ended(t)')
        BY DEF BundleInv, Ended
    <2>2. \A k \in Bundles!Key : <<k, t>> \in store' => <<k, t>> \in store
        OBVIOUS
    <2> QED
        BY <1>4, <2>1, <2>2 DEF RowInv
<1> QED
    BY <1>2, <1>3, <1>5, <1>6, DeletesKept, FinsKept DEF BundleInv

LEMMA SweepKeeps ==
    ASSUME BundleInv, Bundles!SweepStep \/ Bundles!SweepCrash
    PROVE  BundleInv'
<1>0. /\ Bundles!TypeOK /\ SweepInv /\ sweep \in Sweeping
      /\ sweep.todo \subseteq Bundles!Seen /\ sweep.hand \subseteq Bundles!Seen
      /\ row \in [Submission -> Bundles!Row] /\ expired \subseteq Submission /\ old \subseteq expired
      /\ UNCHANGED <<expired, old, submit, fin, del, late>>
    BY
       DEF BundleInv, Bundles!TypeOK, Sweeping, Bundles!SweepStep, Bundles!SweepRead, Bundles!SweepNext,
           Bundles!SweepDelete, Bundles!SweepMark,
           Bundles!SweepCrash
<1>1. CASE Bundles!SweepRead
    <2>1. PICK w : w = [sweep EXCEPT !.todo = Bundles!Due]
        OBVIOUS
    <2>2. ASSUME NEW seen \in Bundles!Due
          PROVE  seen \in Bundles!Seen /\ seen.sub \in expired /\ (Bundles!InitWorked => seen.key = "own")
        <3>1. PICK s \in old : /\ row[s].state = "live" /\ row[s].key # ""
                               /\ seen = [sub |-> s, key |-> row[s].key]
            BY DEF Bundles!Due
        <3>2. s \in Submission /\ s \in expired /\ row[s] \in Bundles!Row /\ RowInv(s)
            BY <1>0, <3>1 DEF BundleInv
        <3>3. seen.sub = s /\ seen.key = row[s].key /\ row[s].key \in Bundles!Key /\ seen \in Bundles!Seen
            BY <3>1, <3>2 DEF Bundles!Row, Bundles!Seen
        <3> QED
            BY <3>1, <3>2, <3>3 DEF RowInv
    <2>3. w \in Sweeping /\ w.todo = Bundles!Due /\ w.pc = "idle" /\ w.hand = {}
        BY <1>0, <1>1, <2>1, <2>2 DEF Sweeping, Bundles!SweepRead
    <2>4. sweep' = w /\ UNCHANGED <<row, store, faults>>
        BY <1>1, <2>1 DEF Bundles!SweepRead
    <2>5. \A seen \in w.todo \cup w.hand : seen.sub \in expired /\ (Bundles!InitWorked => seen.key = "own")
        BY <2>2, <2>3
    <2> QED
        BY <1>0, <2>3, <2>4, <2>5, SweepMoves
<1>2. CASE Bundles!SweepNext
    <2>1. PICK seen \in sweep.todo :
              sweep' = [todo |-> sweep.todo \ {seen}, pc |-> "delete", hand |-> {seen}]
        BY <1>2 DEF Bundles!SweepNext
    <2>2. PICK w : w = [todo |-> sweep.todo \ {seen}, pc |-> "delete", hand |-> {seen}]
        OBVIOUS
    <2>3. /\ w \in Sweeping /\ w.pc = "delete" /\ w.todo \subseteq sweep.todo
          /\ w.hand \subseteq sweep.todo /\ sweep' = w /\ UNCHANGED <<row, store, faults>>
        BY <1>0, <1>2, <2>1, <2>2 DEF Sweeping, Bundles!SweepNext
    <2>4. \A x \in w.todo \cup w.hand : x.sub \in expired /\ (Bundles!InitWorked => x.key = "own")
        BY <1>0, <2>3 DEF SweepInv
    <2>5. \A a, b \in w.hand : a = b
        BY <2>2, <2>3
    <2> QED
        BY <1>0, <2>3, <2>4, <2>5, SweepMoves
<1>3. CASE Bundles!SweepDelete
    <2>1. PICK seen \in sweep.hand, pc \in {"mark", "idle"} :
              /\ Bundles!SweepTo(pc) /\ store' \subseteq store
              /\ UNCHANGED faults \/ \E k \in Bundles!FaultKind : Bundles!Fault(k)
              /\ pc = "mark" => store' = Bundles!Without(seen.key, seen.sub)
        BY <1>3
           DEF Bundles!SweepDelete, Bundles!AfterFailure, Bundles!Without, Bundles!FaultKind
    <2>2. PICK w : w = [sweep EXCEPT !.pc = pc, !.hand = IF pc = "idle" THEN {} ELSE sweep.hand]
        OBVIOUS
    <2>3. /\ w \in Sweeping /\ w.pc = pc /\ w.todo = sweep.todo /\ w.hand \subseteq sweep.hand
          /\ sweep' = w
        BY <1>0, <2>1, <2>2 DEF Sweeping, Bundles!SweepTo
    <2>4. \A x \in w.todo \cup w.hand : x.sub \in expired /\ (Bundles!InitWorked => x.key = "own")
        BY <1>0, <2>3 DEF SweepInv
    <2>5. ASSUME w.pc = "mark", Bundles!InitWorked, NEW x \in w.hand PROVE Gone(x.sub)'
        <3>1. x = seen /\ store' = Bundles!Without(x.key, x.sub)
            BY <1>0, <2>1, <2>3, <2>5 DEF SweepInv
        <3>2. PICK s \in Submission : s = x.sub
            BY <1>0, <2>1, <3>1 DEF Bundles!Seen
        <3>3. s \in expired /\ x.key = "own"
            BY <1>0, <2>1, <2>5, <3>1, <3>2 DEF SweepInv
        <3>5. \A k \in Bundles!Key : <<k, s>> \in store => k = "own"
            BY <2>5, <3>2, OwnGone
        <3>6. \A k \in Bundles!Key : <<k, s>> \notin store'
            BY <3>1, <3>2, <3>3, <3>5 DEF Bundles!Without
        <3> QED
            BY <3>2, <3>6 DEF Gone
    <2>6. \A a, b \in w.hand : a = b
        BY <1>0, <2>3 DEF SweepInv
    <2>7. UNCHANGED row
        BY <1>3 DEF Bundles!SweepDelete
    <2> QED
        BY <1>0, <2>1, <2>3, <2>4, <2>5, <2>6, <2>7, SweepMoves
<1>4. CASE Bundles!SweepMark
    <2>1. PICK seen \in sweep.hand :
              /\ UNCHANGED faults \/ \E k \in Bundles!FaultKind : Bundles!Fault(k)
              /\ row' \in {row, [row EXCEPT ![seen.sub].key = ""]}
        BY <1>4 DEF Bundles!SweepMark, Bundles!FaultKind
    <2>2. sweep.pc = "mark" /\ UNCHANGED store /\ Bundles!SweepTo("idle")
        BY <1>4 DEF Bundles!SweepMark
    <2>3. PICK w : w = [sweep EXCEPT !.pc = "idle", !.hand = {}]
        OBVIOUS
    <2>4. w \in Sweeping /\ w.pc = "idle" /\ w.todo = sweep.todo /\ w.hand = {} /\ sweep' = w
        BY <1>0, <2>2, <2>3 DEF Sweeping, Bundles!SweepTo
    <2>5. \A x \in w.todo \cup w.hand : x.sub \in expired /\ (Bundles!InitWorked => x.key = "own")
        BY <1>0, <2>4 DEF SweepInv
    <2>6. PICK s \in Submission : s = seen.sub
        BY <1>0, <2>1 DEF Bundles!Seen
    <2>7. s \in expired /\ (Bundles!InitWorked => Gone(s)) /\ row[s] \in Bundles!Row
        BY <1>0, <2>1, <2>2, <2>6 DEF SweepInv
    <2>8. /\ [row[s] EXCEPT !.key = ""] \in Bundles!Row
          /\ [row[s] EXCEPT !.key = ""].key = ""
          /\ [row[s] EXCEPT !.key = ""].state = row[s].state
        BY <2>7, RowWith DEF Bundles!Row
    <2>9. row' \in [Submission -> Bundles!Row]
        BY <1>0, <2>1, <2>6, <2>8
    <2>10. \A t \in Submission :
               /\ row'[t].state = row[t].state
               /\ \/ row'[t].key = row[t].key
                  \/ row'[t].key = "" /\ t \in expired /\ (Bundles!InitWorked => Gone(t))
        BY <1>0, <2>1, <2>6, <2>7, <2>8
    <2>11. store' \subseteq store
        BY <2>2
    <2> QED
        BY <1>0, <2>1, <2>4, <2>5, <2>9, <2>10, <2>11, SweepMoves
<1>5. CASE Bundles!SweepCrash
    <2>1. PICK w : w = [todo |-> {}, pc |-> "idle", hand |-> {}]
        OBVIOUS
    <2>2. w \in Sweeping /\ w.pc = "idle" /\ w.todo = {} /\ w.hand = {}
        BY <2>1 DEF Sweeping
    <2>3. /\ sweep' = w /\ UNCHANGED <<row, store>>
          /\ UNCHANGED faults \/ \E k \in Bundles!FaultKind : Bundles!Fault(k)
        BY <1>5, <2>1 DEF Bundles!SweepCrash, Bundles!FaultKind
    <2> QED
        BY <1>0, <2>2, <2>3, SweepMoves
<1> QED
    BY <1>1, <1>2, <1>3, <1>4, <1>5 DEF Bundles!SweepStep

----------------------------------------------------------------------------
LEMMA BundleStep == ASSUME BundleInv, [Bundles!Next]_(Bundles!vars) PROVE BundleInv'
<1>1. CASE UNCHANGED Bundles!vars
    <2>1. UNCHANGED <<row, store, expired, old, submit, fin, del, sweep, late, faults>>
        BY <1>1 DEF Bundles!vars
    <2>2. Progress
        BY <2>1 DEF Progress, Ended
    <2>3. Bundles!TypeOK'
        BY <2>1 DEF BundleInv, Bundles!TypeOK
    <2>4. \A s \in Submission : s \in expired => submit[s].pc \in {"upload", "uploaded"}
        BY DEF BundleInv, RowInv
    <2> QED
        BY <2>1, <2>2, <2>3, <2>4, RowsKept, DeletesKept, SweepKept, FinsKept DEF BundleInv
<1>2. ASSUME NEW s \in Submission,
             \/ Bundles!CreateRow(s) \/ Bundles!Rekey(s) \/ Bundles!Upload(s)
             \/ Bundles!ExpireUrl(s) \/ Bundles!Age(s) \/ Bundles!RunLogs(s)
      PROVE  BundleInv'
    BY <1>2, CreateKeeps, RekeyKeeps, UploadKeeps, TimeKeeps, LogKeeps
<1>3. ASSUME NEW r \in Finalize, Bundles!FinalizeLoad(r) \/ Bundles!HeadObject(r) \/ Bundles!FinalizeCheck(r)
      PROVE  BundleInv'
    BY <1>3, LoadKeeps, HeadKeeps, CheckKeeps
<1>4. ASSUME NEW d \in Delete, Bundles!DeleteRead(d) \/ Bundles!DeleteStep(d)
      PROVE  BundleInv'
    BY <1>4, DeleteReadKeeps, DeleteBundleKeeps, DeleteLogKeeps, DeleteRowsKeeps
       DEF Bundles!DeleteStep
<1>5. ASSUME Bundles!SweepStep \/ Bundles!SweepCrash PROVE BundleInv'
    BY <1>5, SweepKeeps
<1> QED
    BY <1>1, <1>2, <1>3, <1>4, <1>5 DEF Bundles!Next

\* What rows, deletions, the sweep and finalize requests know of the bundles
\* holds for any number of them.
LEMMA BundleInvariance == AllSpec => []BundleInv
<1>1. BundleInv /\ [Bundles!Next]_(Bundles!vars) => BundleInv'
    BY BundleStep
<1> QED
    BY <1>1, InitBundle, PartsRun, PTL

\* Every row, request and sweep keeps to its states (types of BundleLifecycle).
THEOREM BundleTypes == AllSpec => []Bundles!TypeOK
<1>1. BundleInv => Bundles!TypeOK
    BY DEF BundleInv
<1> QED
    BY <1>1, BundleInvariance, PTL

\* However sweeps, deletions, uploads, crashes and failing calls interleave, a
\* row that is marked purged has left no bundle, and a row that is deleted only
\* one uploaded behind its purge (submission-retention.ts and the DELETE route),
\* when the init of every submission worked.
THEOREM PurgesAreReal == AllSpec => []PurgedMeansGone
<1>1. BundleInv => Bundles!PurgedMeansGone
    <2> SUFFICES ASSUME BundleInv, Bundles!InitWorked, NEW s \in Submission,
                        row[s].key = "" \/ (row[s].state = "deleted" /\ s \notin late)
                 PROVE  store \cap Bundles!Bundle(s) = {}
        BY DEF Bundles!PurgedMeansGone, Bundles!MarkedMeansGone, Bundles!DeletedMeansGone
    <2>1. Gone(s)
        BY DEF BundleInv, RowInv
    <2> QED
        BY <2>1 DEF Gone, Bundles!Bundle
<1> QED
    BY <1>1, BundleInvariance, PTL DEF PurgedMeansGone

\* While storage answers, what finalize accepts was uploaded, unless it was
\* purged before (finalize/route.ts, checkUploadIntegrity).
THEOREM AcceptanceNeedsUpload == AllSpec => []AcceptedWasUploaded
<1>1. BundleInv => Bundles!AcceptedWasUploaded
    BY DEF BundleInv, FinInv, Bundles!AcceptedWasUploaded
<1> QED
    BY <1>1, BundleInvariance, PTL DEF AcceptedWasUploaded
=============================================================================
