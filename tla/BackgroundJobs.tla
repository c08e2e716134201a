--------------------------- MODULE BackgroundJobs ---------------------------
(* The worker's small queues (apps/worker): branch_stats_rollup, fed by the
   recurring schedule and by an admin, and share_card_render, fed by an admin.  A BullMQ worker takes a job, runs its
   processor statement by statement against Postgres and settles it; a worker that dies sends its
   job back to the queue.

   One package version, one decision node, one share card.  A traversal is a
   branch taken (or none) at a time; time is counted in cron periods. *)
EXTENDS Naturals, Sequences, FiniteSets

CONSTANTS
    Job,            \* job slots
    Worker,         \* worker processes
    Branch,         \* the branches of the node
    NoBranch,       \* a traversal that records none
    Cohort,         \* cohorts; the rollup reads none of them
    NodeMinN,       \* NODE_MIN_N
    BranchMinN,     \* BRANCH_MIN_N
    AdminWindow,    \* the windows <<from, to>> an admin asks for
    Window,         \* ROLLING_WINDOW_MS, in cron periods
    MaxTime,        \* bound on the clock
    MaxTraversals,  \* bound on traversals
    MaxErased,      \* bound on those erased
    MaxStalls,      \* bound on the times jobs come back to the queue
    MaxErrors,      \* bound on failing statements
    None

ASSUME JobsAssumption ==
    /\ NodeMinN \in Nat /\ BranchMinN \in Nat \ {0}
    /\ NoBranch \notin Branch /\ None \notin Nat
    /\ AdminWindow \subseteq Nat \X Nat /\ Window \in Nat

VARIABLES
    now,        \* the clock
    traversal,  \* NodeTraversal rows: branch, time, and a number among those alike
    erased,     \* history: the rows that went with their learners' accounts
    schedule,   \* the repeating job's payload, None before installSchedules
    fired,      \* the last period the repeating job was added for
    job,        \* the queues
    proc,       \* the workers
    stat,       \* BranchStat rows, in the order of their creation
    slug,       \* ShareCard.publicSlug
    slugs,      \* slugs generated so far
    announced,  \* slugs a share_card_created event was sent for
    stalls, errors

db == <<stat, slug, slugs, announced>>
bounds == <<stalls, errors>>
vars == <<now, traversal, erased, schedule, fired, job, proc, db, bounds>>

Slot == [state |-> "none", kind |-> None, cohort |-> None, from |-> 0, to |-> 0,
         live |-> FALSE]
Idle == [job |-> None, pc |-> "idle", todo |-> {}, row |-> None]

Init ==
    /\ now = 0
    /\ traversal = {} /\ erased = {}
    /\ schedule = None /\ fired = 0
    /\ job = [j \in Job |-> Slot]
    /\ proc = [w \in Worker |-> Idle]
    /\ stat = <<>>
    /\ slug = None /\ slugs = 0 /\ announced = {}
    /\ stalls = 0 /\ errors = 0

(* ---------------------------- learners and time ---------------------------- *)

\* The traversals of T that took some branches with from <= selectedAt < to.
Taken(T, branches, from, to) ==
    {x \in T : x.branch \in branches /\ from <= x.at /\ x.at < to}
Count(T, b, from, to) == Cardinality(Taken(T, {b}, from, to))

\* Every traversal there ever was.
Ever == traversal \cup erased

Tick ==
    /\ now < MaxTime
    /\ now' = now + 1
    /\ UNCHANGED <<traversal, erased, schedule, fired, job, proc, db, bounds>>

Traverse(b) ==
    /\ Cardinality(Ever) < MaxTraversals /\ now < MaxTime
    /\ LET same == {x \in Ever : x.branch = b /\ x.at = now}
       IN  traversal' = traversal \cup {[id |-> Cardinality(same), branch |-> b, at |-> now]}
    /\ UNCHANGED <<now, erased, schedule, fired, job, proc, db, bounds>>

\* A learner's account is deleted, and the traversals of its enrollments with it.
Erase(own) ==
    /\ own # {} /\ Cardinality(erased \cup own) <= MaxErased
    /\ traversal' = traversal \ own
    /\ erased' = erased \cup own
    /\ UNCHANGED <<now, schedule, fired, job, proc, db, bounds>>

(* -------------------------------- producers -------------------------------- *)

Enqueue(j, data) ==
    /\ job[j].state = "none"
    /\ job' = [job EXCEPT ![j] = [data EXCEPT !.state = "waiting"]]

Rollup(cohort, from, to, live) ==
    [Slot EXCEPT !.kind = "rollup", !.cohort = cohort, !.from = from, !.to = to,
                 !.live = live]

\* installSchedules, at a worker's boot: the payload is built once, for the
\* version '*' the lookup returns; a later boot leaves the repeating job as it is.
Install ==
    /\ schedule = None
    /\ \E cohort \in Cohort :
         schedule' = Rollup(cohort, IF now > Window THEN now - Window ELSE 0, now, FALSE)
    /\ fired' = now
    /\ UNCHANGED <<now, traversal, erased, job, proc, db, bounds>>

\* BullMQ adds the repeating job, with its payload, at each cron period.
Fire(j) ==
    /\ schedule # None /\ fired < now
    /\ Enqueue(j, schedule)
    /\ fired' = now
    /\ UNCHANGED <<now, traversal, erased, schedule, proc, db, bounds>>

\* POST /api/admin/rollup-branch-stats and /render-share-card.
Ask(j) ==
    /\ \/ \E cohort \in Cohort, w \in AdminWindow :
            Enqueue(j, Rollup(cohort, w[1], w[2], TRUE))
       \/ Enqueue(j, [Slot EXCEPT !.kind = "render"])
    /\ UNCHANGED <<now, traversal, erased, schedule, fired, proc, db, bounds>>

(* -------------------------------- processors ------------------------------- *)

On(w) == job[proc[w].job]
Go(w, pc) == proc' = [proc EXCEPT ![w].pc = pc]

\* aggregateTraversals: a count per branch, and their sum; a traversal without a
\* branch counts for neither, and one of any cohort for every cohort.
NodeCount(T, from, to) == Cardinality(Taken(T, Branch, from, to))

Aggregate(data) ==
    IF ~data.live THEN {}
    ELSE {[branch |-> b, n |-> Count(traversal, b, data.from, data.to),
           node |-> NodeCount(traversal, data.from, data.to)] :
             b \in {c \in Branch : Count(traversal, c, data.from, data.to) > 0}}

\* computePercent, with Math.round(percent / 5) * 5.
PercentOfBranch(n, node) ==
    IF n < BranchMinN THEN None ELSE 5 * ((40 * n + node) \div (2 * node))
Percent(n, node) ==
    IF node < NodeMinN \/ n < BranchMinN \/ node = 0 THEN None
    ELSE 5 * ((40 * n + node) \div (2 * node))

Take(w, j) ==
    /\ proc[w].pc = "idle" /\ job[j].state = "waiting"
    /\ job' = [job EXCEPT ![j].state = "active"]
    /\ proc' = [proc EXCEPT ![w] = [Idle EXCEPT !.job = j, !.pc = "start"]]
    /\ UNCHANGED <<now, traversal, erased, schedule, fired, db, bounds>>

ReadTraversals(w) ==
    /\ proc[w].pc = "start" /\ On(w).kind = "rollup"
    /\ proc' = [proc EXCEPT ![w].pc = "next", ![w].todo = Aggregate(On(w))]
    /\ UNCHANGED <<now, traversal, erased, schedule, fired, job, db, bounds>>

\* findFirst by version, node, branch, cohort and windowStart.
Existing(w, branch) ==
    {i \in DOMAIN stat : /\ stat[i].branch = branch
                         /\ stat[i].cohort = On(w).cohort /\ stat[i].from = On(w).from}

FindStat(w, a) ==
    /\ proc[w].pc = "next" /\ a \in proc[w].todo
    /\ LET found == Existing(w, a.branch)
       IN  \/ /\ found = {}
              /\ proc' = [proc EXCEPT ![w].pc = "write", ![w].row = [new |-> a]]
           \/ \E i \in found :
                 proc' = [proc EXCEPT ![w].pc = "write", ![w].row = [new |-> a, old |-> i]]
    /\ UNCHANGED <<now, traversal, erased, schedule, fired, job, db, bounds>>

Rest(w) == proc[w].todo \ {proc[w].row.new}

\* update the row that was found, or create one.
WriteStat(w) ==
    /\ proc[w].pc = "write"
    /\ LET a == proc[w].row.new
           percent == Percent(a.n, a.node)
       IN  stat' = IF "old" \in DOMAIN proc[w].row
                   THEN [stat EXCEPT ![proc[w].row.old] =
                           [@ EXCEPT !.n = a.n, !.percent = percent, !.to = On(w).to]]
                   ELSE Append(stat, [branch |-> a.branch, cohort |-> On(w).cohort,
                                      from |-> On(w).from, to |-> On(w).to,
                                      n |-> a.n, percent |-> percent])
    /\ proc' = [proc EXCEPT ![w].pc = "next", ![w].todo = Rest(w), ![w].row = None]
    /\ UNCHANGED <<now, traversal, erased, schedule, fired, job, slug, slugs, announced, bounds>>

\* runShareCardRender: a card that has its slug is left alone.
AlwaysStamp == "stamp"
AfterFind == IF slug = None THEN "stamp" ELSE "done"
FindCard(w) ==
    /\ proc[w].pc = "start" /\ On(w).kind = "render"
    /\ Go(w, AfterFind)
    /\ UNCHANGED <<now, traversal, erased, schedule, fired, job, db, bounds>>

StampSlug(w) ==
    /\ proc[w].pc = "stamp"
    /\ slugs' = slugs + 1
    /\ slug' = slugs + 1
    /\ proc' = [proc EXCEPT ![w].pc = "announce", ![w].row = slugs + 1]
    /\ UNCHANGED <<now, traversal, erased, schedule, fired, job, stat, announced, bounds>>

\* track is best effort: the event is sent, or its failure swallowed.
Announce(w) ==
    /\ proc[w].pc = "announce"
    /\ announced' \in {announced, announced \cup {proc[w].row}}
    /\ proc' = [proc EXCEPT ![w].pc = "done", ![w].row = None]
    /\ UNCHANGED <<now, traversal, erased, schedule, fired, job, stat, slug, slugs, bounds>>

Finished(w) == proc[w].pc = "done" \/ (proc[w].pc = "next" /\ proc[w].todo = {})

\* The processor returns.
Settle(w) ==
    /\ Finished(w)
    /\ job' = [job EXCEPT ![proc[w].job] = [Slot EXCEPT !.state = "completed"]]
    /\ proc' = [proc EXCEPT ![w] = Idle]
    /\ UNCHANGED <<now, traversal, erased, schedule, fired, db, bounds>>

\* A statement throws: the processor rejects and the job fails (attempts: 1).
Throw(w) ==
    /\ proc[w].pc \in {"start", "next", "write", "stamp"}
    /\ errors < MaxErrors
    /\ errors' = errors + 1
    /\ job' = [job EXCEPT ![proc[w].job] = [Slot EXCEPT !.state = "failed"]]
    /\ proc' = [proc EXCEPT ![w] = Idle]
    /\ UNCHANGED <<now, traversal, erased, schedule, fired, db, stalls>>

\* A worker dies and its job is taken again.
Crash(w) ==
    /\ proc[w].pc # "idle" /\ stalls < MaxStalls
    /\ stalls' = stalls + 1
    /\ job' = [job EXCEPT ![proc[w].job].state = "waiting"]
    /\ proc' = [proc EXCEPT ![w] = Idle]
    /\ UNCHANGED <<now, traversal, erased, schedule, fired, db, errors>>

(* -------------------------------- the system ------------------------------- *)

Process(w) ==
    \/ ReadTraversals(w) \/ (\E a \in proc[w].todo : FindStat(w, a)) \/ WriteStat(w)
    \/ FindCard(w) \/ StampSlug(w) \/ Announce(w) \/ Settle(w)

TakeAny(w) == \E j \in Job : Take(w, j)

Next ==
    \/ Tick \/ Install
    \/ \E b \in Branch \cup {NoBranch} : Traverse(b)
    \/ \E own \in SUBSET traversal : Erase(own)
    \/ \E j \in Job : Fire(j) \/ Ask(j)
    \/ \E w \in Worker : TakeAny(w) \/ Process(w) \/ Throw(w) \/ Crash(w)

Spec == Init /\ [][Next]_vars

(* -------------------------------- properties ------------------------------- *)

\* One worker with CONCURRENCY 1, the default, leaves one row per branch, cohort
\* and window start, however often a worker died between the look-up and the
\* write: the table has no unique key to say so.
OneRowPerKey ==
    \A i, j \in DOMAIN stat :
        /\ stat[i].branch = stat[j].branch /\ stat[i].cohort = stat[j].cohort
        /\ stat[i].from = stat[j].from
        => i = j

\* A percentage is only published over enough learners: at least BRANCH_MIN_N
\* took the branch and NODE_MIN_N some branch in the row's own window (backlog/06,
\* quoted at branch-stats-rollup.ts:24), those included whose accounts were
\* deleted since: a row stays as it was counted until a later roll-up counts again.
PublishedIsLarge ==
    \A i \in DOMAIN stat : LET s == stat[i] IN s.percent # None =>
        /\ Count(Ever, s.branch, s.from, s.to) >= s.n /\ s.n >= BranchMinN
        /\ NodeCount(Ever, s.from, s.to) >= NodeMinN

\* The statistics in the table: one row per window, and nothing published of few.
StatsAreSound == OneRowPerKey /\ PublishedIsLarge

\* With one worker, a slug that was announced is the card's slug for good: a job
\* that runs again never takes the address away from under a link already shared.
AnnouncedIsServed == announced \subseteq {slug}

=============================================================================
