-------------------------- MODULE BundleLifecycle --------------------------
(***************************************************************************)
(* The bundle object behind a Submission row.  The CLI initialises a       *)
(* submission, uploads the bundle under a signed URL and finalizes; the    *)
(* learner may delete the submission; a retention sweep purges bundles     *)
(* past their window.  Rows are in Postgres, objects in S3, and nothing    *)
(* spans the two.                                                          *)
(***************************************************************************)
EXTENDS Naturals

CONSTANTS
    Submission,   \* submissions, each initialised and uploaded by one CLI submit
    Finalize,     \* finalize requests, repeated ones included
    Delete,       \* requests to delete a submission
    Ageing,       \* whether submissions get past the retention window
    MaxFaults     \* bound on the faults of each kind

FaultKind == {"create", "rekey", "storage", "db"}
Key == {"own", "placeholder"}      \* submissions/<id>/..., submissions/sub-<time>/...
Object == {"own", "placeholder", "log"} \X Submission

\* What the constants are taken to be.
BundleAssumption ==
    /\ Ageing \in BOOLEAN
    /\ MaxFaults \in [FaultKind -> Nat]

VARIABLES
    row,     \* Submission row: whether it exists, bundleObjectKey ("" once purged), a run's log
    store,   \* objects in the buckets
    expired, \* submissions whose signed URL has expired
    old,     \* submissions past the retention window
    submit,  \* CLI submit: program counter, key its URL signs
    fin,     \* finalize request: program counter, submission, key it saw, what headObject said
    del,     \* delete request: program counter, submission, key and log it saw
    sweep,   \* retention sweep: rows it has read and not handled, the row in hand
    late,    \* history: submissions whose upload landed behind a deletion's purge
    faults

vars == <<row, store, expired, old, submit, fin, del, sweep, late, faults>>

Row == [state: {"none", "live", "deleted"}, key: Key \cup {""}, log: BOOLEAN]
FinalizeRequest == [pc: {"new", "head", "check", "accepted", "refused", "unknown"},
                    sub: Submission, key: Key \cup {""}, head: {"none", "found", "missing", "error"}]
DeleteRequest == [pc: {"new", "bundle", "log", "rows", "ok", "unavailable", "failed"},
                  sub: Submission, key: Key \cup {""}, log: BOOLEAN]
Seen == [sub: Submission, key: Key]

TypeOK ==
    /\ row \in [Submission -> Row]
    /\ store \subseteq Object
    /\ expired \subseteq Submission
    /\ old \subseteq expired
    /\ submit \in [Submission -> [pc: {"create", "rekey", "upload", "uploaded"}, key: Key]]
    /\ fin \in [Finalize -> FinalizeRequest]
    /\ del \in [Delete -> DeleteRequest]
    /\ sweep \in [todo: SUBSET Seen, pc: {"idle", "delete", "mark"}, hand: SUBSET Seen]
    /\ late \subseteq Submission
    /\ faults \in [FaultKind -> Nat]

Init ==
    /\ row = [s \in Submission |-> [state |-> "none", key |-> "placeholder", log |-> FALSE]]
    /\ store = {}
    /\ expired = {}
    /\ old = {}
    /\ submit = [s \in Submission |-> [pc |-> "create", key |-> "placeholder"]]
    /\ fin \in [Finalize -> [pc: {"new"}, sub: Submission, key: {""}, head: {"none"}]]
    /\ del \in [Delete -> [pc: {"new"}, sub: Submission, key: {""}, log: {FALSE}]]
    /\ sweep = [todo |-> {}, pc |-> "idle", hand |-> {}]
    /\ late = {}
    /\ faults = [k \in FaultKind |-> 0]

Fault(k) ==
    /\ faults[k] < MaxFaults[k]
    /\ faults' = [faults EXCEPT ![k] = @ + 1]

Without(key, s) == store \ {<<key, s>>}

----------------------------------------------------------------------------
(* POST /api/submissions and the upload. *)

\* submission.create under a placeholder key.  When it fails the answer names a
\* made-up submission, whose URL signs that placeholder; a create that timed
\* out may have committed.
CreateRow(s) ==
    /\ submit[s].pc = "create"
    /\ \/ /\ row' = [row EXCEPT ![s].state = "live"]
          /\ submit' = [submit EXCEPT ![s].pc = "rekey"]
          /\ UNCHANGED faults
       \/ /\ Fault("create")
          /\ row' \in {row, [row EXCEPT ![s].state = "live"]}
          /\ submit' = [submit EXCEPT ![s].pc = "upload"]
    /\ UNCHANGED <<store, expired, old, fin, del, sweep, late>>

\* The row gets its own key; the URL signs it whether or not that update works.
Rekey(s) ==
    /\ submit[s].pc = "rekey"
    /\ submit' = [submit EXCEPT ![s].pc = "upload", ![s].key = "own"]
    /\ \/ /\ row[s].state = "live"
          /\ row' = [row EXCEPT ![s].key = "own"]
          /\ UNCHANGED faults
       \/ row[s].state # "live" /\ UNCHANGED <<row, faults>>
       \/ Fault("rekey") /\ UNCHANGED row
    /\ UNCHANGED <<store, expired, old, fin, del, sweep, late>>

\* A deletion has purged the bundle, or is about to purge it under another key
\* than the URL signs: it read the row before Rekey.
TooLate(s) ==
    \E d \in Delete :
        /\ del[d].sub = s
        /\ \/ del[d].pc \in {"log", "rows", "ok", "failed"}
           \/ del[d].pc = "bundle" /\ del[d].key # submit[s].key

\* The CLI's PUT, good while the URL is, whatever became of the row.
Upload(s) ==
    /\ submit[s].pc = "upload"
    /\ s \notin expired
    /\ store' = store \cup {<<submit[s].key, s>>}
    /\ submit' = [submit EXCEPT ![s].pc = "uploaded"]
    /\ late' = late \cup {t \in {s} : TooLate(t)}
    /\ UNCHANGED <<row, expired, old, fin, del, sweep, faults>>

\* Ten minutes after the URL was signed; fourteen days after the row was created.
ExpireUrl(s) ==
    /\ submit[s].pc \in {"upload", "uploaded"}
    /\ expired' = expired \cup {s}
    /\ UNCHANGED <<row, store, old, submit, fin, del, sweep, late, faults>>

Outlived(s) == s \in expired

Age(s) ==
    /\ Ageing
    /\ submit[s].pc \in {"upload", "uploaded"}
    /\ Outlived(s)
    /\ old' = old \cup {s}
    /\ UNCHANGED <<row, store, expired, submit, fin, del, sweep, late, faults>>

----------------------------------------------------------------------------
(* POST /api/submissions/[id]/finalize, up to the integrity check. *)

\* Only a submission that init answered with its real id can be found again, and
\* a look-up that fails is taken for a submission that is not there.
FinalizeLoad(r) ==
    /\ fin[r].pc = "new"
    /\ LET s == fin[r].sub
       IN  /\ submit[s].pc \in {"upload", "uploaded"}
           /\ \/ /\ row[s].state = "live" /\ submit[s].key = "own"
                 /\ fin' = [fin EXCEPT ![r].pc = "head", ![r].key = row[s].key]
                 /\ UNCHANGED faults
              \/ /\ \/ ~(row[s].state = "live" /\ submit[s].key = "own") /\ UNCHANGED faults
                    \/ Fault("db")
                 /\ fin' = [fin EXCEPT ![r].pc = "unknown"]
    /\ UNCHANGED <<row, store, expired, old, submit, del, sweep, late>>

\* headObject: the client library refuses an empty key, which is not "missing".
HeadObject(r) ==
    /\ fin[r].pc = "head"
    /\ LET Says(answer) == fin' = [fin EXCEPT ![r].pc = "check", ![r].head = answer]
           present == <<fin[r].key, fin[r].sub>> \in store
       IN  \/ fin[r].key = "" /\ Says("error") /\ UNCHANGED faults
           \/ fin[r].key # "" /\ present /\ Says("found") /\ UNCHANGED faults
           \/ fin[r].key # "" /\ ~present /\ Says("missing") /\ UNCHANGED faults
           \/ Fault("storage") /\ Says("error")
    /\ UNCHANGED <<row, store, expired, old, submit, del, sweep, late>>

\* Mutant: the object is not looked for.
IntegrityByRow(r) == TRUE
\* checkUploadIntegrity for a CLI that reports what it initialised: only the
\* object can be missing, and an error of the lookup counts as present.
Integrity(r) == fin[r].head # "missing"

FinalizeCheck(r) ==
    /\ fin[r].pc = "check"
    /\ fin' = [fin EXCEPT ![r].pc = IF Integrity(r) THEN "accepted" ELSE "refused"]
    /\ UNCHANGED <<row, store, expired, old, submit, del, sweep, late, faults>>

\* The run of an accepted submission leaves a log object and points to it.
RunLogs(s) ==
    /\ \E r \in Finalize : fin[r].pc = "accepted" /\ fin[r].sub = s
    /\ row[s].state = "live"
    /\ row' = [row EXCEPT ![s].log = TRUE]
    /\ store' = store \cup {<<"log", s>>}
    /\ UNCHANGED <<expired, old, submit, fin, del, sweep, late, faults>>

----------------------------------------------------------------------------
(* DELETE /api/submissions/[id]. *)

DeleteRead(d) ==
    /\ del[d].pc = "new"
    /\ LET s == del[d].sub
       IN  /\ row[s].state = "live"
           /\ del' = [del EXCEPT ![d].pc = "bundle", ![d].key = row[s].key, ![d].log = row[s].log]
    /\ UNCHANGED <<row, store, expired, old, submit, fin, sweep, late, faults>>

\* Mutant: the bundle is left to the sweep.
BundleKept(d) == store
BundlePurged(d) == Without(del[d].key, del[d].sub)

\* Purge the bundle: a purged one has no key, and a missing object is no error.
DeleteBundle(d) ==
    /\ del[d].pc = "bundle"
    /\ \/ /\ store' = BundlePurged(d)
          /\ del' = [del EXCEPT ![d].pc = "log"]
          /\ UNCHANGED faults
       \/ /\ del[d].key # "" /\ Fault("storage")
          /\ del' = [del EXCEPT ![d].pc = "unavailable"]
          /\ UNCHANGED store
    /\ UNCHANGED <<row, expired, old, submit, fin, sweep, late>>

DeleteLog(d) ==
    /\ del[d].pc = "log"
    /\ \/ /\ store' = IF del[d].log THEN Without("log", del[d].sub) ELSE store
          /\ del' = [del EXCEPT ![d].pc = "rows"]
          /\ UNCHANGED faults
       \/ /\ del[d].log /\ Fault("storage")
          /\ del' = [del EXCEPT ![d].pc = "unavailable"]
          /\ UNCHANGED store
    /\ UNCHANGED <<row, expired, old, submit, fin, sweep, late>>

\* The transaction; it fails when the row is gone, or may time out.
DeleteRows(d) ==
    /\ del[d].pc = "rows"
    /\ LET s == del[d].sub
           gone == [row EXCEPT ![s].state = "deleted"]
           Reply(pc) == del' = [del EXCEPT ![d].pc = pc]
       IN  \/ row[s].state = "live" /\ row' = gone /\ Reply("ok") /\ UNCHANGED faults
           \/ row[s].state # "live" /\ Reply("failed") /\ UNCHANGED <<row, faults>>
           \/ Fault("db") /\ row' \in {row, gone} /\ Reply("failed")
    /\ UNCHANGED <<store, expired, old, submit, fin, sweep, late>>

DeleteStep(d) == DeleteBundle(d) \/ DeleteLog(d) \/ DeleteRows(d)

----------------------------------------------------------------------------
(* purgeExpiredSubmissionBundles, called again and again. *)

Due == {[sub |-> s, key |-> row[s].key] :
          s \in {t \in old : row[t].state = "live" /\ row[t].key # ""}}

SweepRead ==
    /\ sweep = [todo |-> {}, pc |-> "idle", hand |-> {}]
    /\ Due # {}
    /\ sweep' = [sweep EXCEPT !.todo = Due]
    /\ UNCHANGED <<row, store, expired, old, submit, fin, del, late, faults>>

SweepNext ==
    /\ sweep.pc = "idle"
    /\ \E seen \in sweep.todo :
        sweep' = [todo |-> sweep.todo \ {seen}, pc |-> "delete", hand |-> {seen}]
    /\ UNCHANGED <<row, store, expired, old, submit, fin, del, late, faults>>

\* Mutant: a row is marked although its object could not be deleted.
AfterFailureMarked == "mark"
\* A row that fails is left for the next sweep.
AfterFailure == "idle"

SweepTo(pc) ==
    sweep' = [sweep EXCEPT !.pc = pc, !.hand = IF pc = "idle" THEN {} ELSE @]

SweepDelete ==
    /\ sweep.pc = "delete"
    /\ \E seen \in sweep.hand :
        \/ store' = Without(seen.key, seen.sub) /\ SweepTo("mark") /\ UNCHANGED faults
        \/ Fault("storage") /\ SweepTo(AfterFailure) /\ UNCHANGED store
    /\ UNCHANGED <<row, expired, old, submit, fin, del, late>>

\* The mark fails when the row was deleted meanwhile, or with the database.
SweepMark ==
    /\ sweep.pc = "mark"
    /\ SweepTo("idle")
    /\ \E seen \in sweep.hand :
        \/ /\ row[seen.sub].state = "live"
           /\ row' = [row EXCEPT ![seen.sub].key = ""]
           /\ UNCHANGED faults
        \/ row[seen.sub].state # "live" /\ UNCHANGED <<row, faults>>
        \/ Fault("db") /\ row' \in {row, [row EXCEPT ![seen.sub].key = ""]}
    /\ UNCHANGED <<store, expired, old, submit, fin, del, late>>

\* The process running the sweep dies.
SweepCrash ==
    /\ sweep.todo # {} \/ sweep.hand # {}
    /\ Fault("db")
    /\ sweep' = [todo |-> {}, pc |-> "idle", hand |-> {}]
    /\ UNCHANGED <<row, store, expired, old, submit, fin, del, late>>

SweepStep == SweepRead \/ SweepNext \/ SweepDelete \/ SweepMark

----------------------------------------------------------------------------
Next ==
    \/ \E s \in Submission : \/ CreateRow(s) \/ Rekey(s) \/ Upload(s) \/ ExpireUrl(s) \/ Age(s)
                             \/ RunLogs(s)
    \/ \E r \in Finalize : FinalizeLoad(r) \/ HeadObject(r) \/ FinalizeCheck(r)
    \/ \E d \in Delete : DeleteRead(d) \/ DeleteStep(d)
    \/ SweepStep \/ SweepCrash

Spec == Init /\ [][Next]_vars

\* The sweep is called again and again, and time passes.
Fairness ==
    /\ WF_vars(SweepStep)
    /\ \A s \in Submission : WF_vars(ExpireUrl(s)) /\ WF_vars(Age(s))

----------------------------------------------------------------------------
(* Properties. *)

Bundle(s) == {<<key, s>> : key \in Key}

\* Every init so far stored its row and gave it the key its URL signs.
InitWorked == faults["create"] = 0 /\ faults["rekey"] = 0

\* A row is marked purged only when its bundle is gone, through failing
\* deletes, failing marks, crashes of the sweep and learners' deletions.
MarkedMeansGone ==
    InitWorked => \A s \in Submission :
        row[s].state = "live" /\ row[s].key = "" => store \cap Bundle(s) = {}

\* A deleted submission has left no bundle behind, and with its row nothing
\* that could find one, unless its upload came in behind the purge: the one way
\* left, since the URL stays good when the row goes.
DeletedMeansGone ==
    InitWorked => \A s \in Submission \ late :
        row[s].state = "deleted" => store \cap Bundle(s) = {}

\* A row that says its bundle is gone, or is gone itself, is right about it.
PurgedMeansGone == MarkedMeansGone /\ DeletedMeansGone

\* While storage answers, finalize accepts a submission that is not purged only
\* once its bundle is uploaded, whatever became of its init.
AcceptedWasUploaded ==
    \A r \in Finalize :
        fin[r].pc = "accepted" /\ fin[r].key # "" /\ faults["storage"] = 0
            => submit[fin[r].sub].pc = "uploaded"

\* No row can be led from to the bundle that stays.
Orphaned(s) == s \in late /\ row[s].state = "deleted"

\* Bundles do not outlive their window for ever: every old submission's objects
\* are gone for good in the end, whatever the sweep failed on and whatever
\* deletion the upload crossed, as long as there is a row for the sweep to find.
BundleExpires ==
    \A s \in Submission :
        <>[](InitWorked /\ s \in old /\ ~Orphaned(s) => store \cap Bundle(s) = {})
=============================================================================
