--------------------------- MODULE AccountErasure ---------------------------
(* Account deletion and export (apps/web/lib/account-cascade.ts) against the
   requests that write a learner's rows at the same time: enrolment,
   submission, finalize, the mentor, the grader in the worker and the sign-in
   of the CLI.  The deletion is one interactive transaction at READ COMMITTED
   whose statements are the steps of DeletePlan; a request is a session lookup
   followed by autocommitted statements.  The tables' foreign keys are those
   of the Prisma schema.

   One learner.  A row is [table, of]: its table and the row it belongs to, 0
   for the User row itself.  ids grow in the order of insertion. *)
EXTENDS Naturals, Sequences

CONSTANTS
    Request,      \* the requests and jobs that write the learner's rows
    Kinds,        \* what a request may be, a subset of DOMAIN Writes
    Overlap,      \* whether two enrolment requests may overlap
    MaxErasures,  \* bound on the calls of deleteAccount
    MaxFaults     \* bound on transactions that time out or lose their connection


VARIABLES
    row,     \* the committed rows: a function from ids to [table, of]
    next,    \* the next id
    email,   \* the address on the User row: "own" or "tombstone"
    tx,      \* the deletion: state, step, the ids it read, the rows it deleted
    req,     \* the requests
    export,  \* the export: the tables still to read and the ids it has
    faults

vars == <<row, next, email, tx, req, export, faults>>

(* ------------------------------- the tables ------------------------------- *)

\* The tables a delete of the parent row may not remove (onDelete: Restrict);
\* the others follow their parent (onDelete: Cascade).
Restricted == {"Submission", "Run", "Grade"}

\* What a kind of request inserts, in order, each row under the row before it
\* or under the row the request resolved.
Writes == [enrol  |-> <<"Enrollment">>,
           submit |-> <<"StageAttempt", "Submission">>,
           run    |-> <<"Run">>,
           mentor |-> <<"MentorThread", "MentorMessage", "MentorMessage">>,
           grade  |-> <<"Grade">>,
           login  |-> <<"Session">>,
           export |-> <<>>]

\* What the constants are taken to be.
AccountAssumption == Overlap \in BOOLEAN /\ Kinds \subseteq DOMAIN Writes

Row(table, of) == [table |-> table, of |-> of]

\* A learner who has just signed in, and one with a history.
Fresh == <<Row("Session", 0), Row("Account", 0), Row("DeviceCodeFlow", 0),
           Row("Membership", 0)>>
History ==
    <<Row("Session", 0), Row("Account", 0), Row("DeviceCodeFlow", 0), Row("Membership", 0),
      Row("VerificationToken", 0), Row("Entitlement", 0), Row("Enrollment", 0),
      Row("StageAttempt", 7), Row("Submission", 8), Row("Run", 9),
      Row("Grade", 8), Row("MentorThread", 7), Row("MentorMessage", 12),
      Row("NodeTraversal", 7), Row("ShareCard", 7)>>

Of(table) == {i \in DOMAIN row : row[i].table = table}

(* ------------------------------ the deletion ------------------------------ *)

\* A statement of the transaction.  "by" names the table whose ids, read by an
\* earlier statement, scope it, or "User" for where: { userId }, or "email".
Find(table, by) == [op |-> "find", table |-> table, by |-> by]
DeleteMany(table, by) == [op |-> "delete", table |-> table, by |-> by]

Statements ==
    <<DeleteMany("Session", "User"), DeleteMany("Account", "User"),
      DeleteMany("DeviceCodeFlow", "User"), DeleteMany("VerificationToken", "email"),
      Find("Enrollment", "User"), Find("StageAttempt", "Enrollment"),
      Find("Submission", "StageAttempt"),
      DeleteMany("Run", "Submission"), DeleteMany("Grade", "StageAttempt"),
      DeleteMany("Submission", "StageAttempt"), DeleteMany("StageAttempt", "Enrollment"),
      Find("MentorThread", "Enrollment"),
      DeleteMany("MentorMessage", "MentorThread"), DeleteMany("MentorThread", "Enrollment"),
      DeleteMany("NodeTraversal", "Enrollment"), DeleteMany("ShareCard", "User"),
      DeleteMany("Enrollment", "User"),
      DeleteMany("Entitlement", "User"), DeleteMany("Membership", "User")>>

\* Two plans a plausible edit would leave: one that trusts the cascades of a User
\* row which is never deleted, one that takes the chain in the order of reading.
PlanTrustingTheUserCascade == SubSeq(Statements, 5, 17)
PlanInReadingOrder ==
    [Statements EXCEPT ![8] = Statements[11], ![9] = Statements[10], ![10] = Statements[9], ![11] = Statements[8]]

DeletePlan == Statements

NoIds == [t \in {"Enrollment", "StageAttempt", "Submission", "MentorThread"} |-> {}]

NoTx == [state |-> "none", step |-> 1, ids |-> NoIds, gone |-> {}, before |-> {},
         email |-> "own", calls |-> 0, interfered |-> TRUE]

\* What a statement of the transaction sees: what is committed when it starts,
\* without what the transaction itself deleted.
Seen == DOMAIN row \ tx.gone

InScope(s, i) ==
    /\ i \in Seen /\ row[i].table = s.table
    /\ CASE s.by = "User"  -> TRUE
         [] s.by = "email" -> tx.email = "own"
         [] OTHER          -> row[i].of \in tx.ids[s.by]

\* What a deleteMany takes: the rows in its scope and those that follow them,
\* at most a table between (a message, its thread, their enrolment).
Follows(s, i) == row[i].table \notin Restricted /\ InScope(s, row[i].of)
Taken(s) ==
    {i \in Seen : \/ InScope(s, i)
                  \/ Follows(s, i)
                  \/ /\ row[i].table \notin Restricted
                     /\ row[i].of # 0 /\ Follows(s, row[i].of)}

Blocked(taken) == \E i \in Seen \ taken : /\ row[i].table \in Restricted
                                          /\ row[i].of \in taken

Roll(interfered) ==
    tx' = [NoTx EXCEPT !.state = "failed", !.calls = tx.calls,
                       !.before = tx.before, !.interfered = interfered]

\* POST /api/account/delete: the session is looked up, then deleteAccount reads
\* the user's address.
EraseBegin ==
    /\ tx.state \in {"none", "failed"} /\ tx.calls < MaxErasures
    /\ Of("Session") # {}
    /\ tx' = [NoTx EXCEPT !.state = "running", !.before = DOMAIN row,
                          !.email = email, !.calls = tx.calls + 1]
    /\ UNCHANGED <<row, next, email, req, export, faults>>

\* A findMany that keeps the ids for later statements.
EraseFind ==
    /\ tx.state = "running" /\ tx.step <= Len(DeletePlan)
    /\ LET s == DeletePlan[tx.step]
       IN  /\ s.op = "find"
           /\ tx' = [tx EXCEPT !.ids[s.table] = {i \in Seen : InScope(s, i)}, !.step = @ + 1]
    /\ UNCHANGED <<row, next, email, req, export, faults>>

\* A deleteMany with the rows its foreign keys take along; it fails, and the
\* transaction with it, when a restricting row is left.
EraseDelete ==
    /\ tx.state = "running" /\ tx.step <= Len(DeletePlan)
    /\ LET s == DeletePlan[tx.step]
           taken == Taken(s)
       IN  /\ s.op = "delete"
           /\ IF Blocked(taken)
              THEN Roll(DOMAIN row # tx.before)
              ELSE tx' = [tx EXCEPT !.gone = @ \cup taken, !.step = @ + 1]
    /\ UNCHANGED <<row, next, email, req, export, faults>>

\* The User row is anonymized and the transaction commits.
EraseCommit ==
    /\ tx.state = "running" /\ tx.step > Len(DeletePlan)
    /\ row' = [i \in Seen |-> row[i]]
    /\ email' = "tombstone"
    /\ tx' = [NoTx EXCEPT !.state = "done", !.calls = tx.calls, !.before = tx.before]
    /\ UNCHANGED <<next, req, export, faults>>

\* The transaction passes its 30 s, or the connection drops: all is rolled back.
EraseLost ==
    /\ tx.state = "running" /\ faults < MaxFaults
    /\ faults' = faults + 1
    /\ Roll(TRUE)
    /\ UNCHANGED <<row, next, email, req, export>>

(* ------------------------------ the requests ------------------------------ *)

Idle(kind) == [kind |-> kind, at |-> "start", under |-> 0, todo |-> Writes[kind]]

Ended(r) == [req[r] EXCEPT !.at = "end", !.under = 0, !.todo = <<>>]

Unstarted(r) == req[r].at = "start"

\* The session lookup of a route.  The grader's job was enqueued before and
\* needs none; the device poll of the CLI needs an approved flow instead.
Authenticate(r) ==
    /\ Unstarted(r)
    /\ CASE req[r].kind = "grade" -> TRUE
         [] req[r].kind = "login" -> Of("DeviceCodeFlow") # {}
         [] OTHER                 -> Of("Session") # {}
    /\ Overlap \/ req[r].kind # "enrol"
         \/ \A q \in Request : req[q].kind = "enrol" => req[q].at \in {"start", "end"}
    /\ req' = [req EXCEPT ![r].at = "resolve"]
    /\ UNCHANGED <<row, next, email, tx, export, faults>>

\* The row a request found to insert under, and what is left to insert.
Goes(r, under, todo) ==
    req' = [req EXCEPT ![r] = [@ EXCEPT !.at = "insert", !.under = under, !.todo = todo]]

\* Enrol: findFirst by user and version; create when there is none.
ResolveEnrolment(r) ==
    /\ req[r].kind = "enrol"
    /\ IF Of("Enrollment") # {} THEN req' = [req EXCEPT ![r] = Ended(r)]
       ELSE Goes(r, 0, req[r].todo)

\* Submit: an attempt the body names, or a new one in an enrolment of the learner.
ResolveAttempt(r) ==
    /\ req[r].kind = "submit"
    /\ \/ \E e \in Of("Enrollment") : Goes(r, e, req[r].todo)
       \/ \E a \in Of("StageAttempt") : Goes(r, a, <<"Submission">>)
       \/ /\ Of("Enrollment") = {}
          /\ req' = [req EXCEPT ![r] = Ended(r)]

\* Finalize, and the grader: the submission.
ResolveSubmission(r) ==
    /\ req[r].kind \in {"run", "grade"}
    /\ \/ \E s \in Of("Submission") : Goes(r, s, req[r].todo)
       \/ /\ Of("Submission") = {}
          /\ req' = [req EXCEPT ![r] = Ended(r)]

\* Mentor: the enrolment, then its thread when there is one.
ResolveThread(r) ==
    /\ req[r].kind = "mentor"
    /\ \/ \E e \in Of("Enrollment") :
            LET threads == {t \in Of("MentorThread") : row[t].of = e}
            IN  IF threads = {} THEN Goes(r, e, req[r].todo)
                ELSE \E t \in threads : Goes(r, t, Tail(req[r].todo))
       \/ /\ Of("Enrollment") = {}
          /\ req' = [req EXCEPT ![r] = Ended(r)]

\* Device poll: the flow it read is approved, by the learner.
ResolveLogin(r) ==
    /\ req[r].kind = "login"
    /\ Goes(r, 0, req[r].todo)

Resolve(r) ==
    /\ req[r].at = "resolve"
    /\ \/ ResolveEnrolment(r) \/ ResolveAttempt(r) \/ ResolveSubmission(r)
       \/ ResolveThread(r) \/ ResolveLogin(r)
    /\ UNCHANGED <<row, next, email, tx, export, faults>>

\* The row a grade belongs to is the attempt of its submission.
OwnerOf(r) == IF Head(req[r].todo) = "Grade" THEN row[req[r].under].of ELSE req[r].under

\* An insert checks its foreign keys: it fails when a parent is gone, and waits
\* while a parent is deleted by a transaction that has not ended.
Insert(r) ==
    /\ req[r].at = "insert"
    /\ req[r].under = 0 \/ req[r].under \in Seen
    /\ LET t == Head(req[r].todo)
           rest == Tail(req[r].todo)
       IN  /\ row' = [i \in DOMAIN row \cup {next} |->
                        IF i = next THEN Row(t, OwnerOf(r)) ELSE row[i]]
           /\ next' = next + 1
           /\ IF rest = <<>> THEN req' = [req EXCEPT ![r] = Ended(r)]
              ELSE Goes(r, IF t = "MentorMessage" THEN req[r].under ELSE next, rest)
    /\ UNCHANGED <<email, tx, export, faults>>

InsertFails(r) ==
    /\ req[r].at = "insert"
    /\ req[r].under \notin DOMAIN row \cup {0}
    /\ req' = [req EXCEPT ![r] = Ended(r)]
    /\ UNCHANGED <<row, next, email, tx, export, faults>>

(* ------------------------------- the export ------------------------------- *)

\* The tables exportAccount reads, wave after wave; within a wave the reads run
\* in any order.  A table is read by the ids an earlier wave returned.

\* A plausible edit: what hangs on submissions is read together with them.
ThreeWaves == <<{"Membership", "Entitlement", "Enrollment", "ShareCard"},
                {"StageAttempt", "NodeTraversal", "MentorThread"},
                {"Submission", "MentorMessage", "Run", "Grade"}>>

Waves == <<{"Membership", "Entitlement", "Enrollment", "ShareCard"},
           {"StageAttempt", "NodeTraversal", "MentorThread"},
           {"Submission", "MentorMessage"},
           {"Run", "Grade"}>>

Exported == UNION {Waves[w] : w \in DOMAIN Waves}

\* The learner's one export begins with the User row, which is always there.
ExportBegin(r) ==
    /\ req[r].kind = "export" /\ req[r].at = "resolve"
    /\ req' = [req EXCEPT ![r] = Ended(r)]
    /\ export' = IF export.wave # 0 THEN export
                 ELSE [wave |-> 1, left |-> Waves[1], ids |-> {}, since |-> DOMAIN row]
    /\ UNCHANGED <<row, next, email, tx, faults>>

ExportRead(t) ==
    /\ t \in export.left
    /\ LET found == {i \in Of(t) : row[i].of \in export.ids \cup {0} \/ t = "ShareCard"}
           left == export.left \ {t}
           over == left = {} /\ export.wave < Len(Waves)
       IN  export' = [export EXCEPT
                        !.ids = @ \cup found,
                        !.left = IF over THEN Waves[export.wave + 1] ELSE left,
                        !.wave = IF over THEN @ + 1 ELSE @]
    /\ UNCHANGED <<row, next, email, tx, req, faults>>

ExportEnded == export.wave > 0 /\ export.left = {}

(* -------------------------------- the system ------------------------------- *)

Init ==
    /\ \E rows \in {Fresh, History} : /\ row = rows
                                      /\ next = Len(rows) + 1
    /\ email = "own"
    /\ tx = NoTx
    /\ \E kind \in [Request -> Kinds] : req = [r \in Request |-> Idle(kind[r])]
    /\ export = [wave |-> 0, left |-> {}, ids |-> {}, since |-> {}]
    /\ faults = 0

Erase == EraseBegin \/ EraseFind \/ EraseDelete \/ EraseCommit \/ EraseLost

Proceed(r) == Resolve(r) \/ Insert(r) \/ InsertFails(r) \/ ExportBegin(r)

Next ==
    \/ Erase
    \/ \E r \in Request : Authenticate(r) \/ Proceed(r)
    \/ \E t \in Exported : ExportRead(t)

Spec == Init /\ [][Next]_vars

(* -------------------------------- properties ------------------------------- *)

\* Once deleteAccount has returned, nothing the learner had when it began is
\* left, and the User row no longer carries the address: the right to erasure
\* the plan at the head of account-cascade.ts is written for.
ErasureIsComplete ==
    tx.state = "done" => tx.before \cap DOMAIN row = {} /\ email = "tombstone"

\* The order of the plan respects the restricting foreign keys: a deletion only
\* fails on them because a row was inserted after it began.
OnlyInterferenceBlocks == tx.state = "failed" => tx.interfered

\* The export has every exported row that was there from its begin to its end,
\* though its reads are not one transaction.
ExportIsWhole ==
    ExportEnded => {i \in export.since \cap DOMAIN row : row[i].table \in Exported}
                      \subseteq export.ids

=============================================================================
