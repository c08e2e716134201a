------------------------------ MODULE RunWatch ------------------------------
(***************************************************************************)
(* Following a run: the panel of the stage page (packages/ui RunStatusPanel*)
(* .tsx) and "researchcrafters logs --follow" (packages/cli logs.ts) poll  *)
(* the status and the log of one run, through two routes that read the row *)
(* at two moments, while the worker and the runner's callback write it.    *)
(* Log lines are known by their position.                                  *)
(***************************************************************************)
EXTENDS Naturals

CONSTANTS MaxLines,   \* bound on the lines of a log
          Page,       \* DEFAULT_LIMIT of the logs route
          MaxWrites,  \* bound on writes of the run row
          MaxFaults,  \* bound on requests that fail
          None

\* What the constants are taken to be.
WatchAssumption == {MaxLines, Page, MaxWrites, MaxFaults} \subseteq Nat /\ Page > 0

Terminal == {"ok", "crash"}
RunStatus == {"queued", "running"} \cup Terminal

VARIABLES status,  \* Run.status
          inline,  \* lines in Run.metricsJson.logs
          object,  \* lines behind Run.logObjectKey, None without a key
          writes,
          faults,
          panel,   \* the mounted panel: its requests' answers, and what it shows
          cli      \* the follow loop: its cursor, and the lines it has printed

row == <<status, inline, object>>
vars == <<row, writes, faults, panel, cli>>

Fault == faults < MaxFaults /\ faults' = faults + 1

----------------------------------------------------------------------------
(* What the routes answer.                                                *)

\* The inline log; the stored one only if that is empty.
Lines == IF inline > 0 THEN inline ELSE IF object = None THEN 0 ELSE object

Least(a, b) == IF a < b THEN a ELSE b
Consumed(offset, total) == Least(offset + Page, total)
\* Mutant: the next page begins one line late.
CursorPastPage(offset, total) ==
    IF Consumed(offset, total) < total THEN Consumed(offset, total) + 1 ELSE None
NextCursor(offset, total) ==
    IF Consumed(offset, total) < total THEN Consumed(offset, total) ELSE None

LogPage(offset, total) ==
    [kind |-> "page", lines |-> (offset + 1) .. Consumed(offset, total),
     next |-> NextCursor(offset, total)]
NoPage(kind) == [kind |-> kind, lines |-> {}, next |-> None]

\* GET runs/[id]: with the database away the run is taken for queued, or, by a
\* policy that knows nothing of it, refused; and a request may get lost.
StatusAnswer(answer) ==
    \/ answer = status /\ UNCHANGED faults
    \/ answer \in {"queued", "refused", "lost"} /\ Fault

LogAnswers(offset) ==
    {LogPage(offset, Lines), LogPage(offset, 0), NoPage("refused"), NoPage("lost")}

\* GET runs/[id]/logs: with the database or the object store away, no lines.
LogAnswer(offset, answer) ==
    \/ answer = LogPage(offset, Lines) /\ UNCHANGED faults
    \/ answer \in LogAnswers(offset) \ {LogPage(offset, Lines)} /\ Fault

StatusAnswers == RunStatus \cup {"refused", "lost"}

----------------------------------------------------------------------------
(* The run: what the worker and the callback write.  Whoever is in the     *)
(* middle of a poll no longer sees one state of the row.                   *)

Write ==
    /\ writes < MaxWrites /\ writes' = writes + 1
    /\ panel' = [panel EXCEPT !.calm = FALSE] /\ cli' = [cli EXCEPT !.calm = FALSE]
    /\ UNCHANGED faults

\* The worker takes the job, the first time or again.
Start == Write /\ status' = "running" /\ UNCHANGED <<inline, object>>

\* The callback reports progress, its metrics bringing lines or its logsUrl a key.
Progress ==
    /\ Write /\ status' = "running"
    /\ \E n \in 0 .. MaxLines :
         \/ inline' = n /\ UNCHANGED object
         \/ object' = n /\ UNCHANGED inline

\* The worker's last update, all in one; or the callback's, which keeps the log.
Record ==
    /\ Write /\ status' \in Terminal
    /\ \E n \in 0 .. MaxLines : inline' \in {inline, n}
    /\ UNCHANGED object

----------------------------------------------------------------------------
(* The panel.  A tick sends both requests and waits for both answers.      *)

Asking(p) == [p EXCEPT !.pc = "ask", !.status = None, !.log = None, !.calm = TRUE]
Mounted == [pc |-> "ask", status |-> None, log |-> None, calm |-> TRUE,
            shown |-> None, text |-> {}]

PanelStatus ==
    /\ panel.pc = "ask" /\ panel.status = None
    /\ \E a \in StatusAnswers :
         /\ StatusAnswer(a)
         /\ panel' = [panel EXCEPT !.status = a, !.calm = @ /\ faults' = faults]
    /\ UNCHANGED <<row, writes, cli>>

PanelLog ==
    /\ panel.pc = "ask" /\ panel.log = None
    /\ \E a \in LogAnswers(0) :
         /\ LogAnswer(0, a)
         /\ panel' = [panel EXCEPT !.log = a, !.calm = @ /\ faults' = faults]
    /\ UNCHANGED <<row, writes, cli>>

\* Mutant: a crash is not known for an end.
EndsWell(answer) == answer = "ok"
Ends(answer) == answer \in Terminal

\* Promise.all: a lost request spoils the tick, a refused one only its part.
PanelShow ==
    /\ panel.pc = "ask" /\ panel.status # None /\ panel.log # None
    /\ LET lost == "lost" \in {panel.status, panel.log.kind}
       IN  panel' = [panel EXCEPT
             !.pc = IF ~lost /\ Ends(panel.status) THEN "stopped" ELSE "wait",
             !.shown = IF lost \/ panel.status = "refused" THEN @ ELSE panel.status,
             !.text = IF lost \/ panel.log.kind = "refused" THEN @ ELSE panel.log.lines]
    /\ UNCHANGED <<row, writes, faults, cli>>

\* The timer fires.
PanelTick ==
    /\ panel.pc = "wait" /\ panel' = Asking(panel)
    /\ UNCHANGED <<row, writes, faults, cli>>

\* The page is left, which drops the timer and late answers.
Closed == [Mounted EXCEPT !.pc = "closed"]
PanelClose ==
    /\ panel.pc # "closed" /\ panel' = Closed
    /\ UNCHANGED <<row, writes, faults, cli>>

PanelStep == PanelStatus \/ PanelLog \/ PanelShow \/ PanelTick

----------------------------------------------------------------------------
(* The follow loop: a page of the log, then the status, then a pause.      *)

Follow == [pc |-> "log", cursor |-> 0, printed |-> {}, calm |-> TRUE]

CliLog ==
    /\ cli.pc = "log"
    /\ \E a \in LogAnswers(cli.cursor) :
         /\ LogAnswer(cli.cursor, a)
         /\ cli' = IF a.kind # "page" THEN [cli EXCEPT !.pc = "failed"]
                   ELSE [cli EXCEPT !.pc = "status", !.printed = @ \cup a.lines,
                                    !.cursor = IF a.next = None THEN @ ELSE a.next,
                                    !.calm = @ /\ faults' = faults]
    /\ UNCHANGED <<row, writes, panel>>

CliStatus ==
    /\ cli.pc = "status"
    /\ \E a \in StatusAnswers :
         /\ StatusAnswer(a)
         /\ cli' = [cli EXCEPT !.pc = IF a \in {"refused", "lost"} THEN "failed"
                                      ELSE IF a \in {"queued", "running"} THEN "pause"
                                      ELSE "done",
                               !.calm = @ /\ faults' = faults]
    /\ UNCHANGED <<row, writes, panel>>

CliPause ==
    /\ cli.pc = "pause" /\ cli' = [cli EXCEPT !.pc = "log", !.calm = TRUE]
    /\ UNCHANGED <<row, writes, faults, panel>>

NotFollowing == [Follow EXCEPT !.pc = "done", !.calm = FALSE]

CliStep == CliLog \/ CliStatus \/ CliPause

----------------------------------------------------------------------------

\* The learner opens the page or gives the command, again and again; one at a
\* time, as the two share nothing but the row.
Look ==
    /\ panel.pc = "closed" /\ cli.pc \in {"done", "failed"}
    /\ \/ panel' = Mounted /\ cli' = NotFollowing
       \/ cli' = Follow /\ UNCHANGED panel
    /\ UNCHANGED <<row, writes, faults>>

Init ==
    /\ status = "queued" /\ inline = 0 /\ object = None
    /\ writes = 0 /\ faults = 0 /\ panel = Closed /\ cli = NotFollowing

Next == \/ Start \/ Progress \/ Record \/ PanelStep \/ CliStep
        \/ PanelClose \/ Look

Fairness == WF_vars(PanelStep) /\ WF_vars(CliStep)

Spec == Init /\ [][Next]_vars /\ Fairness

----------------------------------------------------------------------------
(* Properties                                                             *)

TypeOK ==
    /\ status \in RunStatus /\ inline \in 0 .. MaxLines
    /\ object \in (0 .. MaxLines) \cup {None}
    /\ writes \in 0 .. MaxWrites /\ faults \in 0 .. MaxFaults
    /\ panel.pc \in {"ask", "wait", "stopped", "closed"}
    /\ panel.shown \in RunStatus \cup {None} /\ panel.text \subseteq 1 .. MaxLines
    /\ cli.pc \in {"log", "status", "pause", "done", "failed"}
    /\ cli.cursor \in 0 .. MaxLines /\ cli.printed \subseteq 1 .. MaxLines

\* No line is left out in the middle, however the log grew, shrank or changed
\* its place between two pages; and whoever stopped after a poll that nothing
\* disturbed shows the end of the run, and its log as far as one page goes.
WhatIsShownIsWhole ==
    /\ \A n \in cli.printed : 1 .. n \subseteq cli.printed
    /\ panel.pc = "stopped" =>
         /\ panel.shown \in Terminal
         /\ panel.calm => /\ panel.shown = status
                          /\ panel.text = 1 .. Least(Page, Lines)
    /\ (cli.pc = "done" /\ cli.calm) =>
         status \in Terminal /\ (Lines <= Page => 1 .. Lines \subseteq cli.printed)

\* Once the run has come to an end for good, the panel and the follow loop come
\* to rest, whatever got lost on the way.
FollowEnds ==
    <>[](status \in Terminal) =>
        /\ []<>(panel.pc \in {"stopped", "closed"})
        /\ []<>(cli.pc \in {"done", "failed"})
=============================================================================
