------------------------------ MODULE ErpDraft ------------------------------
(***************************************************************************)
(* The authoring agent (apps/erp-agent): `create` starts a run, a folder   *)
(* with a manifest, and copies the template into a package; `resume` picks *)
(* a run up from its manifest.  Both validate the package, number a report *)
(* file, write the agent's report and save the manifest.  A command holds  *)
(* the manifest in memory and saves it at a few points only, and it may    *)
(* stop anywhere: killed, or by an exception nothing catches before main.  *)
(* Meanwhile the author edits or removes the package.                      *)
(*                                                                         *)
(* Commands of different runs interleave; the commands of one run follow   *)
(* one another.  A manifest keeps what another command reads: the package, *)
(* the state of the two nodes that move and the list of reports.           *)
(***************************************************************************)
EXTENDS Naturals, SequencesExt

CONSTANTS
    Run,             \* run ids under run_root
    Package,         \* folders under package_root
    Spelling,        \* slugs as they are typed
    SlugOf,          \* validate_slug: the package a spelling names, or None
    Input,           \* --input as typed: its form, and what it ends in or points at
    TemplateFile,    \* the files of content/templates/erp-basic
    Outcome,         \* how validation ends: [exit, report], exit 127 if it cannot start
    MaxCommands,     \* bound: commands given
    MaxFaults,       \* bound: commands that stop half way
    MaxEdits,        \* bound: acts of the author on a package
    None

FileState == {"missing", "template", "filled", "edited"}

\* What the constants are taken to be.
ErpDraftAssumption ==
    /\ SlugOf \in [Spelling -> Package \union {None}]
    /\ Input \subseteq [form: {"url", "arxiv_id", "path", "blank"},
                       arxiv: BOOLEAN, pdf: BOOLEAN, file: BOOLEAN]
    /\ {MaxCommands, MaxFaults, MaxEdits} \subseteq Nat
    /\ None \notin [TemplateFile -> FileState]

VARIABLES
    folder,      \* folder[r]: what run_root holds of r, None before `create`
    package,     \* package[p]: the state of each file of p, None if p is absent
    command,     \* command[r]: the command at work on r, None if there is none
    spent        \* how many commands, faults and edits there were

vars == <<folder, package, command, spent>>

\* resolve_paper_input: the kind of an input, None if it raises.
Kind(i) ==
    CASE i.form = "arxiv_id" \/ (i.form = "url" /\ i.arxiv) -> "arxiv_id"
      [] i.form = "url" /\ ~i.arxiv -> IF i.pdf THEN "pdf_url" ELSE "paper_url"
      [] i.form = "path" /\ i.pdf /\ i.file -> "local_pdf"
      [] OTHER -> None

\* The folder is that of the normalised slug.
PackageOf(s) == SlugOf[s]

\* run_validation: the report's word if the output holds one, else the exit code,
\* which is 127 for a command that could not be started.
Ok(o) == IF o.report # None THEN o.report = "ok" ELSE o.exit = 0

\* initial_manifest.
FirstManifest(p) ==
    [package |-> p, generate |-> "pending", validate |-> "pending", reports |-> <<>>]

\* create_draft makes the folder before anything is written in it.
EmptyFolder == [manifest |-> None, files |-> <<>>, report |-> None]

Missing == [f \in TemplateFile |-> "missing"]
Copying(p) == \E r \in Run : command[r] # None /\ command[r].manifest.package = p
                             /\ command[r].at \in {"copying", "filling"}

Init ==
    /\ folder = [r \in Run |-> None]
    /\ package = [p \in Package |-> None]
    /\ command = [r \in Run |-> None]
    /\ spent = [commands |-> 0, faults |-> 0, edits |-> 0]

\* mark_node.
Marked(m, node, state) == [m EXCEPT ![node] = state]
Goes(r, at) == command' = [command EXCEPT ![r].at = at]
Saves(r, m) == folder' = [folder EXCEPT ![r].manifest = m]
Starts(r, c) == /\ command[r] = None
                /\ spent.commands < MaxCommands
                /\ spent' = [spent EXCEPT !.commands = @ + 1]
                /\ command' = [command EXCEPT ![r] = c]

\* create_draft up to the folder; a run or a package that exists is refused.
Create(r, i, s, skip) ==
    /\ Kind(i) # None
    /\ PackageOf(s) # None
    /\ folder[r] = None
    /\ package[PackageOf(s)] = None
    /\ Starts(r, [kind |-> "create", skip |-> skip, at |-> "resolve",
                  manifest |-> FirstManifest(PackageOf(s))])
    /\ folder' = [folder EXCEPT ![r] = EmptyFolder]
    /\ UNCHANGED package

\* resume_draft: the manifest is loaded, and the copy made again only if the
\* package is gone altogether.
Resume(r, skip) ==
    /\ folder[r] # None
    /\ folder[r].manifest # None
    /\ Starts(r, [kind |-> "resume", skip |-> skip,
                  at |-> IF package[folder[r].manifest.package] = None
                         THEN "copy" ELSE "validate",
                  manifest |-> folder[r].manifest])
    /\ UNCHANGED <<folder, package>>

\* The plan and the first manifest, resolve_input completed.
Resolve(r) ==
    /\ command[r].at = "resolve"
    /\ Saves(r, command[r].manifest)
    /\ Goes(r, "copy")
    /\ UNCHANGED <<package, spent>>

\* copy_template_package refuses a path that came into being meanwhile; the
\* exception ends the command.
CopyOver(p) == TRUE
CanCopy(p) == package[p] = None

BeginCopy(r) ==
    LET p == command[r].manifest.package
    IN  /\ command[r].at = "copy"
        /\ IF CanCopy(p)
           THEN package' = [package EXCEPT ![p] = Missing] /\ Goes(r, "copying")
           ELSE command' = [command EXCEPT ![r] = None] /\ UNCHANGED package
        /\ UNCHANGED <<folder, spent>>

Becomes(r, f, old, new) ==
    /\ package[command[r].manifest.package][f] = old
    /\ package' = [package EXCEPT ![command[r].manifest.package][f] = new]
    /\ UNCHANGED <<folder, command, spent>>

\* shutil.copytree, then the placeholders and the README, file by file.
CopyFile(r, f) == command[r].at = "copying" /\ Becomes(r, f, "missing", "template")
FillFile(r, f) == command[r].at = "filling" /\ Becomes(r, f, "template", "filled")

NoneLeft(r, old) ==
    \A f \in TemplateFile : package[command[r].manifest.package][f] # old

CopyDone(r) ==
    /\ command[r].at = "copying" /\ NoneLeft(r, "missing")
    /\ Goes(r, "filling")
    /\ UNCHANGED <<folder, package, spent>>

\* generated_files and the node are saved by `create`; `resume` keeps them in
\* memory until the next save.
Generated(r) ==
    LET m == Marked(command[r].manifest, "generate", "completed")
    IN  /\ command[r].at = "filling" /\ NoneLeft(r, "template")
        /\ command' = [command EXCEPT ![r].at = "validate", ![r].manifest = m]
        /\ IF command[r].kind = "create" THEN Saves(r, m) ELSE UNCHANGED folder
        /\ UNCHANGED <<package, spent>>

\* _maybe_validate up to the validator: skipped, or running.
BeginValidation(r) ==
    LET m == Marked(command[r].manifest, "validate",
                    IF command[r].skip THEN "skipped" ELSE "running")
    IN  /\ command[r].at = "validate"
        /\ Saves(r, m)
        /\ command' = [command EXCEPT ![r].manifest = m,
                                      ![r].at = IF command[r].skip
                                                THEN "report" ELSE "run"]
        /\ UNCHANGED <<package, spent>>

\* The number of a report follows those the manifest in hand lists, and a file of
\* that number is replaced.
LastIndex(m) == IF m.reports = <<>> THEN 1 ELSE Len(m.reports)
ReportIndex(m) == Len(m.reports) + 1

SetFile(files, i, o) == IF i \in DOMAIN files THEN [files EXCEPT ![i] = o]
                        ELSE Append(files, o)

\* The rest of _maybe_validate: the file is written, the manifest is not.
Validate(r, o) ==
    LET m == command[r].manifest
    IN  /\ command[r].at = "run"
        /\ folder' = [folder EXCEPT ![r].files = SetFile(@, ReportIndex(m), o)]
        /\ command' = [command EXCEPT ![r].at = "report",
               ![r].manifest = Marked([m EXCEPT !.reports = Append(@, o)], "validate",
                                      IF Ok(o) THEN "completed" ELSE "blocked")]
        /\ UNCHANGED <<package, spent>>

\* write_agent_report tells of the last report the manifest lists.
Told(m) == IF m.reports = <<>> THEN "skipped"
           ELSE IF Ok(Last(m.reports)) THEN "passed" ELSE "failed"

WriteReport(r) ==
    /\ command[r].at = "report"
    /\ folder' = [folder EXCEPT ![r].report = Told(command[r].manifest)]
    /\ Goes(r, "save")
    /\ UNCHANGED <<package, spent>>

Finish(r) ==
    /\ command[r].at = "save"
    /\ Saves(r, command[r].manifest)
    /\ command' = [command EXCEPT ![r] = None]
    /\ UNCHANGED <<package, spent>>

\* The command is killed or raises: what is on disk stays as it is, a file that
\* write_json_atomic had not yet renamed counts for nothing.
Stop(r) ==
    /\ command[r] # None
    /\ spent.faults < MaxFaults
    /\ spent' = [spent EXCEPT !.faults = @ + 1]
    /\ command' = [command EXCEPT ![r] = None]
    /\ UNCHANGED <<folder, package>>

\* The author works on a package nobody is copying.
Author(p, files) ==
    /\ package[p] # None /\ ~Copying(p)
    /\ spent.edits < MaxEdits
    /\ spent' = [spent EXCEPT !.edits = @ + 1]
    /\ package' = [package EXCEPT ![p] = files]
    /\ UNCHANGED <<folder, command>>

Edit(p, f) == package[p] # None /\ Author(p, [package[p] EXCEPT ![f] = "edited"])
Discard(p) == Author(p, None)

Step(r) ==
    /\ command[r] # None
    /\ \/ Resolve(r) \/ BeginCopy(r) \/ CopyDone(r) \/ Generated(r)
       \/ BeginValidation(r) \/ WriteReport(r) \/ Finish(r)
       \/ \E f \in TemplateFile : CopyFile(r, f) \/ FillFile(r, f)
       \/ \E o \in Outcome : Validate(r, o)

Next ==
    \/ \E r \in Run, skip \in BOOLEAN :
          \/ Resume(r, skip)
          \/ \E i \in Input, s \in Spelling : Create(r, i, s, skip)
    \/ \E r \in Run : Step(r) \/ Stop(r)
    \/ \E p \in Package : Discard(p) \/ \E f \in TemplateFile : Edit(p, f)

Spec == Init /\ [][Next]_vars

-----------------------------------------------------------------------------

Manifest == [package: Package, generate: {"pending", "completed"},
             validate: {"pending", "running", "completed", "blocked", "skipped"},
             reports: Seq(Outcome)]

\* Type invariant.
TypeOK ==
    /\ folder \in [Run -> [manifest: Manifest \union {None}, files: Seq(Outcome),
                           report: {None, "skipped", "passed", "failed"}]
                          \union {None}]
    /\ package \in [Package -> [TemplateFile -> FileState] \union {None}]
    /\ command \in [Run -> [kind: {"create", "resume"}, skip: BOOLEAN,
                            at: {"resolve", "copy", "copying", "filling", "validate",
                                 "run", "report", "save"},
                            manifest: Manifest] \union {None}]

\* What the saved manifest of a run says of validation, its numbered report files
\* and the agent's report never contradict one another, wherever a command
\* stopped and however often it was resumed (workflow.py:221-275, report.py).
RecordsAgree ==
    \A r \in Run : folder[r] # None /\ folder[r].manifest # None =>
        LET m == folder[r].manifest
        IN  /\ m.reports = SubSeq(folder[r].files, 1, Len(m.reports))
            /\ m.validate = "completed" => folder[r].report = "passed"
            /\ m.validate = "blocked" => folder[r].report = "failed"
            /\ m.validate \in {"completed", "blocked"} =>
                  /\ m.reports # <<>>
                  /\ Ok(Last(m.reports)) = (m.validate = "completed")
            /\ (m.validate = "pending" => m.reports = <<>> /\ folder[r].report = None)

\* No command undoes earlier work: a report the manifest lists stays listed and
\* its file stays as it is, and a file the author edited is not copied over, by
\* this run or by another of the same package (scaffold.py:28, workflow.py:82-85).
WorkSurvives ==
    [][ /\ \A r \in Run : folder[r] # None /\ folder[r].manifest # None =>
              LET listed == folder[r].manifest.reports
              IN  /\ IsPrefix(listed, folder'[r].manifest.reports)
                  /\ IsPrefix(listed, folder'[r].files)
        /\ \A p \in Package, f \in TemplateFile :
              (/\ package[p] # None /\ package'[p] # None
               /\ package[p][f] = "edited") => package'[p][f] = "edited" ]_vars
=============================================================================
