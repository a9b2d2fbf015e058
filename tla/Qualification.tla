---------------------------- MODULE Qualification ----------------------------
(***************************************************************************)
(* The host tools as processes, one after the other over the same files:   *)
(* run_qualification of tools/qualification.py, called directly or from    *)
(* tools/qualification_runner.py, and check_traceability, called from      *)
(* tools/traceability_check.py.  A process can be killed between any two   *)
(* file operations, and the requirements and the procedures are files      *)
(* other programs may change meanwhile.                                    *)
(***************************************************************************)
EXTENDS Sequences, Loading

CONSTANTS
  RequirementFiles, ProcedureFiles, \* what the two files may hold
  ResultDocuments,                  \* what the C binary may print
  ExitCodes,                        \* and what status it may end with
  None,         \* an option not given; what a process does not know yet
  Absent,       \* no report file
  Truncated     \* a report file whose writing was cut off

\* A list in a document is a sequence, as a JSON array is.
IsDocument(d) ==
  \/ d \in {Unreadable, Undecodable, NotAnObject}
  \/ \A keys \in {RequirementsAt, ProceduresAt, CasesAt} :
       LET v == ArrayAt(d, keys) IN v.type = "list" => v.value \in Seq(Items(v))

ASSUME DocumentAssumption ==
  \A d \in RequirementFiles \cup ProcedureFiles \cup ResultDocuments : IsDocument(d)

VARIABLES
  requirements_file, procedures_file,
  edited,           \* one of them was changed since the run began
  pc,               \* the next file operation of the process, or "ended"
  source,           \* where the run gets results from: [binary, exit_code]
  metadata, requirements, procedures,
  c_document, report,   \* kept after the end, for whoever called
  json_file, markdown_file,
  status            \* how the last process ended, "running" or "checking"

files == <<requirements_file, procedures_file>>
memory == <<source, metadata, requirements, procedures>>
outputs == <<json_file, markdown_file>>
vars == <<files, edited, pc, memory, c_document, report, outputs, status>>

Verdicts == {"EXIT_OK", "EXIT_QUALIFICATION_FAILED"}
Exits == Verdicts \cup {"EXIT_INPUT_ERROR"}

\* A process holds nothing in memory before it starts and after it ends.
Forget ==
  source' = None /\ metadata' = None /\ requirements' = {} /\ procedures' = {}

\* Defective variant: the Markdown report only follows a pass.
WriteMarkdownOnPass ==
  /\ pc = "markdown" /\ pc' = "ended"
  /\ markdown_file' = IF report.result = "HOST_PASS" THEN Rendered(report) ELSE markdown_file
  /\ status' = ExitCode(report, ~report.answered)
  /\ Forget /\ UNCHANGED <<files, edited, c_document, report, json_file>>

-------------------------------------------------------------------------------
(* Starting a run                                                          *)

Init ==
  /\ requirements_file \in RequirementFiles /\ procedures_file \in ProcedureFiles
  /\ edited = FALSE
  /\ pc = "ended" /\ status = "none"
  /\ source = None /\ metadata = None /\ requirements = {} /\ procedures = {}
  /\ c_document = Unreadable /\ report = Absent
  /\ json_file = Absent /\ markdown_file = Absent

\* Arguments of run_qualification: which sources are given, and the exit code
\* that goes with captured results.
Arguments == [binary : BOOLEAN, c_results : BOOLEAN, exit_code : ExitCodes \cup {-1}]

ArgumentIssues(a) ==
  IssueIf(a.binary = a.c_results, "INVALID_RESULT_SOURCE", "")
    ?? IssueIf(a.exit_code < 0, "INVALID_BINARY_EXIT_CODE", "")
    ?? IssueIf(a.binary /\ a.exit_code # 0, "INVALID_RESULT_SOURCE", "")

\* run_qualification as far as the check of its arguments.
RunQualification(a) ==
  /\ pc = "ended" /\ status' = "running" /\ edited' = FALSE /\ c_document' = Unreadable
  /\ \/ /\ ArgumentIssues(a) = {}
        /\ pc' = "requirements" /\ report' = Absent
        /\ source' = [binary |-> a.binary, exit_code |-> a.exit_code]
        /\ metadata' = None /\ requirements' = {} /\ procedures' = {}
     \/ /\ ArgumentIssues(a) # {}
        /\ pc' = "json" /\ report' = FailureReport(None, ArgumentIssues(a)) /\ Forget
  /\ UNCHANGED <<files, outputs>>

\* Options of qualification_runner.py; argparse refuses some combinations, and
\* then the process ends with status 2 before it has looked at any file.
Options == [binary : BOOLEAN, c_results : BOOLEAN, exit_code : ExitCodes \cup {-1, None}]
UsageError(o) ==
  \/ o.binary = o.c_results
  \/ o.exit_code # None /\ (o.binary \/ o.exit_code < 0)

\* parse_args and main
QualificationRunner(o) ==
  \/ /\ ~UsageError(o)
     /\ RunQualification([o EXCEPT !.exit_code = IF @ = None THEN 0 ELSE @])
  \/ /\ UsageError(o) /\ pc = "ended" /\ status' = "usage"
     /\ UNCHANGED <<files, edited, pc, memory, c_document, report, outputs>>

-------------------------------------------------------------------------------
(* The steps of a run: what may become of reading document d, in which the *)
(* code finds these issues                                                 *)

\* An exception that run_qualification does not expect ends the process with
\* status 1, and no report is written.
Crash(d) ==
  /\ d = Undecodable
  /\ pc' = "ended" /\ status' = "crashed"
  /\ Forget /\ report' = Absent

\* An InputValidationError: the failure report carries the metadata known so
\* far, and is written like any other.
Raise(d, issues) ==
  /\ d # Undecodable /\ issues # {}
  /\ report' = FailureReport(metadata, issues)
  /\ pc' = "json" /\ UNCHANGED <<memory, status>>

Proceed(d, issues, next) ==
  /\ d # Undecodable /\ issues = {}
  /\ pc' = next /\ UNCHANGED <<source, status>>

\* First reading of each file, for its identity alone.
ReadRequirements ==
  LET d == requirements_file
  IN  /\ pc = "requirements"
      /\ \/ Crash(d)
         \/ Raise(d, IdentityIssues(d))
         \/ /\ Proceed(d, IdentityIssues(d), "procedures")
            /\ metadata' = Metadata(d) /\ UNCHANGED <<requirements, procedures, report>>
      /\ UNCHANGED <<files, edited, c_document, outputs>>

ReadProcedures ==
  LET d == procedures_file
      issues == IdentityIssues(d) ?? MismatchIssues(metadata, Metadata(d))
  IN  /\ pc = "procedures"
      /\ \/ Crash(d)
         \/ Raise(d, issues)
         \/ /\ Proceed(d, issues, "load_requirements")
            /\ UNCHANGED <<metadata, requirements, procedures, report>>
      /\ UNCHANGED <<files, edited, c_document, outputs>>

\* Second reading, for the records.  The metadata must still be there but is
\* not compared with that of the first reading.
LoadRequirements ==
  LET d == requirements_file
  IN  /\ pc = "load_requirements"
      /\ \/ Crash(d)
         \/ Raise(d, RequirementsIssues(d))
         \/ /\ Proceed(d, RequirementsIssues(d), "load_procedures")
            /\ requirements' = Requirements(d) /\ UNCHANGED <<metadata, procedures, report>>
      /\ UNCHANGED <<files, edited, c_document, outputs>>

LoadProcedures ==
  LET d == procedures_file
  IN  /\ pc = "load_procedures"
      /\ \/ Crash(d)
         \/ Raise(d, ProceduresIssues(d))
         \/ /\ Proceed(d, ProceduresIssues(d), "results")
            /\ procedures' = Procedures(d) /\ UNCHANGED <<metadata, requirements, report>>
      /\ UNCHANGED <<files, edited, c_document, outputs>>

\* execute_c_binary, or the captured file: document d with exit status code.  A
\* binary that is missing, not executable, over its time or prints no JSON leaves
\* an Unreadable document; one that prints no text or cannot be started for
\* another reason, an Undecodable one.
Delivers(d, code) == source.binary \/ code = source.exit_code

\* The checks on the document and build_report.
TakeResults(d, code) ==
  LET issues == IdentityIssues(d) ?? MismatchIssues(metadata, Metadata(d)) ?? ResultsIssues(d)
  IN  /\ pc = "results" /\ Delivers(d, code)
      /\ c_document' = d
      /\ \/ Crash(d)
         \/ Raise(d, issues)
         \/ /\ Proceed(d, issues, "json")
            /\ report' = Report(requirements, procedures, Cases(d), metadata, code)
            /\ UNCHANGED <<metadata, requirements, procedures>>
      /\ UNCHANGED <<files, edited, outputs>>

\* write_reports: one file after the other, then the exit status.
WriteJson ==
  /\ pc = "json" /\ pc' = "markdown"
  /\ json_file' = report
  /\ UNCHANGED <<files, edited, memory, c_document, report, markdown_file, status>>

WriteMarkdown ==
  /\ pc = "markdown" /\ pc' = "ended"
  /\ markdown_file' = Rendered(report)
  /\ status' = ExitCode(report, ~report.answered)
  /\ Forget /\ UNCHANGED <<files, edited, c_document, report, json_file>>

-------------------------------------------------------------------------------
(* traceability_check.py, which writes nothing and ends with 0 or 1, after *)
(* a run that returned.  Each step reads two or three files as if at once. *)

\* First reading of the requirements and procedures and the only one of the
\* results, for their identity.
CheckIdentity(d) ==
  LET agrees(e) ==
        /\ e # Undecodable /\ IdentityIssues(e) = {}
        /\ MismatchIssues(Metadata(requirements_file), Metadata(e)) = {}
  IN  /\ pc = "ended" /\ status \in Exits
      /\ c_document' = d
      /\ IF \A e \in {requirements_file, procedures_file, d} : agrees(e)
         THEN pc' = "check" /\ status' = "checking"
         ELSE pc' = "ended" /\ status' = "untraceable"
      /\ UNCHANGED <<files, edited, memory, report, outputs>>

\* Second reading, for the records.
CheckRecords ==
  /\ pc = "check" /\ pc' = "ended"
  /\ status' =
       IF /\ Undecodable \notin {requirements_file, procedures_file}
          /\ RequirementsIssues(requirements_file) = {}
          /\ ProceduresIssues(procedures_file) = {}
          /\ ResultsIssues(c_document) = {}
          /\ TraceabilityIssues(Requirements(requirements_file), Procedures(procedures_file),
                                Cases(c_document)) = {}
       THEN "traceable" ELSE "untraceable"
  /\ UNCHANGED <<files, edited, memory, c_document, report, outputs>>

-------------------------------------------------------------------------------
(* Disturbances                                                            *)

\* The process is killed, or cannot write; a report file being written is then
\* as before, empty or cut off.
Kill ==
  /\ pc # "ended" /\ pc' = "ended" /\ status' = "killed"
  /\ json_file' \in {json_file} \cup (IF pc = "json" THEN {Truncated} ELSE {})
  /\ markdown_file' \in {markdown_file} \cup (IF pc = "markdown" THEN {Truncated} ELSE {})
  /\ Forget /\ report' = Absent /\ UNCHANGED <<files, edited, c_document>>

\* Another program rewrites one of the two files.
Edit ==
  /\ \/ requirements_file' \in RequirementFiles /\ UNCHANGED procedures_file
     \/ procedures_file' \in ProcedureFiles /\ UNCHANGED requirements_file
  /\ files' # files
  /\ edited' = TRUE
  /\ UNCHANGED <<pc, memory, c_document, report, outputs, status>>

RunStep ==
  \/ ReadRequirements \/ ReadProcedures \/ LoadRequirements \/ LoadProcedures
  \/ WriteJson \/ WriteMarkdown

Next ==
  \/ \E a \in Arguments : RunQualification(a)
  \/ \E o \in Options : QualificationRunner(o)
  \/ RunStep
  \/ \E d \in ResultDocuments, code \in ExitCodes : TakeResults(d, code)
  \/ CheckIdentity(c_document) \/ CheckRecords
  \/ Kill \/ Edit

Spec == Init /\ [][Next]_vars

-------------------------------------------------------------------------------
(* Properties                                                              *)

Reports == {json_file, markdown_file} \ {Absent, Truncated}

\* No report on disk, current or left by an earlier run, says HOST_PASS without
\* the evidence for it, whatever was edited or killed (qualification.py:607-946).
PassIsSupported == \A r \in Reports : Supported(r)

\* A run that returned left two reports that agree, also where an earlier run
\* was killed between the two files, and its exit status is 0 exactly if they
\* say HOST_PASS (qualification.py:949-956, 1034-1048; SSDD.md:130-131).
EndedRunsReport ==
  /\ status \in Exits \cup {"traceable", "untraceable"}
       => json_file = report /\ markdown_file = Rendered(report)
  /\ status \in Exits => (status = "EXIT_OK" <=> json_file.result = "HOST_PASS")

\* A verdict reached while nobody edited the files is a verdict on these files:
\* same identity, every record of theirs in it, none else.  An edit between the
\* two readings of a file voids this (qualification.py:318-560, 1000-1048).
VerdictIsAboutTheFiles ==
  status \in Verdicts /\ ~edited
    => /\ \A d \in {requirements_file, procedures_file, c_document} :
            \A f \in IdentityFields : json_file.metadata[f] = d[f].value
       /\ Ids(json_file.traceability) =
            {RequirementId(raw) : raw \in RawRecords(requirements_file, RequirementsAt)}
       /\ Ids(json_file.procedures) =
            {ProcedureId(raw) : raw \in RawRecords(procedures_file, ProceduresAt)}
       /\ Ids(json_file.cases) = {CaseId(raw) : raw \in RawRecords(c_document, CasesAt)}

\* A list of records in which no id occurs twice.
Distinct(raws, IdOf(_)) == \A j, k \in DOMAIN raws : IdOf(raws[j]) = IdOf(raws[k]) => j = k

\* Every record of the files has a row of its own in such a verdict: an id given
\* twice, under whatever keys, and perhaps with another status, never hides a
\* record or makes one row stand for two (qualification.py:318-560, 689-811).
RecordsHaveTheirRows ==
  status \in Verdicts /\ ~edited
    => /\ Distinct(ArrayAt(requirements_file, RequirementsAt).value, RequirementId)
       /\ Distinct(ArrayAt(procedures_file, ProceduresAt).value, ProcedureId)
       /\ Distinct(ArrayAt(c_document, CasesAt).value, CaseId)
       /\ \A rows \in {json_file.traceability, json_file.procedures, json_file.cases} :
            \A a, b \in rows : a.id = b.id => a = b

TraceabilityCodes ==
  {"UNKNOWN_REQUIREMENT", "VERIFICATION_METHOD_MISMATCH", "MISSING_C_CASE",
   "UNMAPPED_REQUIREMENT", "UNKNOWN_C_CASE"}

\* The two tools never disagree about unedited files: check_traceability takes
\* a run's documents exactly if the run gave a verdict on them that finds fault
\* with cases and the exit status at most (qualification.py:959-1079).
ToolsAgree ==
  status \in {"traceable", "untraceable"} /\ ~edited
    => (status = "traceable"
          <=> report.answered /\ \A issue \in report.issues : issue.code \notin TraceabilityCodes)
===============================================================================
