------------------------- MODULE QualificationProofs -------------------------
(* A HOST_PASS report always has its evidence: about the computation of a  *)
(* report first, then about every report a sequence of runs leaves behind, *)
(* the files a verdict is about, record by record, and the PASS line of    *)
(* the script.                                                             *)
EXTENDS Verification, TLAPS

-------------------------------------------------------------------------------
(* build_report                                                            *)

\* What the loaders guarantee of procedures and cases.
ProperProcedures(P) == \A p \in P : p.case_ids # {}
ProperCases(C) == \A c \in C : c.status \in CaseStatuses

\* A report without an issue: what each missing issue means.
LEMMA NoIssueMeans ==
  ASSUME NEW R, NEW P, NEW C, NEW code, ReportIssues(R, P, C, code) = {}
  PROVE  /\ \A p \in P : p.case_ids \subseteq Ids(C)
         /\ \A r \in R : Linked(r, P) # {}
         /\ \A c \in C : c.status \notin {"FAIL", "INCOMPLETE"}
         /\ code = 0
<1>1. \A p \in P : p.case_ids \subseteq Ids(C)
  <2> SUFFICES ASSUME NEW p \in P, NEW id \in p.case_ids, id \notin Ids(C) PROVE FALSE
    OBVIOUS
  <2>1. Issue("MISSING_C_CASE", p.id, id) \in MissingCases(P, C)
    BY DEF MissingCases
  <2> QED BY <2>1 DEF ReportIssues, TraceabilityIssues
<1>2. \A r \in R : Linked(r, P) # {}
  <2> SUFFICES ASSUME NEW r \in R, Linked(r, P) = {} PROVE FALSE
    OBVIOUS
  <2>1. r.id \in Ids(R)
    BY DEF Ids
  <2>2. r.id \notin UNION {p.requirement_ids : p \in P}
    BY DEF Linked
  <2>3. Issue("UNMAPPED_REQUIREMENT", r.id, "") \in UnmappedRequirements(R, P)
    BY <2>1, <2>2 DEF UnmappedRequirements
  <2> QED BY <2>3 DEF ReportIssues, TraceabilityIssues
<1>3. \A c \in C : c.status \notin {"FAIL", "INCOMPLETE"}
  <2> SUFFICES ASSUME NEW c \in C, c.status \in {"FAIL", "INCOMPLETE"} PROVE FALSE
    OBVIOUS
  <2>1. CASE c.status = "FAIL"
    <3>1. Issue("CASE_FAILED", c.id, "")
            \in {Issue("CASE_FAILED", e.id, "") : e \in {d \in C : d.status = "FAIL"}}
      BY <2>1
    <3> QED BY <3>1 DEF ReportIssues
  <2>2. CASE c.status = "INCOMPLETE"
    <3>1. Issue("CASE_INCOMPLETE", c.id, "")
            \in {Issue("CASE_INCOMPLETE", e.id, "") : e \in {d \in C : d.status = "INCOMPLETE"}}
      BY <2>2
    <3> QED BY <3>1 DEF ReportIssues
  <2> QED BY <2>1, <2>2
<1>4. code = 0
  BY DEF ReportIssues
<1> QED BY <1>1, <1>2, <1>3, <1>4

\* build_report never says HOST_PASS without the evidence for it, whatever
\* requirements, procedures and case results it is given, and neither does the
\* Markdown made of its report (qualification.py:689-946).
THEOREM ReportIsSupported ==
  ASSUME NEW R, NEW P, NEW C, NEW metadata_, NEW code,
         R # {}, ProperProcedures(P), ProperCases(C)
  PROVE  /\ Supported(Report(R, P, C, metadata_, code))
         /\ Supported(Rendered(Report(R, P, C, metadata_, code)))
<1> DEFINE report_ == Report(R, P, C, metadata_, code)
<1>1. CASE report_.result # "HOST_PASS"
  BY <1>1 DEF Supported, Rendered, Report
<1>2. CASE report_.result = "HOST_PASS"
  <2>1. ReportIssues(R, P, C, code) = {}
    BY <1>2 DEF Report
  <2>2. /\ \A p \in P : p.case_ids \subseteq Ids(C)
        /\ \A r \in R : Linked(r, P) # {}
        /\ \A c \in C : c.status \notin {"FAIL", "INCOMPLETE"}
        /\ code = 0
    BY <2>1, NoIssueMeans
  <2>3. \A p \in P : ProcedureStatus(p, C) = "PASS"
    BY <2>2 DEF ProcedureStatus, Summary
  <2>4. \A r \in R : RequirementStatus(r, P, C) = "PASS"
    <3> SUFFICES ASSUME NEW r \in R PROVE RequirementStatus(r, P, C) = "PASS"
      OBVIOUS
    <3>1. \A p \in Linked(r, P) : ProcedureStatus(p, C) = "PASS"
      BY <2>3 DEF Linked
    <3> QED BY <2>2, <3>1 DEF RequirementStatus, Summary
  <2>5. \A row \in report_.procedures : row.status = "PASS"
    BY <2>3 DEF Report
  <2>6. \A row \in report_.traceability : row.status = "PASS"
    BY <2>4 DEF Report
  <2>7. \A row \in report_.cases : row.status = "PASS"
    BY <2>2 DEF Report, ProperCases, CaseStatuses
  <2>8. \A row \in report_.traceability :
          row.procedures # {} /\ row.cases # {} /\ row.cases \subseteq Ids(report_.cases)
    <3> SUFFICES ASSUME NEW r \in R
                 PROVE  /\ Ids(Linked(r, P)) # {}
                        /\ UNION {p.case_ids : p \in Linked(r, P)} # {}
                        /\ UNION {p.case_ids : p \in Linked(r, P)} \subseteq Ids(C)
      BY DEF Report
    <3>1. PICK p \in Linked(r, P) : p \in P
      BY <2>2 DEF Linked
    <3>2. p.id \in Ids(Linked(r, P))
      BY <3>1 DEF Ids
    <3>3. PICK id \in p.case_ids : TRUE
      BY <3>1 DEF ProperProcedures
    <3>4. id \in UNION {q.case_ids : q \in Linked(r, P)}
      BY <3>1, <3>3
    <3>5. \A q \in Linked(r, P) : q.case_ids \subseteq Ids(C)
      BY <2>2 DEF Linked
    <3>6. UNION {q.case_ids : q \in Linked(r, P)} \subseteq Ids(C)
      BY <3>5
    <3> QED BY <3>2, <3>4, <3>6
  <2>9. PICK r \in R : TRUE
    OBVIOUS
  <2>10. /\ report_.traceability # {}
         /\ report_.procedures # {}
         /\ report_.cases # {}
    <3>1. PICK p \in P : p \in Linked(r, P)
      BY <2>2, <2>9 DEF Linked
    <3>2. PICK id \in p.case_ids : TRUE
      BY <3>1 DEF ProperProcedures
    <3>3. C # {}
      BY <2>2, <3>1, <3>2 DEF Ids
    <3> QED BY <2>9, <3>1, <3>3 DEF Report
  <2>11. Rendered(report_) = report_
    BY <2>10 DEF Rendered, Shown, Report
  <2>12. report_.exit_code = 0
    BY <2>2 DEF Report
  <2>13. Supported(report_)
    <3>1. \A row \in report_.traceability \cup report_.procedures \cup report_.cases :
            row.status = "PASS"
      BY <2>5, <2>6, <2>7
    <3> QED BY <2>8, <2>10, <2>12, <3>1 DEF Supported
  <2> QED BY <2>11, <2>13
<1> QED BY <1>1, <1>2

\* A failure report never says HOST_PASS, nor does its Markdown.
LEMMA FailureIsSupported ==
  ASSUME NEW m, NEW issues
  PROVE  Supported(FailureReport(m, issues)) /\ Supported(Rendered(FailureReport(m, issues)))
BY DEF Supported, Rendered, FailureReport

-------------------------------------------------------------------------------
(* The loaders                                                             *)

\* What `??` leaves empty was empty on both sides.
LEMMA BothEmpty == ASSUME NEW a, NEW b, (a ?? b) = {} PROVE a = {} /\ b = {}
BY DEF ??

LEMMA NoIssue ==
  ASSUME NEW bad \in BOOLEAN, NEW code, NEW subject, IssueIf(bad, code, subject) = {}
  PROVE  ~bad
BY DEF IssueIf

\* What a document without an issue has at the place of its records.
LEMMA ListThere ==
  ASSUME NEW d, NEW keys, ArrayIssues(d, keys) = {}
  PROVE  RawRecords(d, keys) = {ArrayAt(d, keys).value[k] : k \in DOMAIN ArrayAt(d, keys).value}
<1>1. ArrayAt(d, keys).type = "list"
  BY NoIssue DEF ArrayIssues
<1> QED BY <1>1 DEF RawRecords, Items

\* load_requirements returns at least one requirement (qualification.py:396-400).
LEMMA LoadedRequirements ==
  ASSUME NEW d, RequirementsIssues(d) = {} PROVE Requirements(d) # {}
<1> DEFINE v == ArrayAt(d, RequirementsAt)
           found == RecordIssues(v.value, RequirementShape, RequirementId,
                                 "DUPLICATE_REQUIREMENT_ID", RequirementContent)
           empty == EmptyIssues(v.value, "EMPTY_REQUIREMENTS")
<1>1. ((IdentityIssues(d) ?? ArrayIssues(d, RequirementsAt)) ?? (found \cup empty)) = {}
  BY DEF RequirementsIssues
<1> HIDE DEF found
<1>2. ArrayIssues(d, RequirementsAt) = {} /\ empty = {}
  BY <1>1, BothEmpty
<1>3. DOMAIN v.value # {}
  BY <1>2, NoIssue DEF EmptyIssues
<1> QED BY <1>2, <1>3, ListThere DEF Requirements

\* load_procedures returns procedures that name a case (qualification.py:296-305).
LEMMA LoadedProcedures ==
  ASSUME NEW d, ProceduresIssues(d) = {} PROVE ProperProcedures(Procedures(d))
<1> DEFINE v == ArrayAt(d, ProceduresAt)
           found == RecordIssues(v.value, ProcedureShape, ProcedureId,
                                 "DUPLICATE_PROCEDURE_ID", ProcedureContent)
           empty == EmptyIssues(v.value, "EMPTY_PROCEDURES")
<1>1. ((IdentityIssues(d) ?? ArrayIssues(d, ProceduresAt)) ?? (found \cup empty)) = {}
  BY DEF ProceduresIssues
<1>2. ArrayIssues(d, ProceduresAt) = {} /\ found \cup empty = {}
  <2> HIDE DEF found, empty
  <2> QED BY <1>1, BothEmpty
<1>3. found = {}
  BY <1>2
<1>4. \A k \in DOMAIN v.value : ProcedureShape(v.value[k]) = {}
  BY <1>3 DEF RecordIssues, ??
<1> HIDE DEF v
<1>5. ASSUME NEW raw, ProcedureShape(raw) = {} PROVE References(CaseRefs(raw)) # {}
  <2>1. ReferenceIssues(CaseRefs(raw)) = {}
    BY <1>5 DEF ProcedureShape, ??, Issue
  <2>2. Items(CaseRefs(raw)) # {}
    <3> DEFINE bad == \/ CaseRefs(raw).type \notin {"string", "list"}
                      \/ Items(CaseRefs(raw)) = {}
                      \/ \E item \in Items(CaseRefs(raw)) : ~IsText(item)
    <3>1. IssueIf(bad, "INVALID_SCHEMA", "") = {}
      BY <2>1 DEF ReferenceIssues, ??
    <3>2. ~bad
      BY <3>1 DEF IssueIf
    <3> QED BY <3>2
  <2> QED BY <2>2 DEF References
<1>6. RawRecords(d, ProceduresAt) = {v.value[k] : k \in DOMAIN v.value}
  BY <1>2, ListThere DEF v
<1> QED BY <1>4, <1>5, <1>6 DEF Procedures, ProcedureOf, ProperProcedures

\* parse_c_results returns cases of the three statuses (qualification.py:485-513).
LEMMA LoadedCases ==
  ASSUME NEW d, ResultsIssues(d) = {} PROVE ProperCases(Cases(d))
<1> DEFINE v == ArrayAt(d, CasesAt)
           found == RecordIssues(v.value, CaseShape, CaseId, "DUPLICATE_C_CASE_ID", CaseContent)
           empty == EmptyIssues(v.value, "EMPTY_C_RESULTS")
<1>1. (ArrayIssues(d, CasesAt) ?? (found \cup empty)) = {}
  BY DEF ResultsIssues
<1>2. ArrayIssues(d, CasesAt) = {} /\ found \cup empty = {}
  <2> HIDE DEF found, empty
  <2> QED BY <1>1, BothEmpty
<1>3. found = {}
  BY <1>2
<1>4. \A k \in DOMAIN v.value : CaseShape(v.value[k]) = {}
  BY <1>3 DEF RecordIssues, ??
<1> HIDE DEF v
<1>5. ASSUME NEW raw, CaseShape(raw) = {} PROVE StatusOf(StatusValue(raw)) \in CaseStatuses
  <2>1. IsStatus(StatusValue(raw))
    BY <1>5 DEF CaseShape, ??, Issue, IssueIf
  <2>2. CASE StatusValue(raw).type = "boolean"
    BY <2>2 DEF StatusOf, CaseStatuses
  <2>3. CASE StatusValue(raw).type # "boolean"
    BY <2>1, <2>3 DEF StatusOf, IsStatus
  <2> QED BY <2>2, <2>3
<1>6. RawRecords(d, CasesAt) = {v.value[k] : k \in DOMAIN v.value}
  BY <1>2, ListThere DEF v
<1> QED BY <1>4, <1>5, <1>6 DEF Cases, CaseOf, ProperCases

-------------------------------------------------------------------------------
(* Runs                                                                    *)

\* What either specification may do to the tools and their files, whoever calls
\* them with whatever arguments and documents.
Step ==
  \/ \E a : RunQualification(a)
  \/ \E o : QualificationRunner(o)
  \/ RunStep
  \/ \E d, code : TakeResults(d, code)
  \/ \E d : CheckIdentity(d)
  \/ CheckRecords \/ Kill \/ Edit
  \/ UNCHANGED vars

LEMMA NextIsStep == [Next]_vars => Step
BY DEF Next, Step

LEMMA ScriptIsStep == [VNext]_scriptVars => Step
BY DEF VNext, VerificationStep, Prepare, OpenResults, OpenFails, Execute, StartRunner, RunnerStep,
       StartCheck, CheckStep, Pass, Fail, KillTool, KillScript, scriptVars, Step

\* The inductive invariant: what is about to be written is supported, in both
\* forms, and what a report will be computed from is proper.
EvidenceInvariant ==
  /\ \A r \in Reports : Supported(r)
  /\ pc \in {"json", "markdown"} => Supported(report) /\ Supported(Rendered(report))
  /\ pc \in {"load_procedures", "results"} => requirements # {}
  /\ pc = "results" => ProperProcedures(procedures)

LEMMA EvidenceInit == Init => EvidenceInvariant
BY DEF Init, EvidenceInvariant, Reports

LEMMA RaiseKeepsEvidence ==
  ASSUME EvidenceInvariant, NEW d, NEW issues, Raise(d, issues), UNCHANGED outputs
  PROVE  EvidenceInvariant'
BY FailureIsSupported DEF EvidenceInvariant, Raise, Reports, outputs

LEMMA CrashKeepsEvidence ==
  ASSUME EvidenceInvariant, NEW d, Crash(d), UNCHANGED outputs
  PROVE  EvidenceInvariant'
BY DEF EvidenceInvariant, Crash, Reports, outputs

LEMMA RunKeepsEvidence ==
  ASSUME EvidenceInvariant, NEW a, RunQualification(a) PROVE EvidenceInvariant'
<1>1. UNCHANGED outputs
  BY DEF RunQualification
<1>2. CASE pc' = "requirements"
  BY <1>1, <1>2 DEF EvidenceInvariant, Reports, outputs
<1>3. CASE pc' = "json" /\ report' = FailureReport(None, ArgumentIssues(a))
  BY <1>1, <1>3, FailureIsSupported DEF EvidenceInvariant, Reports, outputs
<1> QED BY <1>2, <1>3 DEF RunQualification

LEMMA EvidenceStep == EvidenceInvariant /\ Step => EvidenceInvariant'
<1> SUFFICES ASSUME EvidenceInvariant, Step PROVE EvidenceInvariant'
  OBVIOUS
<1>1. ASSUME NEW a, RunQualification(a) PROVE EvidenceInvariant'
  BY <1>1, RunKeepsEvidence
<1>2. ASSUME NEW o, QualificationRunner(o) PROVE EvidenceInvariant'
  <2>1. CASE status' = "usage" /\ UNCHANGED <<pc, memory, report, outputs>>
    BY <2>1 DEF EvidenceInvariant, Reports, memory, outputs
  <2> QED BY <1>2, <2>1, RunKeepsEvidence DEF QualificationRunner
<1>3. CASE ReadRequirements
  <2>1. UNCHANGED outputs
    BY <1>3 DEF ReadRequirements
  <2>2. CASE pc' = "procedures"
    BY <2>1, <2>2 DEF EvidenceInvariant, Reports, outputs
  <2> QED BY <1>3, <2>1, <2>2, RaiseKeepsEvidence, CrashKeepsEvidence
          DEF ReadRequirements, Proceed
<1>4. CASE ReadProcedures
  <2>1. UNCHANGED outputs
    BY <1>4 DEF ReadProcedures
  <2>2. CASE pc' = "load_requirements"
    BY <2>1, <2>2 DEF EvidenceInvariant, Reports, outputs
  <2> QED BY <1>4, <2>1, <2>2, RaiseKeepsEvidence, CrashKeepsEvidence
          DEF ReadProcedures, Proceed
<1>5. CASE LoadRequirements
  <2>1. UNCHANGED outputs
    BY <1>5 DEF LoadRequirements
  <2>2. CASE /\ Proceed(requirements_file, RequirementsIssues(requirements_file),
                        "load_procedures")
             /\ requirements' = Requirements(requirements_file)
    BY <2>1, <2>2, LoadedRequirements DEF EvidenceInvariant, Proceed, Reports, outputs
  <2> QED BY <1>5, <2>1, <2>2, RaiseKeepsEvidence, CrashKeepsEvidence DEF LoadRequirements
<1>6. CASE LoadProcedures
  <2>1. UNCHANGED outputs
    BY <1>6 DEF LoadProcedures
  <2>2. CASE /\ Proceed(procedures_file, ProceduresIssues(procedures_file), "results")
             /\ procedures' = Procedures(procedures_file)
             /\ pc = "load_procedures" /\ UNCHANGED requirements
    BY <2>1, <2>2, LoadedProcedures DEF EvidenceInvariant, Proceed, Reports, outputs
  <2> QED BY <1>6, <2>1, <2>2, RaiseKeepsEvidence, CrashKeepsEvidence DEF LoadProcedures
<1>7. ASSUME NEW d, NEW code, TakeResults(d, code) PROVE EvidenceInvariant'
  <2> DEFINE issues == IdentityIssues(d) ?? MismatchIssues(metadata, Metadata(d))
                         ?? ResultsIssues(d)
  <2>1. UNCHANGED outputs /\ pc = "results"
    BY <1>7 DEF TakeResults
  <2>2. CASE /\ Proceed(d, issues, "json")
             /\ report' = Report(requirements, procedures, Cases(d), metadata, code)
    <3>1. ResultsIssues(d) = {}
      BY <2>2, BothEmpty DEF Proceed
    <3>2. Supported(report') /\ Supported(Rendered(report)')
      BY <2>1, <2>2, <3>1, LoadedCases, ReportIsSupported DEF EvidenceInvariant
    <3> QED BY <2>1, <2>2, <3>2 DEF EvidenceInvariant, Proceed, Reports, outputs
  <2> QED BY <1>7, <2>1, <2>2, RaiseKeepsEvidence, CrashKeepsEvidence DEF TakeResults
<1>8. CASE WriteJson
  BY <1>8 DEF WriteJson, EvidenceInvariant, Reports
<1>9. CASE WriteMarkdown
  BY <1>9 DEF WriteMarkdown, EvidenceInvariant, Reports
<1>10. ASSUME NEW d, CheckIdentity(d) PROVE EvidenceInvariant'
  BY <1>10 DEF CheckIdentity, EvidenceInvariant, Reports, outputs
<1>11. CASE CheckRecords
  BY <1>11 DEF CheckRecords, EvidenceInvariant, Reports, outputs
<1>12. CASE Kill
  BY <1>12 DEF Kill, EvidenceInvariant, Reports
<1>13. CASE Edit
  BY <1>13 DEF Edit, EvidenceInvariant, Reports, memory, outputs
<1>14. CASE UNCHANGED vars
  BY <1>14 DEF vars, EvidenceInvariant, Reports, memory, outputs
<1> QED
  BY <1>1, <1>2, <1>3, <1>4, <1>5, <1>6, <1>7, <1>8, <1>9, <1>10, <1>11, <1>12, <1>13,
     <1>14 DEF Step, RunStep

\* Whatever is edited, killed or repeated, no report file says HOST_PASS without
\* the evidence for it (qualification.py:949-1048).
THEOREM PassIsAlwaysSupported == Spec => []PassIsSupported
<1>1. EvidenceInvariant => PassIsSupported
  BY DEF EvidenceInvariant, PassIsSupported
<1> QED BY <1>1, EvidenceInit, EvidenceStep, NextIsStep, PTL DEF Spec

-------------------------------------------------------------------------------
(* Ends of runs                                                            *)

\* The inductive invariant: a process that is still at work has no verdict, and
\* the JSON report is there before the Markdown is written.
OutcomeInvariant ==
  /\ pc \notin {"ended", "check"} => status = "running"
  /\ pc = "check" => status = "checking"
  /\ pc = "markdown" => json_file = report
  /\ status \in Exits \cup {"checking", "traceable", "untraceable"}
       => json_file = report /\ markdown_file = Rendered(report)
  /\ status \in Exits => (status = "EXIT_OK" <=> json_file.result = "HOST_PASS")

LEMMA OutcomeInit == Init => OutcomeInvariant
BY DEF Init, OutcomeInvariant, Exits, Verdicts

LEMMA RunKeepsOutcome ==
  ASSUME OutcomeInvariant, NEW a, RunQualification(a) PROVE OutcomeInvariant'
BY DEF RunQualification, OutcomeInvariant, Exits, Verdicts

\* One reading of a document, whatever becomes of it.
LEMMA ReadingKeepsOutcome ==
  ASSUME OutcomeInvariant, pc \notin {"ended", "check"}, UNCHANGED outputs,
         NEW d, NEW issues, NEW next, next \notin {"ended", "check", "markdown"},
         Crash(d) \/ Raise(d, issues) \/ Proceed(d, issues, next)
  PROVE  OutcomeInvariant'
<1>1. CASE Crash(d)
  BY <1>1 DEF Crash, OutcomeInvariant, Exits, Verdicts
<1>2. CASE pc' \notin {"ended", "check", "markdown"} /\ UNCHANGED status
  BY <1>2 DEF OutcomeInvariant, Exits, Verdicts
<1> QED BY <1>1, <1>2 DEF Raise, Proceed

LEMMA OutcomeStep == OutcomeInvariant /\ Step => OutcomeInvariant'
<1> SUFFICES ASSUME OutcomeInvariant, Step PROVE OutcomeInvariant'
  OBVIOUS
<1>1. ASSUME NEW a, RunQualification(a) PROVE OutcomeInvariant'
  BY <1>1, RunKeepsOutcome
<1>2. ASSUME NEW o, QualificationRunner(o) PROVE OutcomeInvariant'
  <2>1. CASE status' = "usage" /\ pc = "ended" /\ UNCHANGED pc
    BY <2>1 DEF OutcomeInvariant, Exits, Verdicts
  <2> QED BY <1>2, <2>1, RunKeepsOutcome DEF QualificationRunner
<1>3. CASE ReadRequirements
  BY <1>3, ReadingKeepsOutcome DEF ReadRequirements
<1>4. CASE ReadProcedures
  BY <1>4, ReadingKeepsOutcome DEF ReadProcedures
<1>5. CASE LoadRequirements
  BY <1>5, ReadingKeepsOutcome DEF LoadRequirements
<1>6. CASE LoadProcedures
  BY <1>6, ReadingKeepsOutcome DEF LoadProcedures
<1>7. ASSUME NEW d, NEW code, TakeResults(d, code) PROVE OutcomeInvariant'
  BY <1>7, ReadingKeepsOutcome DEF TakeResults
<1>8. CASE WriteJson
  BY <1>8 DEF WriteJson, OutcomeInvariant, Exits, Verdicts
<1>9. CASE WriteMarkdown
  BY <1>9 DEF WriteMarkdown, OutcomeInvariant, ExitCode, Exits, Verdicts
<1>10. ASSUME NEW d, CheckIdentity(d) PROVE OutcomeInvariant'
  BY <1>10 DEF CheckIdentity, OutcomeInvariant, outputs, Exits, Verdicts
<1>11. CASE CheckRecords
  BY <1>11 DEF CheckRecords, OutcomeInvariant, outputs, Exits, Verdicts
<1>12. CASE Kill
  BY <1>12 DEF Kill, OutcomeInvariant, Exits, Verdicts
<1>13. CASE Edit
  BY <1>13 DEF Edit, OutcomeInvariant, outputs
<1>14. CASE UNCHANGED vars
  BY <1>14 DEF vars, OutcomeInvariant, outputs
<1> QED
  BY <1>1, <1>2, <1>3, <1>4, <1>5, <1>6, <1>7, <1>8, <1>9, <1>10, <1>11, <1>12, <1>13,
     <1>14 DEF Step, RunStep

\* A run that returned left two reports that agree, and its status tells whether
\* they say HOST_PASS, for all files, arguments, edits and kills
\* (qualification.py:949-956, 1034-1048).
THEOREM RunsEndInReports == Spec => []EndedRunsReport
<1>1. OutcomeInvariant => EndedRunsReport
  BY DEF OutcomeInvariant, EndedRunsReport
<1> QED BY <1>1, OutcomeInit, OutcomeStep, NextIsStep, PTL DEF Spec

-------------------------------------------------------------------------------
(* Verdicts and the files they are about                                   *)

\* What check_traceability asks of identity, and of everything before it
\* compares records.
Agrees(e) ==
  /\ e # Undecodable /\ IdentityIssues(e) = {}
  /\ MismatchIssues(Metadata(requirements_file), Metadata(e)) = {}
AllAgree == \A e \in {requirements_file, procedures_file, c_document} : Agrees(e)
RecordsLoad ==
  /\ RequirementsIssues(requirements_file) = {}
  /\ ProceduresIssues(procedures_file) = {}
  /\ ResultsIssues(c_document) = {}
Matched ==
  TraceabilityIssues(Requirements(requirements_file), Procedures(procedures_file),
                     Cases(c_document)) = {}

\* A report that judges the documents as they are, of documents that load; or a
\* refusal, of documents that do not.
Verdict(r) ==
  /\ AllAgree /\ RecordsLoad /\ r.answered
  /\ \E code : r = Report(Requirements(requirements_file), Procedures(procedures_file),
                          Cases(c_document), Metadata(requirements_file), code)
Refusal(r) == ~r.answered /\ r.result = "FAIL" /\ ~(AllAgree /\ RecordsLoad)

\* The inductive invariant: while nobody has edited the files, what the process
\* has in memory is what they hold, and what it has let pass is without issue.
FilesInvariant ==
  ~edited =>
    /\ pc \in {"requirements", "procedures", "load_requirements", "load_procedures", "results"}
         => c_document = Unreadable
    /\ pc \in {"procedures", "load_requirements", "load_procedures", "results"}
         => Agrees(requirements_file) /\ metadata = Metadata(requirements_file)
    /\ pc \in {"load_requirements", "load_procedures", "results"} => Agrees(procedures_file)
    /\ pc \in {"load_procedures", "results"}
         => /\ RequirementsIssues(requirements_file) = {}
            /\ requirements = Requirements(requirements_file)
    /\ pc = "results"
         => /\ ProceduresIssues(procedures_file) = {}
            /\ procedures = Procedures(procedures_file)
    /\ pc \in {"json", "markdown"} \/ status \in Exits \cup {"checking", "traceable", "untraceable"}
         => Verdict(report) \/ Refusal(report)
    /\ status \in Verdicts => Verdict(report)
    /\ status = "checking" => AllAgree
    /\ status \in {"traceable", "untraceable"}
         => (status = "traceable" <=> AllAgree /\ RecordsLoad /\ Matched)

\* A document that has not arrived agrees with nothing.
LEMMA UnreadableDisagrees == c_document' = Unreadable => ~AllAgree'
BY DEF AllAgree, Agrees, IdentityIssues, JsonIssues, IssueIf, ??

\* Metadata does not disagree with itself.
LEMMA SelfMatch == ASSUME NEW m PROVE MismatchIssues(m, m) = {}
BY DEF MismatchIssues

LEMMA FilesInit == Init => FilesInvariant
BY DEF Init, FilesInvariant, Exits, Verdicts

LEMMA RunKeepsFiles ==
  ASSUME OutcomeInvariant, FilesInvariant, NEW a, RunQualification(a) PROVE FilesInvariant'
<1>1. ~AllAgree' /\ c_document' = Unreadable
  BY UnreadableDisagrees DEF RunQualification
<1>2. CASE pc' = "requirements"
  BY <1>1, <1>2 DEF RunQualification, FilesInvariant, Exits, Verdicts
<1>3. CASE pc' = "json" /\ report' = FailureReport(None, ArgumentIssues(a))
  BY <1>1, <1>3 DEF RunQualification, FilesInvariant, FailureReport, Refusal, Exits, Verdicts
<1> QED BY <1>2, <1>3 DEF RunQualification

\* A process that crashes leaves nothing to hold it to.
LEMMA CrashKeepsFiles == ASSUME NEW d, Crash(d) PROVE FilesInvariant'
BY DEF Crash, FilesInvariant, Exits, Verdicts

\* A refusal in the middle of a run, of documents that the checker refuses too.
LEMMA RaiseKeepsFiles ==
  ASSUME status = "running", NEW d, NEW issues, Raise(d, issues), ~(AllAgree /\ RecordsLoad)'
  PROVE  FilesInvariant'
BY DEF Raise, FailureReport, FilesInvariant, Refusal, Exits, Verdicts

\* A step of a run that lets its document pass.
LEMMA ReadingsKeepFiles ==
  ASSUME OutcomeInvariant, FilesInvariant,
         ReadRequirements \/ ReadProcedures \/ LoadRequirements \/ LoadProcedures
  PROVE  FilesInvariant'
<1> SUFFICES ASSUME ~edited' PROVE FilesInvariant'
  BY DEF FilesInvariant
<1>1. status = "running" /\ UNCHANGED <<files, edited, c_document>> /\ ~edited
  BY DEF ReadRequirements, ReadProcedures, LoadRequirements, LoadProcedures, OutcomeInvariant
<1>2. c_document' = Unreadable /\ ~AllAgree'
  BY <1>1, UnreadableDisagrees
     DEF ReadRequirements, ReadProcedures, LoadRequirements, LoadProcedures, FilesInvariant
<1>3. ASSUME NEW d, NEW issues, Crash(d) \/ Raise(d, issues) PROVE FilesInvariant'
  BY <1>1, <1>2, <1>3, CrashKeepsFiles, RaiseKeepsFiles
<1>4. CASE ReadRequirements /\ Proceed(requirements_file, IdentityIssues(requirements_file),
                                       "procedures")
  <2>1. metadata' = Metadata(requirements_file)
    BY <1>4 DEF ReadRequirements, Proceed, Crash, Raise
  <2>2. Agrees(requirements_file)'
    BY <1>1, <1>4, SelfMatch DEF Agrees, Proceed, files
  <2> QED BY <1>1, <1>2, <1>4, <2>1, <2>2 DEF Proceed, FilesInvariant, Exits, Verdicts, files
<1>5. CASE ReadProcedures /\ Proceed(procedures_file,
                  IdentityIssues(procedures_file)
                    ?? MismatchIssues(metadata, Metadata(procedures_file)), "load_requirements")
  <2>1. metadata' = metadata
    BY <1>5 DEF ReadProcedures, Proceed, Crash, Raise
  <2>2. Agrees(requirements_file) /\ metadata = Metadata(requirements_file)
    BY <1>1, <1>5 DEF ReadProcedures, FilesInvariant
  <2>3. Agrees(procedures_file)
    BY <1>5, <2>2, BothEmpty DEF Agrees, Proceed
  <2>4. Agrees(requirements_file)' /\ Agrees(procedures_file)'
    BY <1>1, <2>2, <2>3 DEF Agrees, files
  <2> QED BY <1>1, <1>2, <1>5, <2>1, <2>2, <2>4
          DEF Proceed, FilesInvariant, Exits, Verdicts, files
<1>6. CASE LoadRequirements /\ Proceed(requirements_file, RequirementsIssues(requirements_file),
                                       "load_procedures")
  <2>1. metadata' = metadata /\ requirements' = Requirements(requirements_file)
    BY <1>6 DEF LoadRequirements, Proceed, Crash, Raise
  <2>2. /\ Agrees(requirements_file) /\ metadata = Metadata(requirements_file)
        /\ Agrees(procedures_file)
    BY <1>1, <1>6 DEF LoadRequirements, FilesInvariant
  <2>3. Agrees(requirements_file)' /\ Agrees(procedures_file)'
    BY <1>1, <2>2 DEF Agrees, files
  <2> QED BY <1>1, <1>2, <1>6, <2>1, <2>2, <2>3
          DEF Proceed, FilesInvariant, Exits, Verdicts, files
<1>7. CASE LoadProcedures /\ Proceed(procedures_file, ProceduresIssues(procedures_file),
                                     "results")
  <2>1. UNCHANGED <<metadata, requirements>> /\ procedures' = Procedures(procedures_file)
    BY <1>7 DEF LoadProcedures, Proceed, Crash, Raise
  <2>2. /\ Agrees(requirements_file) /\ metadata = Metadata(requirements_file)
        /\ Agrees(procedures_file)
        /\ RequirementsIssues(requirements_file) = {}
        /\ requirements = Requirements(requirements_file)
    BY <1>1, <1>7 DEF LoadProcedures, FilesInvariant
  <2>3. Agrees(requirements_file)' /\ Agrees(procedures_file)'
    BY <1>1, <2>2 DEF Agrees, files
  <2> QED BY <1>1, <1>2, <1>7, <2>1, <2>2, <2>3
          DEF Proceed, FilesInvariant, Exits, Verdicts, files
<1> QED
  BY <1>3, <1>4, <1>5, <1>6, <1>7
     DEF ReadRequirements, ReadProcedures, LoadRequirements, LoadProcedures

\* build_report's answer is a verdict on the files, and what keeps it from
\* answering keeps the checker from accepting.
LEMMA ResultsKeepFiles ==
  ASSUME OutcomeInvariant, FilesInvariant, NEW d, NEW code, TakeResults(d, code)
  PROVE  FilesInvariant'
<1> DEFINE issues == IdentityIssues(d) ?? MismatchIssues(metadata, Metadata(d))
                       ?? ResultsIssues(d)
<1> SUFFICES ASSUME ~edited' PROVE FilesInvariant'
  BY DEF FilesInvariant
<1>1. /\ status = "running" /\ UNCHANGED files /\ ~edited
      /\ c_document' = d /\ pc = "results"
  BY DEF TakeResults, OutcomeInvariant
<1>2. /\ Agrees(requirements_file) /\ metadata = Metadata(requirements_file)
      /\ Agrees(procedures_file)
      /\ RequirementsIssues(requirements_file) = {}
      /\ requirements = Requirements(requirements_file)
      /\ ProceduresIssues(procedures_file) = {}
      /\ procedures = Procedures(procedures_file)
  BY <1>1 DEF FilesInvariant
<1>3. AllAgree' <=> Agrees(d)
  BY <1>1, <1>2 DEF AllAgree, Agrees, files
<1>4. RecordsLoad' <=> ResultsIssues(d) = {}
  BY <1>1, <1>2 DEF RecordsLoad, files
<1>5. issues = {} => IdentityIssues(d) = {} /\ MismatchIssues(metadata, Metadata(d)) = {}
                       /\ ResultsIssues(d) = {}
  BY BothEmpty
<1>6. issues # {} => ~(Agrees(d) /\ ResultsIssues(d) = {})
  BY <1>2 DEF Agrees, ??
<1>7. CASE Crash(d)
  BY <1>7, CrashKeepsFiles
<1>8. CASE Raise(d, issues)
  BY <1>1, <1>3, <1>4, <1>6, <1>8, RaiseKeepsFiles DEF Raise
<1>9. CASE /\ Proceed(d, issues, "json")
           /\ report' = Report(requirements, procedures, Cases(d), metadata, code)
  <2>1. AllAgree' /\ RecordsLoad'
    BY <1>2, <1>3, <1>4, <1>5, <1>9 DEF Proceed, Agrees
  <2>2. Verdict(report)'
    BY <1>1, <1>2, <1>9, <2>1 DEF Verdict, Report, files
  <2> QED BY <1>1, <1>9, <2>2 DEF Proceed, FilesInvariant, Exits, Verdicts
<1> QED BY <1>7, <1>8, <1>9 DEF TakeResults

LEMMA CheckKeepsFiles ==
  ASSUME OutcomeInvariant, FilesInvariant, CheckIdentity(c_document) \/ CheckRecords
  PROVE  FilesInvariant'
<1> SUFFICES ASSUME ~edited' PROVE FilesInvariant'
  BY DEF FilesInvariant
<1>1. UNCHANGED <<files, edited, report, c_document>>
  BY DEF CheckIdentity, CheckRecords
<1>2. UNCHANGED <<AllAgree, RecordsLoad, Matched, Verdict(report), Refusal(report)>>
  BY <1>1 DEF AllAgree, Agrees, RecordsLoad, Matched, Verdict, Refusal, files
<1>3. CASE CheckIdentity(c_document)
  <2>1. status' \in {"checking", "untraceable"} /\ (status' = "checking" <=> AllAgree)
    BY <1>3 DEF CheckIdentity, AllAgree, Agrees
  <2> QED BY <1>1, <1>2, <1>3, <2>1 DEF CheckIdentity, FilesInvariant, Exits, Verdicts
<1>4. CASE CheckRecords
  <2>1. AllAgree /\ (Verdict(report) \/ Refusal(report))
    BY <1>1, <1>4 DEF CheckRecords, OutcomeInvariant, FilesInvariant
  <2>2. status' \in {"traceable", "untraceable"}
        /\ (status' = "traceable" <=> RecordsLoad /\ Matched)
    BY <1>4, <2>1 DEF CheckRecords, AllAgree, Agrees, RecordsLoad, Matched
  <2> QED BY <1>1, <1>2, <1>4, <2>1, <2>2 DEF CheckRecords, FilesInvariant, Exits, Verdicts
<1> QED BY <1>3, <1>4

LEMMA FilesStep == OutcomeInvariant /\ FilesInvariant /\ [Next]_vars => FilesInvariant'
<1> SUFFICES ASSUME OutcomeInvariant, FilesInvariant, [Next]_vars PROVE FilesInvariant'
  OBVIOUS
<1>1. ASSUME NEW a \in Arguments, RunQualification(a) PROVE FilesInvariant'
  BY <1>1, RunKeepsFiles
<1>2. ASSUME NEW o \in Options, QualificationRunner(o) PROVE FilesInvariant'
  <2>1. CASE status' = "usage" /\ pc = "ended" /\ UNCHANGED pc
    BY <2>1 DEF FilesInvariant, Exits, Verdicts
  <2> QED BY <1>2, <2>1, RunKeepsFiles DEF QualificationRunner
<1>3. CASE ReadRequirements \/ ReadProcedures \/ LoadRequirements \/ LoadProcedures
  BY <1>3, ReadingsKeepFiles
<1>4. ASSUME NEW d \in ResultDocuments, NEW code \in ExitCodes, TakeResults(d, code)
      PROVE  FilesInvariant'
  BY <1>4, ResultsKeepFiles
<1>5. CASE CheckIdentity(c_document) \/ CheckRecords
  BY <1>5, CheckKeepsFiles
<1>6. CASE Kill
  BY <1>6 DEF Kill, FilesInvariant, Exits, Verdicts
<1>7. CASE Edit
  BY <1>7 DEF Edit, FilesInvariant
<1>8. CASE WriteJson \/ WriteMarkdown \/ UNCHANGED vars
  <2>1. UNCHANGED <<files, edited, report, c_document>>
    BY <1>8 DEF WriteJson, WriteMarkdown, vars
  <2>2. UNCHANGED <<Agrees(requirements_file), Agrees(procedures_file), AllAgree, RecordsLoad,
                    Matched, Verdict(report), Refusal(report)>>
    BY <2>1 DEF AllAgree, Agrees, RecordsLoad, Matched, Verdict, Refusal, files
  <2>3. CASE WriteJson
    BY <2>1, <2>2, <2>3 DEF WriteJson, OutcomeInvariant, FilesInvariant, Exits, Verdicts
  <2>4. CASE WriteMarkdown
    <3>1. ~edited => Verdict(report) \/ Refusal(report)
      BY <2>4 DEF WriteMarkdown, FilesInvariant
    <3>2. /\ status' \in Exits
          /\ status' \in Verdicts /\ Refusal(report) => Verdict(report)
      BY <2>4 DEF WriteMarkdown, ExitCode, Refusal, Exits, Verdicts
    <3> QED BY <2>1, <2>2, <2>4, <3>1, <3>2 DEF WriteMarkdown, FilesInvariant, Exits, Verdicts
  <2>5. CASE UNCHANGED vars
    BY <2>1, <2>2, <2>5 DEF vars, FilesInvariant, files, memory
  <2> QED BY <1>8, <2>3, <2>4, <2>5
<1> QED BY <1>1, <1>2, <1>3, <1>4, <1>5, <1>6, <1>7, <1>8 DEF Next, RunStep

LEMMA FilesAlways == Spec => [](OutcomeInvariant /\ FilesInvariant)
BY OutcomeInit, OutcomeStep, NextIsStep, FilesInit, FilesStep, PTL DEF Spec

\* A verdict on unedited files has their identity and exactly their records,
\* however a document names and spells them (qualification.py:318-560, 1000-1048).
THEOREM VerdictsAreAboutTheFiles == Spec => []VerdictIsAboutTheFiles
<1>1. ASSUME OutcomeInvariant, FilesInvariant PROVE VerdictIsAboutTheFiles
  <2> SUFFICES ASSUME status \in Verdicts, ~edited
               PROVE  /\ \A d \in {requirements_file, procedures_file, c_document} :
                           \A f \in IdentityFields : json_file.metadata[f] = d[f].value
                      /\ Ids(json_file.traceability) =
                           {RequirementId(raw) : raw \in RawRecords(requirements_file, RequirementsAt)}
                      /\ Ids(json_file.procedures) =
                           {ProcedureId(raw) : raw \in RawRecords(procedures_file, ProceduresAt)}
                      /\ Ids(json_file.cases) =
                           {CaseId(raw) : raw \in RawRecords(c_document, CasesAt)}
    BY DEF VerdictIsAboutTheFiles
  <2>1. Verdict(report) /\ json_file = report
    BY <1>1 DEF OutcomeInvariant, FilesInvariant, Exits
  <2>2. PICK code : json_file = Report(Requirements(requirements_file),
                                       Procedures(procedures_file), Cases(c_document),
                                       Metadata(requirements_file), code)
    BY <2>1 DEF Verdict
  <2>3. json_file.metadata = Metadata(requirements_file)
    BY <2>2 DEF Report
  <2>4. ASSUME NEW d \in {requirements_file, procedures_file, c_document},
               NEW f \in IdentityFields
        PROVE  json_file.metadata[f] = d[f].value
    <3>1. Metadata(d)[f] = Metadata(requirements_file)[f]
      BY <2>1, <2>4 DEF Verdict, AllAgree, Agrees, MismatchIssues
    <3>2. Metadata(d)[f] = d[f].value
      BY DEF Metadata
    <3> QED BY <2>3, <3>1, <3>2
  <2>5. Ids(json_file.traceability) =
          {RequirementId(raw) : raw \in RawRecords(requirements_file, RequirementsAt)}
    <3>1. ASSUME NEW x
          PROVE  x \in Ids(json_file.traceability)
                   <=> \E r \in Requirements(requirements_file) : x = r.id
      <4> DEFINE Row(r) ==
                   [id |-> r.id,
                    status |-> RequirementStatus(r, Procedures(procedures_file),
                                                 Cases(c_document)),
                    procedures |-> Ids(Linked(r, Procedures(procedures_file))),
                    cases |-> UNION {p.case_ids : p \in Linked(r, Procedures(procedures_file))}]
      <4>1. \A r : Row(r).id = r.id
        OBVIOUS
      <4>2. json_file.traceability = {Row(r) : r \in Requirements(requirements_file)}
        BY <2>2 DEF Report
      <4> HIDE DEF Row
      <4> QED BY <4>1, <4>2 DEF Ids
    <3>2. ASSUME NEW x
          PROVE  (\E r \in Requirements(requirements_file) : x = r.id)
                   <=> \E raw \in RawRecords(requirements_file, RequirementsAt) :
                         x = RequirementId(raw)
      <4>1. \A raw : RequirementOf(raw).id = RequirementId(raw)
        BY DEF RequirementOf
      <4> QED BY <4>1 DEF Requirements
    <3> QED BY <3>1, <3>2
  <2>6. Ids(json_file.procedures) =
          {ProcedureId(raw) : raw \in RawRecords(procedures_file, ProceduresAt)}
    <3>1. ASSUME NEW x
          PROVE  x \in Ids(json_file.procedures)
                   <=> \E p \in Procedures(procedures_file) : x = p.id
      <4> DEFINE Row(p) == [id |-> p.id, status |-> ProcedureStatus(p, Cases(c_document))]
      <4>1. \A p : Row(p).id = p.id
        OBVIOUS
      <4>2. json_file.procedures = {Row(p) : p \in Procedures(procedures_file)}
        BY <2>2 DEF Report
      <4> HIDE DEF Row
      <4> QED BY <4>1, <4>2 DEF Ids
    <3>2. ASSUME NEW x
          PROVE  (\E p \in Procedures(procedures_file) : x = p.id)
                   <=> \E raw \in RawRecords(procedures_file, ProceduresAt) : x = ProcedureId(raw)
      <4>1. \A raw : ProcedureOf(raw).id = ProcedureId(raw)
        BY DEF ProcedureOf
      <4> QED BY <4>1 DEF Procedures
    <3> QED BY <3>1, <3>2
  <2>7. Ids(json_file.cases) = {CaseId(raw) : raw \in RawRecords(c_document, CasesAt)}
    <3>1. ASSUME NEW x
          PROVE  x \in Ids(json_file.cases) <=> \E c \in Cases(c_document) : x = c.id
      BY <2>2 DEF Report, Ids
    <3>2. ASSUME NEW x
          PROVE  (\E c \in Cases(c_document) : x = c.id)
                   <=> \E raw \in RawRecords(c_document, CasesAt) : x = CaseId(raw)
      <4>1. \A raw : CaseOf(raw).id = CaseId(raw)
        BY DEF CaseOf
      <4> QED BY <4>1 DEF Cases
    <3> QED BY <3>1, <3>2
  <2> QED BY <2>4, <2>5, <2>6, <2>7
<1> QED BY <1>1, FilesAlways, PTL

\* The inductive invariant: whatever is in the files is one of the documents that
\* the specification lets them hold.
Documents ==
  IsDocument(requirements_file) /\ IsDocument(procedures_file) /\ IsDocument(c_document)

\* Every step leaves documents in the files.
LEMMA DocumentsStep == Documents /\ [Next]_vars => Documents'
<1> SUFFICES ASSUME Documents, [Next]_vars PROVE Documents'
  OBVIOUS
<1>0. IsDocument(Unreadable)
  BY DEF IsDocument
<1>1. CASE UNCHANGED <<files, c_document>>
  BY <1>1 DEF Documents, files
<1>2. CASE UNCHANGED files /\ c_document' \in {Unreadable} \cup ResultDocuments
  BY <1>0, <1>2, DocumentAssumption DEF Documents, files
<1>3. CASE Edit
  <2>1. /\ requirements_file' \in RequirementFiles \/ requirements_file' = requirements_file
        /\ procedures_file' \in ProcedureFiles \/ procedures_file' = procedures_file
        /\ c_document' = c_document
    BY <1>3 DEF Edit
  <2> QED BY <2>1, DocumentAssumption DEF Documents
<1>4. ASSUME NEW a, RunQualification(a) PROVE Documents'
  BY <1>2, <1>4 DEF RunQualification
<1>5. ASSUME NEW o, QualificationRunner(o) PROVE Documents'
  BY <1>1, <1>4, <1>5 DEF QualificationRunner
<1>6. ASSUME NEW d \in ResultDocuments, NEW code, TakeResults(d, code) PROVE Documents'
  BY <1>2, <1>6 DEF TakeResults
<1>7. CASE RunStep
  BY <1>1, <1>7 DEF RunStep, ReadRequirements, ReadProcedures, LoadRequirements,
     LoadProcedures, WriteJson, WriteMarkdown
<1>8. CASE CheckIdentity(c_document) \/ CheckRecords \/ Kill \/ UNCHANGED vars
  BY <1>1, <1>8 DEF CheckIdentity, CheckRecords, Kill, vars
<1> QED BY <1>3, <1>4, <1>5, <1>6, <1>7, <1>8 DEF Next

\* The records of a document without an issue are numbered from 1.
LEMMA SequenceThere ==
  ASSUME NEW d, IsDocument(d), d # Undecodable, IdentityIssues(d) = {},
         NEW keys \in {RequirementsAt, ProceduresAt, CasesAt}, ArrayIssues(d, keys) = {}
  PROVE  \E n \in Nat : DOMAIN ArrayAt(d, keys).value = 1 .. n
<1>1. JsonIssues(d) = {} /\ MetadataIssues(d) = {}
  BY BothEmpty DEF IdentityIssues
<1>2. d # Unreadable /\ d # NotAnObject
  BY <1>1 DEF JsonIssues, IssueIf, MetadataIssues
<1>3. ArrayAt(d, keys).type = "list"
  BY NoIssue DEF ArrayIssues
<1>4. ArrayAt(d, keys).value \in Seq(Items(ArrayAt(d, keys)))
  BY <1>2, <1>3 DEF IsDocument
<1> QED BY <1>4

\* load_requirements takes no id twice (qualification.py:342-350).
LEMMA DistinctRequirements ==
  ASSUME NEW d, IsDocument(d), d # Undecodable, IdentityIssues(d) = {},
         RequirementsIssues(d) = {}
  PROVE  Distinct(ArrayAt(d, RequirementsAt).value, RequirementId)
<1> DEFINE raws == ArrayAt(d, RequirementsAt).value
           found == RecordIssues(raws, RequirementShape, RequirementId,
                                 "DUPLICATE_REQUIREMENT_ID", RequirementContent)
           empty == EmptyIssues(raws, "EMPTY_REQUIREMENTS")
           seen(k) == {RequirementId(raws[j]) :
                         j \in {i \in 1 .. k - 1 : RequirementShape(raws[i]) = {}}}
<1>1. ((IdentityIssues(d) ?? ArrayIssues(d, RequirementsAt)) ?? (found \cup empty)) = {}
  BY DEF RequirementsIssues
<1>2. ArrayIssues(d, RequirementsAt) = {} /\ found \cup empty = {}
  <2> HIDE DEF found, empty
  <2> QED BY <1>1, BothEmpty
<1>3. found = {}
  BY <1>2
<1>4. PICK n \in Nat : DOMAIN raws = 1 .. n
  BY <1>2, SequenceThere
<1>5. \A k \in 1 .. n : ((RequirementShape(raws[k])
                            ?? IssueIf(RequirementId(raws[k]) \in seen(k),
                                       "DUPLICATE_REQUIREMENT_ID", RequirementId(raws[k])))
                            ?? RequirementContent(raws[k])) = {}
  BY <1>3, <1>4 DEF RecordIssues
<1> HIDE DEF raws
<1>6. ASSUME NEW k \in 1 .. n
      PROVE  RequirementShape(raws[k]) = {} /\ RequirementId(raws[k]) \notin seen(k)
  <2> HIDE DEF seen
  <2>1. /\ RequirementShape(raws[k]) = {}
        /\ IssueIf(RequirementId(raws[k]) \in seen(k), "DUPLICATE_REQUIREMENT_ID",
                   RequirementId(raws[k])) = {}
    BY <1>5, BothEmpty
  <2> QED BY <2>1 DEF IssueIf
<1>7. ASSUME NEW j \in 1 .. n, NEW k \in 1 .. n, j < k
      PROVE  RequirementId(raws[j]) # RequirementId(raws[k])
  <2>1. j \in 1 .. k - 1
    BY <1>7
  <2>2. RequirementId(raws[j]) \in seen(k)
    BY <1>6, <2>1
  <2> QED BY <1>6, <2>2
<1>8. \A j, k \in 1 .. n : RequirementId(raws[j]) = RequirementId(raws[k]) => j = k
  BY <1>7
<1> QED BY <1>4, <1>8 DEF Distinct, raws

\* load_procedures takes no id twice (qualification.py:449-457).
LEMMA DistinctProcedures ==
  ASSUME NEW d, IsDocument(d), d # Undecodable, IdentityIssues(d) = {},
         ProceduresIssues(d) = {}
  PROVE  Distinct(ArrayAt(d, ProceduresAt).value, ProcedureId)
<1> DEFINE raws == ArrayAt(d, ProceduresAt).value
           found == RecordIssues(raws, ProcedureShape, ProcedureId,
                                 "DUPLICATE_PROCEDURE_ID", ProcedureContent)
           empty == EmptyIssues(raws, "EMPTY_PROCEDURES")
           seen(k) == {ProcedureId(raws[j]) :
                         j \in {i \in 1 .. k - 1 : ProcedureShape(raws[i]) = {}}}
<1>1. ((IdentityIssues(d) ?? ArrayIssues(d, ProceduresAt)) ?? (found \cup empty)) = {}
  BY DEF ProceduresIssues
<1>2. ArrayIssues(d, ProceduresAt) = {} /\ found \cup empty = {}
  <2> HIDE DEF found, empty
  <2> QED BY <1>1, BothEmpty
<1>3. found = {}
  BY <1>2
<1>4. PICK n \in Nat : DOMAIN raws = 1 .. n
  BY <1>2, SequenceThere
<1>5. \A k \in 1 .. n : ((ProcedureShape(raws[k])
                            ?? IssueIf(ProcedureId(raws[k]) \in seen(k),
                                       "DUPLICATE_PROCEDURE_ID", ProcedureId(raws[k])))
                            ?? ProcedureContent(raws[k])) = {}
  BY <1>3, <1>4 DEF RecordIssues
<1> HIDE DEF raws
<1>6. ASSUME NEW k \in 1 .. n
      PROVE  ProcedureShape(raws[k]) = {} /\ ProcedureId(raws[k]) \notin seen(k)
  <2> HIDE DEF seen
  <2>1. /\ ProcedureShape(raws[k]) = {}
        /\ IssueIf(ProcedureId(raws[k]) \in seen(k), "DUPLICATE_PROCEDURE_ID",
                   ProcedureId(raws[k])) = {}
    BY <1>5, BothEmpty
  <2> QED BY <2>1 DEF IssueIf
<1>7. ASSUME NEW j \in 1 .. n, NEW k \in 1 .. n, j < k
      PROVE  ProcedureId(raws[j]) # ProcedureId(raws[k])
  <2>1. j \in 1 .. k - 1
    BY <1>7
  <2>2. ProcedureId(raws[j]) \in seen(k)
    BY <1>6, <2>1
  <2> QED BY <1>6, <2>2
<1>8. \A j, k \in 1 .. n : ProcedureId(raws[j]) = ProcedureId(raws[k]) => j = k
  BY <1>7
<1> QED BY <1>4, <1>8 DEF Distinct, raws

\* parse_c_results takes no id twice (qualification.py:538-546).
LEMMA DistinctCases ==
  ASSUME NEW d, IsDocument(d), d # Undecodable, IdentityIssues(d) = {},
         ResultsIssues(d) = {}
  PROVE  Distinct(ArrayAt(d, CasesAt).value, CaseId)
<1> DEFINE raws == ArrayAt(d, CasesAt).value
           found == RecordIssues(raws, CaseShape, CaseId,
                                 "DUPLICATE_C_CASE_ID", CaseContent)
           empty == EmptyIssues(raws, "EMPTY_C_RESULTS")
           seen(k) == {CaseId(raws[j]) :
                         j \in {i \in 1 .. k - 1 : CaseShape(raws[i]) = {}}}
<1>1. (ArrayIssues(d, CasesAt) ?? (found \cup empty)) = {}
  BY DEF ResultsIssues
<1>2. ArrayIssues(d, CasesAt) = {} /\ found \cup empty = {}
  <2> HIDE DEF found, empty
  <2> QED BY <1>1, BothEmpty
<1>3. found = {}
  BY <1>2
<1>4. PICK n \in Nat : DOMAIN raws = 1 .. n
  BY <1>2, SequenceThere
<1>5. \A k \in 1 .. n : ((CaseShape(raws[k])
                            ?? IssueIf(CaseId(raws[k]) \in seen(k),
                                       "DUPLICATE_C_CASE_ID", CaseId(raws[k])))
                            ?? CaseContent(raws[k])) = {}
  BY <1>3, <1>4 DEF RecordIssues
<1> HIDE DEF raws
<1>6. ASSUME NEW k \in 1 .. n
      PROVE  CaseShape(raws[k]) = {} /\ CaseId(raws[k]) \notin seen(k)
  <2> HIDE DEF seen
  <2>1. /\ CaseShape(raws[k]) = {}
        /\ IssueIf(CaseId(raws[k]) \in seen(k), "DUPLICATE_C_CASE_ID",
                   CaseId(raws[k])) = {}
    BY <1>5, BothEmpty
  <2> QED BY <2>1 DEF IssueIf
<1>7. ASSUME NEW j \in 1 .. n, NEW k \in 1 .. n, j < k
      PROVE  CaseId(raws[j]) # CaseId(raws[k])
  <2>1. j \in 1 .. k - 1
    BY <1>7
  <2>2. CaseId(raws[j]) \in seen(k)
    BY <1>6, <2>1
  <2> QED BY <1>6, <2>2
<1>8. \A j, k \in 1 .. n : CaseId(raws[j]) = CaseId(raws[k]) => j = k
  BY <1>7
<1> QED BY <1>4, <1>8 DEF Distinct, raws

\* Rows made one from each record, with an id that tells the records apart, are
\* told apart by their ids.
LEMMA OneRowEach ==
  ASSUME NEW K, NEW id, NEW row, NEW rows, rows = {row[k] : k \in K},
         \A k \in K : row[k].id = id[k],
         \A j, k \in K : id[j] = id[k] => j = k
  PROVE  \A a, b \in rows : a.id = b.id => a = b
OBVIOUS

\* Every record of unedited files has a row of its own in a verdict, for all
\* documents (qualification.py:318-560, 689-811).
THEOREM RecordsKeepTheirRows == Spec => []RecordsHaveTheirRows
<1>1. ASSUME OutcomeInvariant, FilesInvariant, Documents PROVE RecordsHaveTheirRows
  <2> DEFINE R == Requirements(requirements_file)
             P == Procedures(procedures_file)
             C == Cases(c_document)
             rs == ArrayAt(requirements_file, RequirementsAt).value
             ps == ArrayAt(procedures_file, ProceduresAt).value
             cs == ArrayAt(c_document, CasesAt).value
  <2> SUFFICES ASSUME status \in Verdicts, ~edited
               PROVE  /\ Distinct(rs, RequirementId) /\ Distinct(ps, ProcedureId)
                      /\ Distinct(cs, CaseId)
                      /\ \A rows \in {json_file.traceability, json_file.procedures,
                                      json_file.cases} :
                           \A a, b \in rows : a.id = b.id => a = b
    BY DEF RecordsHaveTheirRows
  <2>1. Verdict(report) /\ json_file = report
    BY <1>1 DEF OutcomeInvariant, FilesInvariant, Exits
  <2>2. PICK code : json_file = Report(R, P, C, Metadata(requirements_file), code)
    BY <2>1 DEF Verdict
  <2>3. /\ RequirementsIssues(requirements_file) = {} /\ ProceduresIssues(procedures_file) = {}
        /\ ResultsIssues(c_document) = {}
        /\ \A e \in {requirements_file, procedures_file, c_document} :
             e # Undecodable /\ IdentityIssues(e) = {}
    BY <2>1 DEF Verdict, RecordsLoad, AllAgree, Agrees
  <2>4. Distinct(rs, RequirementId) /\ Distinct(ps, ProcedureId) /\ Distinct(cs, CaseId)
    BY <1>1, <2>3, DistinctRequirements, DistinctProcedures, DistinctCases DEF Documents
  <2>5. /\ RawRecords(requirements_file, RequirementsAt) = {rs[k] : k \in DOMAIN rs}
        /\ RawRecords(procedures_file, ProceduresAt) = {ps[k] : k \in DOMAIN ps}
        /\ RawRecords(c_document, CasesAt) = {cs[k] : k \in DOMAIN cs}
    BY <2>3, BothEmpty, ListThere DEF RequirementsIssues, ProceduresIssues, ResultsIssues
  <2> HIDE DEF rs, ps, cs
  <2>6. \A a, b \in json_file.traceability : a.id = b.id => a = b
    <3> DEFINE RowOf(r) == [id |-> r.id, status |-> RequirementStatus(r, P, C),
                            procedures |-> Ids(Linked(r, P)),
                            cases |-> UNION {p.case_ids : p \in Linked(r, P)}]
               row == [k \in DOMAIN rs |-> RowOf(RequirementOf(rs[k]))]
               id == [k \in DOMAIN rs |-> RequirementId(rs[k])]
    <3>1. json_file.traceability = {RowOf(r) : r \in R}
      BY <2>2 DEF Report
    <3>2. \A r : RowOf(r).id = r.id
      OBVIOUS
    <3> HIDE DEF RowOf
    <3>3. json_file.traceability = {row[k] : k \in DOMAIN rs}
      BY <2>5, <3>1 DEF Requirements
    <3>4. \A k \in DOMAIN rs : row[k].id = id[k]
      BY <3>2 DEF RequirementOf
    <3>5. \A j, k \in DOMAIN rs : id[j] = id[k] => j = k
      BY <2>4 DEF Distinct
    <3> HIDE DEF row, id
    <3> QED BY <3>3, <3>4, <3>5, OneRowEach
  <2>7. \A a, b \in json_file.procedures : a.id = b.id => a = b
    <3> DEFINE RowOf(p) == [id |-> p.id, status |-> ProcedureStatus(p, C)]
               row == [k \in DOMAIN ps |-> RowOf(ProcedureOf(ps[k]))]
               id == [k \in DOMAIN ps |-> ProcedureId(ps[k])]
    <3>1. json_file.procedures = {RowOf(p) : p \in P}
      BY <2>2 DEF Report
    <3>2. \A p : RowOf(p).id = p.id
      OBVIOUS
    <3> HIDE DEF RowOf
    <3>3. json_file.procedures = {row[k] : k \in DOMAIN ps}
      BY <2>5, <3>1 DEF Procedures
    <3>4. \A k \in DOMAIN ps : row[k].id = id[k]
      BY <3>2 DEF ProcedureOf
    <3>5. \A j, k \in DOMAIN ps : id[j] = id[k] => j = k
      BY <2>4 DEF Distinct
    <3> HIDE DEF row, id
    <3> QED BY <3>3, <3>4, <3>5, OneRowEach
  <2>8. \A a, b \in json_file.cases : a.id = b.id => a = b
    <3> DEFINE row == [k \in DOMAIN cs |-> CaseOf(cs[k])]
               id == [k \in DOMAIN cs |-> CaseId(cs[k])]
    <3>1. json_file.cases = C
      BY <2>2 DEF Report
    <3>2. json_file.cases = {row[k] : k \in DOMAIN cs}
      BY <2>5, <3>1 DEF Cases
    <3>3. \A k \in DOMAIN cs : row[k].id = id[k]
      BY DEF CaseOf
    <3>4. \A j, k \in DOMAIN cs : id[j] = id[k] => j = k
      BY <2>4 DEF Distinct
    <3> HIDE DEF row, id
    <3> QED BY <3>2, <3>3, <3>4, OneRowEach
  <2> QED BY <2>4, <2>6, <2>7, <2>8
<1>2. Init => Documents
  BY DocumentAssumption DEF Init, Documents, IsDocument
<1>3. Spec => []Documents
  BY <1>2, DocumentsStep, PTL DEF Spec
<1> QED BY <1>1, <1>3, FilesAlways, PTL

\* Issues made of records with one code have that code.
LEMMA IssuesOfRecords ==
  ASSUME NEW code, NEW records
  PROVE  \A i \in {Issue(code, c.id, "") : c \in records} : i.code = code
<1> SUFFICES ASSUME NEW i, NEW c \in records, i = Issue(code, c.id, "") PROVE i.code = code
  OBVIOUS
<1> QED BY DEF Issue

\* The codes of build_report's other issues are not those of traceability_issues.
LEMMA CodesApart ==
  ASSUME NEW R, NEW P, NEW C, NEW code
  PROVE  TraceabilityIssues(R, P, C) = {}
           <=> \A issue \in ReportIssues(R, P, C, code) : issue.code \notin TraceabilityCodes
<1>0. \A c, subject, about : Issue(c, subject, about).code = c
  BY DEF Issue
<1>1. \A issue \in TraceabilityIssues(R, P, C) : issue.code \in TraceabilityCodes
  <2>1. \A issue \in UnknownRequirements(R, P) : issue.code = "UNKNOWN_REQUIREMENT"
    BY <1>0 DEF UnknownRequirements
  <2>2. \A issue \in MethodMismatches(R, P) : issue.code = "VERIFICATION_METHOD_MISMATCH"
    BY <1>0 DEF MethodMismatches
  <2>3. \A issue \in MissingCases(P, C) : issue.code = "MISSING_C_CASE"
    BY <1>0 DEF MissingCases
  <2>4. \A issue \in UnmappedRequirements(R, P) : issue.code = "UNMAPPED_REQUIREMENT"
    BY <1>0 DEF UnmappedRequirements
  <2>5. \A issue \in UnknownCases(P, C) : issue.code = "UNKNOWN_C_CASE"
    BY <1>0 DEF UnknownCases
  <2> QED BY <2>1, <2>2, <2>3, <2>4, <2>5 DEF TraceabilityIssues, TraceabilityCodes
<1>2. ASSUME NEW issue \in ReportIssues(R, P, C, code), issue \notin TraceabilityIssues(R, P, C)
      PROVE  issue.code \notin TraceabilityCodes
  <2>1. issue.code \in {"CASE_FAILED", "CASE_INCOMPLETE", "BINARY_EXIT_NONZERO"}
    <3>1. \A i \in {Issue("CASE_FAILED", c.id, "") : c \in {d \in C : d.status = "FAIL"}} :
            i.code = "CASE_FAILED"
      BY IssuesOfRecords
    <3>2. \A i \in {Issue("CASE_INCOMPLETE", c.id, "") : c \in {d \in C : d.status = "INCOMPLETE"}} :
            i.code = "CASE_INCOMPLETE"
      BY IssuesOfRecords
    <3>3. \A i \in (IF code # 0 THEN {Issue("BINARY_EXIT_NONZERO", "", "")} ELSE {}) :
            i.code = "BINARY_EXIT_NONZERO"
      BY <1>0
    <3> QED BY <1>2, <3>1, <3>2, <3>3 DEF ReportIssues
  <2> QED BY <2>1 DEF TraceabilityCodes
<1> QED BY <1>1, <1>2 DEF ReportIssues

\* Runner and checker never disagree about unedited files
\* (qualification.py:959-1079).
THEOREM RunnerAndCheckerAgree == Spec => []ToolsAgree
<1>1. ASSUME OutcomeInvariant, FilesInvariant PROVE ToolsAgree
  <2> SUFFICES ASSUME status \in {"traceable", "untraceable"}, ~edited
               PROVE  status = "traceable"
                        <=> /\ report.answered
                            /\ \A issue \in report.issues : issue.code \notin TraceabilityCodes
    BY DEF ToolsAgree
  <2>1. /\ Verdict(report) \/ Refusal(report)
        /\ status = "traceable" <=> AllAgree /\ RecordsLoad /\ Matched
    BY <1>1 DEF FilesInvariant
  <2>2. CASE Refusal(report)
    BY <2>1, <2>2 DEF Refusal
  <2>3. CASE Verdict(report)
    <3>1. PICK code : report = Report(Requirements(requirements_file),
                                      Procedures(procedures_file), Cases(c_document),
                                      Metadata(requirements_file), code)
      BY <2>3 DEF Verdict
    <3>2. report.issues = ReportIssues(Requirements(requirements_file),
                                       Procedures(procedures_file), Cases(c_document), code)
      BY <3>1 DEF Report
    <3>3. Matched <=> \A issue \in report.issues : issue.code \notin TraceabilityCodes
      BY <3>2, CodesApart DEF Matched
    <3> QED BY <2>1, <2>3, <3>3 DEF Verdict
  <2> QED BY <2>1, <2>2, <2>3
<1> QED BY <1>1, FilesAlways, PTL

-------------------------------------------------------------------------------
(* The script                                                              *)

\* A report that says HOST_PASS says it of the captured results.
Earned(r) ==
  r.result = "HOST_PASS"
    => /\ qualification_exit_code = 0
       /\ r.cases = Cases(c_results)
       /\ edited \/ Ids(r.traceability) = Ids(Requirements(requirements_file))

\* The inductive invariant: the tools run only inside their two stages, the
\* results and the status at hand are those of this invocation or the status is
\* that of a capture that failed, and from there on every pass is earned.
ScriptInvariant ==
  /\ stage \notin {"reconcile", "check"} => pc = "ended"
  /\ stage = "check" => pc \in {"check", "ended"}
  /\ stage \in {"run", "reconcile", "check", "passed"}
       => /\ qualification_exit_code # None
          /\ \/ qualification_exit_code = 1
             \/ /\ captured = [document |-> c_results, exit_code |-> qualification_exit_code]
                /\ captured # None
  /\ stage = "reconcile"
       => /\ pc \in {"requirements", "procedures", "load_requirements", "load_procedures",
                     "results"}
               => source.exit_code = qualification_exit_code
          /\ pc \in {"load_procedures", "results"}
               => edited \/ requirements = Requirements(requirements_file)
          /\ pc \in {"json", "markdown"} \/ status \in Exits => Earned(report)
  /\ stage \in {"check", "passed"}
       => /\ Earned(json_file) /\ json_file.result = "HOST_PASS"
          /\ markdown_file = Rendered(json_file)

LEMMA ScriptInit == VInit => ScriptInvariant
BY DEF VInit, Init, ScriptInvariant

\* What a failure report says is no pass.
LEMMA FailureIsEarned == ASSUME NEW m, NEW issues PROVE Earned(FailureReport(m, issues))
BY DEF Earned, FailureReport

\* The table of a report has a row for every requirement.
LEMMA RowsOfRequirements ==
  ASSUME NEW R, NEW P, NEW C, NEW m, NEW code
  PROVE  Ids(Report(R, P, C, m, code).traceability) = Ids(R)
<1> DEFINE Row(r) == [id |-> r.id, status |-> RequirementStatus(r, P, C),
                      procedures |-> Ids(Linked(r, P)),
                      cases |-> UNION {p.case_ids : p \in Linked(r, P)}]
<1>1. \A r : Row(r).id = r.id
  OBVIOUS
<1>2. Report(R, P, C, m, code).traceability = {Row(r) : r \in R}
  BY DEF Report
<1> HIDE DEF Row
<1> QED BY <1>1, <1>2 DEF Ids

\* The stages before the tools are started.
LEMMA CaptureKeepsScript ==
  ASSUME ScriptInvariant, Prepare \/ OpenResults \/ OpenFails \/ Execute
  PROVE  ScriptInvariant'
<1>1. CASE Prepare
  BY <1>1 DEF Prepare, Fails, Ended, vars, ScriptInvariant
<1>2. CASE OpenResults
  BY <1>2 DEF OpenResults, vars, ScriptInvariant
<1>3. CASE OpenFails
  BY <1>3, NoneAssumption DEF OpenFails, vars, ScriptInvariant
<1>4. CASE Execute
  <2>1. /\ qualification_exit_code' # None
        /\ captured' = [document |-> c_results, exit_code |-> qualification_exit_code]'
        /\ captured' # None
    BY <1>4, NoneAssumption DEF Execute
  <2> QED BY <1>4, <2>1 DEF Execute, vars, ScriptInvariant
<1> QED BY <1>1, <1>2, <1>3, <1>4

\* The runner's start hands the status on.
LEMMA StartKeepsScript ==
  ASSUME OutcomeInvariant, ScriptInvariant, StartRunner PROVE ScriptInvariant'
<1>1. /\ stage = "run" /\ stage' = "reconcile" /\ QualificationRunner(RunnerOptions)
      /\ UNCHANGED <<c_results, qualification_exit_code, captured>>
  BY DEF StartRunner
<1>2. qualification_exit_code # None
  BY <1>1 DEF ScriptInvariant
<1> DEFINE a == [RunnerOptions EXCEPT !.exit_code = IF @ = None THEN 0 ELSE @]
<1>3. a.exit_code = qualification_exit_code
  BY <1>2 DEF RunnerOptions
<1> HIDE DEF a
<1>4. CASE RunQualification(a) /\ pc' = "requirements"
  <2>1. source'.exit_code = qualification_exit_code /\ status' = "running"
    BY <1>3, <1>4 DEF RunQualification
  <2> QED BY <1>1, <1>4, <2>1 DEF ScriptInvariant, Exits, Verdicts
<1>5. CASE RunQualification(a) /\ pc' = "json"
  <2>1. report' = FailureReport(None, ArgumentIssues(a)) /\ status' = "running"
    BY <1>5 DEF RunQualification
  <2>2. Earned(report)'
    BY <2>1 DEF Earned, FailureReport
  <2> QED BY <1>1, <1>5, <2>1, <2>2 DEF ScriptInvariant, Exits, Verdicts
<1>6. CASE status' = "usage" /\ pc = "ended" /\ UNCHANGED pc
  BY <1>1, <1>6 DEF ScriptInvariant, Exits, Verdicts
<1>7. (RunQualification(a) /\ pc' \in {"requirements", "json"})
        \/ (status' = "usage" /\ pc = "ended" /\ UNCHANGED pc)
  BY <1>1 DEF QualificationRunner, RunQualification, a
<1> QED BY <1>4, <1>5, <1>6, <1>7

\* The runner at work makes only reports that are earned.
LEMMA RunnerKeepsScript ==
  ASSUME OutcomeInvariant, ScriptInvariant, RunnerStep PROVE ScriptInvariant'
<1>1. stage = "reconcile" /\ UNCHANGED script /\ stage' = "reconcile"
  BY DEF RunnerStep, script
<1>2. ASSUME UNCHANGED <<files, edited>> PROVE \A r : Earned(r) <=> Earned(r)'
  BY <1>1, <1>2 DEF Earned, files, script
<1>3. ASSUME NEW d, Crash(d) PROVE ScriptInvariant'
  BY <1>1, <1>3 DEF Crash, ScriptInvariant, script, Exits, Verdicts
<1>4. ASSUME status = "running", NEW d, NEW issues, Raise(d, issues) PROVE ScriptInvariant'
  <2>1. Earned(report)'
    BY <1>4 DEF Raise, Earned, FailureReport
  <2> QED BY <1>1, <1>4, <2>1 DEF Raise, ScriptInvariant, script, Exits, Verdicts
<1>5. CASE ReadRequirements \/ ReadProcedures
  <2>1. status = "running"
    BY <1>5 DEF ReadRequirements, ReadProcedures, OutcomeInvariant
  <2>2. CASE pc' \in {"procedures", "load_requirements"} /\ UNCHANGED <<source, status>>
    BY <1>1, <1>5, <2>1, <2>2
       DEF ReadRequirements, ReadProcedures, ScriptInvariant, script, Exits, Verdicts
  <2> QED BY <1>3, <1>4, <1>5, <2>1, <2>2 DEF ReadRequirements, ReadProcedures, Proceed
<1>6. CASE LoadRequirements
  <2>1. status = "running" /\ UNCHANGED files /\ pc = "load_requirements"
    BY <1>6 DEF LoadRequirements, OutcomeInvariant
  <2>2. CASE /\ pc' = "load_procedures" /\ UNCHANGED <<source, status>>
             /\ requirements' = Requirements(requirements_file)
    BY <1>1, <2>1, <2>2 DEF ScriptInvariant, script, files, Exits, Verdicts
  <2> QED BY <1>3, <1>4, <1>6, <2>1, <2>2 DEF LoadRequirements, Proceed
<1>7. CASE LoadProcedures
  <2>1. status = "running" /\ UNCHANGED <<files, edited>> /\ pc = "load_procedures"
    BY <1>7 DEF LoadProcedures, OutcomeInvariant
  <2>2. CASE pc' = "results" /\ UNCHANGED <<source, status, requirements>>
    BY <1>1, <2>1, <2>2 DEF ScriptInvariant, script, files, Exits, Verdicts
  <2> QED BY <1>3, <1>4, <1>7, <2>1, <2>2 DEF LoadProcedures, Proceed
<1>8. CASE TakeResults(c_results, source.exit_code)
  <2>1. status = "running" /\ UNCHANGED <<files, edited>> /\ pc = "results"
    BY <1>8 DEF TakeResults, OutcomeInvariant
  <2>2. CASE /\ pc' = "json" /\ UNCHANGED <<source, status>>
             /\ report' = Report(requirements, procedures, Cases(c_results), metadata,
                                 source.exit_code)
    <3>1. source.exit_code = qualification_exit_code
          /\ (edited \/ requirements = Requirements(requirements_file))
      BY <1>1, <2>1 DEF ScriptInvariant
    <3>2. report'.cases = Cases(c_results)
      BY <2>2 DEF Report
    <3>3. Ids(report'.traceability) = Ids(requirements)
      BY <2>2, RowsOfRequirements
    <3>4. report'.result = "HOST_PASS" => qualification_exit_code = 0
      BY <2>2, <3>1, NoIssueMeans DEF Report
    <3>5. Earned(report')
      BY <3>1, <3>2, <3>3, <3>4 DEF Earned
    <3>6. Earned(report)'
      BY <1>1, <2>1, <3>5 DEF Earned, files, script
    <3> QED BY <1>1, <2>1, <2>2, <3>6 DEF ScriptInvariant, script, Exits, Verdicts
  <2> QED BY <1>3, <1>4, <1>8, <2>1, <2>2 DEF TakeResults, Proceed
<1>9. CASE WriteJson \/ WriteMarkdown
  <2>1. UNCHANGED <<files, edited, report>> /\ pc \in {"json", "markdown"}
        /\ pc' \in {"markdown", "ended"}
    BY <1>9 DEF WriteJson, WriteMarkdown
  <2>2. Earned(report)'
    BY <1>1, <2>1 DEF ScriptInvariant, Earned, files, script
  <2> QED BY <1>1, <2>1, <2>2 DEF ScriptInvariant, script
<1> QED BY <1>5, <1>6, <1>7, <1>8, <1>9 DEF RunnerStep, RunStep

\* The stages after the runner: a pass is handed on from report to line.
LEMMA CheckKeepsScript ==
  ASSUME OutcomeInvariant, ScriptInvariant, StartCheck \/ CheckStep \/ Pass \/ Fail
  PROVE  ScriptInvariant'
<1>1. CASE StartCheck
  <2>1. json_file = report /\ markdown_file = Rendered(report) /\ json_file.result = "HOST_PASS"
    BY <1>1 DEF StartCheck, OutcomeInvariant, Exits, Verdicts
  <2>2. Earned(json_file) /\ UNCHANGED <<files, edited, outputs>>
    BY <1>1, <2>1 DEF StartCheck, CheckIdentity, ScriptInvariant, Exits, Verdicts
  <2>3. Earned(json_file)'
    BY <1>1, <2>2 DEF StartCheck, Earned, files, outputs
  <2>4. pc' \in {"check", "ended"}
    BY <1>1 DEF StartCheck, CheckIdentity
  <2> QED BY <1>1, <2>1, <2>2, <2>3, <2>4 DEF StartCheck, ScriptInvariant, outputs
<1>2. CASE CheckStep
  <2>1. UNCHANGED <<files, edited, outputs, script>> /\ stage = "check" /\ pc' = "ended"
    BY <1>2 DEF CheckStep, CheckRecords
  <2> QED BY <2>1 DEF ScriptInvariant, Earned, files, outputs, script
<1>3. CASE Pass
  BY <1>3 DEF Pass, ScriptInvariant, Earned, vars, files, outputs
<1>4. CASE Fail
  BY <1>4 DEF Fail, Fails, vars, ScriptInvariant
<1> QED BY <1>1, <1>2, <1>3, <1>4

LEMMA ScriptStep ==
  OutcomeInvariant /\ ScriptInvariant /\ [VNext]_scriptVars => ScriptInvariant'
<1> SUFFICES ASSUME OutcomeInvariant, ScriptInvariant, [VNext]_scriptVars PROVE ScriptInvariant'
  OBVIOUS
<1>1. CASE KillTool
  <2>1. stage \in {"reconcile", "check"} /\ UNCHANGED <<files, edited, script>>
        /\ pc' = "ended" /\ status' = "killed"
    BY <1>1 DEF KillTool, Kill, ScriptInvariant
  <2>2. stage = "check" => UNCHANGED outputs
    BY <1>1 DEF KillTool, Kill, ScriptInvariant, outputs
  <2> QED BY <2>1, <2>2 DEF ScriptInvariant, Earned, files, outputs, script, Exits, Verdicts
<1>2. CASE KillScript
  <2>1. stage' = "failed" /\ pc' = "ended"
    BY <1>2 DEF KillScript, Kill, Fails, vars
  <2> QED BY <2>1 DEF ScriptInvariant
<1>3. CASE Edit /\ UNCHANGED script
  BY <1>3 DEF Edit, ScriptInvariant, Earned, memory, outputs, script
<1>4. CASE UNCHANGED scriptVars
  BY <1>4 DEF scriptVars, vars, script, files, memory, outputs, ScriptInvariant, Earned
<1> QED
  BY <1>1, <1>2, <1>3, <1>4, CaptureKeepsScript, StartKeepsScript, RunnerKeepsScript,
     CheckKeepsScript DEF VNext, VerificationStep

LEMMA ScriptAlways == VSpec => [](OutcomeInvariant /\ ScriptInvariant)
<1>1. VInit => OutcomeInvariant
  BY OutcomeInit DEF VInit
<1> QED BY <1>1, OutcomeStep, ScriptIsStep, ScriptInit, ScriptStep, PTL DEF VSpec

\* Whoever reads the PASS line has the evidence, for all files, captured results,
\* exit statuses, invocations before this one, edits and kills (verify.sh:54-88).
THEOREM PassLinesAreEarned == VSpec => []PassLineIsEarned
<1>1. ScriptInvariant => PassLineIsEarned
  BY DEF ScriptInvariant, Earned, PassLineIsEarned
<1> QED BY <1>1, ScriptAlways, PTL

\* What runs of the tools promise about their reports they promise inside the
\* script too, whatever its invocations leave behind.
THEOREM ScriptKeepsReports == VSpec => [](PassIsSupported /\ EndedRunsReport)
<1>1. VInit => EvidenceInvariant
  BY EvidenceInit DEF VInit
<1>2. EvidenceInvariant => PassIsSupported
  BY DEF EvidenceInvariant, PassIsSupported
<1>3. OutcomeInvariant => EndedRunsReport
  BY DEF OutcomeInvariant, EndedRunsReport
<1> QED BY <1>1, <1>2, <1>3, EvidenceStep, ScriptIsStep, ScriptAlways, PTL DEF VSpec
===============================================================================
