--------------------------- MODULE Reconciliation ---------------------------
(***************************************************************************)
(* tools/qualification.py, the part that computes: requirements, test      *)
(* procedures and the results of the C cases go in, issues and a report    *)
(* come out.  R, P and C are the sets of loaded requirements, procedures   *)
(* and case results; Loading makes their ids unique.  Texts and the order  *)
(* of lists are left out.                                                  *)
(*                                                                         *)
(*   requirement  [id, methods]       methods {} permits every method      *)
(*   procedure    [id, requirement_ids, case_ids, method]                  *)
(*   case         [id, status]                                             *)
(***************************************************************************)
EXTENDS Integers

Methods == {"test", "analysis", "inspection", "demonstration"}
CaseStatuses == {"PASS", "FAIL", "INCOMPLETE"}

Ids(records) == {r.id : r \in records}

Issue(code, subject, about) == [code |-> code, subject |-> subject, about |-> about]

\* Defective variants: a missing case goes unnoticed, the report forgets the
\* traceability issues.
MissingCasesUnnoticed(P, C) == {}
ReportIssuesOfCasesOnly(R, P, C, exit_code) ==
  {Issue("CASE_FAILED", c.id, "") : c \in {d \in C : d.status = "FAIL"}}

-------------------------------------------------------------------------------
(* traceability_issues, one set for each code                              *)

UnknownRequirements(R, P) ==
  UNION {{Issue("UNKNOWN_REQUIREMENT", p.id, id) : id \in p.requirement_ids \ Ids(R)} : p \in P}

MethodMismatches(R, P) ==
  UNION {{Issue("VERIFICATION_METHOD_MISMATCH", p.id, r.id) :
            r \in {q \in R : /\ q.id \in p.requirement_ids
                             /\ q.methods # {} /\ p.method \notin q.methods}} : p \in P}

MissingCases(P, C) ==
  UNION {{Issue("MISSING_C_CASE", p.id, id) : id \in p.case_ids \ Ids(C)} : p \in P}

UnmappedRequirements(R, P) ==
  {Issue("UNMAPPED_REQUIREMENT", id, "") : id \in Ids(R) \ UNION {p.requirement_ids : p \in P}}

UnknownCases(P, C) ==
  {Issue("UNKNOWN_C_CASE", id, "") : id \in Ids(C) \ UNION {p.case_ids : p \in P}}

TraceabilityIssues(R, P, C) ==
  UnknownRequirements(R, P) \cup MethodMismatches(R, P) \cup MissingCases(P, C)
    \cup UnmappedRequirements(R, P) \cup UnknownCases(P, C)

-------------------------------------------------------------------------------
(* build_report and validation_failure_report                              *)

\* What several statuses come to; incomplete outweighs failed.
Summary(complete, statuses) ==
  IF ~complete \/ "INCOMPLETE" \in statuses THEN "INCOMPLETE"
  ELSE IF "FAIL" \in statuses THEN "FAIL" ELSE "PASS"

\* _procedure_status
ProcedureStatus(p, C) ==
  Summary(p.case_ids \subseteq Ids(C), {c.status : c \in {d \in C : d.id \in p.case_ids}})

Linked(r, P) == {p \in P : r.id \in p.requirement_ids}

RequirementStatus(r, P, C) ==
  Summary(Linked(r, P) # {}, {ProcedureStatus(p, C) : p \in Linked(r, P)})

ReportIssues(R, P, C, exit_code) ==
  TraceabilityIssues(R, P, C)
    \cup {Issue("CASE_FAILED", c.id, "") : c \in {d \in C : d.status = "FAIL"}}
    \cup {Issue("CASE_INCOMPLETE", c.id, "") : c \in {d \in C : d.status = "INCOMPLETE"}}
    \cup (IF exit_code # 0 THEN {Issue("BINARY_EXIT_NONZERO", "", "")} ELSE {})

Report(R, P, C, metadata, exit_code) ==
  [metadata |-> metadata, answered |-> TRUE, exit_code |-> exit_code, cases |-> C,
   issues |-> ReportIssues(R, P, C, exit_code),
   result |-> IF ReportIssues(R, P, C, exit_code) = {} THEN "HOST_PASS" ELSE "FAIL",
   procedures |-> {[id |-> p.id, status |-> ProcedureStatus(p, C)] : p \in P},
   traceability |->
     {[id |-> r.id, status |-> RequirementStatus(r, P, C),
       procedures |-> Ids(Linked(r, P)),
       cases |-> UNION {p.case_ids : p \in Linked(r, P)}] : r \in R}]

\* The report of a run whose input was refused; it has no exit status of the
\* binary to show.
FailureReport(metadata, issues) ==
  [metadata |-> metadata, answered |-> FALSE, exit_code |-> 0, cases |-> {}, issues |-> issues,
   result |-> "FAIL", procedures |-> {}, traceability |-> {}]

\* report_exit_code
ExitCode(report, inputError) ==
  IF report.result = "HOST_PASS" THEN "EXIT_OK"
  ELSE IF inputError THEN "EXIT_INPUT_ERROR" ELSE "EXIT_QUALIFICATION_FAILED"

\* render_markdown: what the second report shows; a table without rows says so
\* in a row of its own, which is INCOMPLETE.
NoRow == [id |-> "", status |-> "INCOMPLETE", procedures |-> {}, cases |-> {}]
Shown(rows) == IF rows = {} THEN {NoRow} ELSE rows
Rendered(report) ==
  [report EXCEPT !.traceability = Shown(@), !.procedures = Shown(@), !.cases = Shown(@)]

-------------------------------------------------------------------------------
(* What a verdict means                                                    *)

\* A report that says HOST_PASS rests on something: it has requirements, every
\* row it shows of a requirement, a procedure or a case says PASS, each
\* requirement has a procedure and a case, every case it lists is shown, and
\* the binary's exit status was 0 (qualification.py:607-946).
Supported(report) ==
  report.result = "HOST_PASS"
    => /\ report.traceability # {}
       /\ \A row \in report.traceability \cup report.procedures \cup report.cases :
            row.status = "PASS"
       /\ \A row \in report.traceability :
            /\ row.procedures # {}
            /\ row.cases # {} /\ row.cases \subseteq Ids(report.cases)
       /\ report.exit_code = 0
===============================================================================
