------------------------------- MODULE Loading -------------------------------
(***************************************************************************)
(* tools/qualification.py, from a JSON document to the records that        *)
(* Reconciliation compares: what the three loaders refuse, and what they   *)
(* make of a document they take.                                           *)
(*                                                                         *)
(* A JSON value is a record [type, value].  An object is the record of the *)
(* keys that are present; so is a document.  A text is its stripped form,  *)
(* in lower case where the code lowers it; the blank text is "".  Titles,  *)
(* statements, names and messages are left out.                            *)
(***************************************************************************)
EXTENDS Reconciliation

CONSTANTS
  Unreadable,   \* a file that cannot be opened, or is not JSON
  Undecodable,  \* a file that is not UTF-8 text, which _load_json does not expect
  NotAnObject   \* a JSON value that is not an object where one is expected

Null == [type |-> "null"]

Get(object, key) == IF key \in DOMAIN object THEN object[key] ELSE Null
IsText(v) == v.type = "string" /\ v.value # ""

\* The values of a list, or the one value itself.
Items(v) == IF v.type = "list" THEN {v.value[k] : k \in DOMAIN v.value} ELSE {v}

Least(indices) == CHOOSE k \in indices : \A j \in indices : k <= j

\* A check that fails keeps those after it from being made.
a ?? b == IF a # {} THEN a ELSE b

IssueIf(bad, code, subject) == IF bad THEN {Issue(code, subject, "")} ELSE {}

-------------------------------------------------------------------------------
(* Documents                                                               *)

\* _load_json; what is Unreadable is INPUT_UNREADABLE or INVALID_JSON.
JsonIssues(d) == IssueIf(d = Unreadable, "INPUT_UNREADABLE", "")

IdentityFields == {"project", "version", "baseline"}

\* _document_metadata
MetadataIssues(d) ==
  IF d = NotAnObject THEN {Issue("INVALID_METADATA", "", "")}
  ELSE {Issue("INVALID_METADATA", "", f) : f \in {g \in IdentityFields : ~IsText(Get(d, g))}}
IdentityIssues(d) == JsonIssues(d) ?? MetadataIssues(d)
Metadata(d) == [f \in IdentityFields |-> d[f].value]

\* Defective variant: documents of any baseline go together.
AnyMetadata(reference, candidate) == {}

\* _validate_matching_metadata, for one document against the requirements'.
MismatchIssues(reference, candidate) ==
  {Issue("METADATA_MISMATCH", "", f) :
     f \in {g \in IdentityFields : candidate[g] # reference[g]}}

\* _extract_array takes the first key that does not hold null.
ArrayAt(d, keys) ==
  LET there == {k \in DOMAIN keys : Get(d, keys[k]).type # "null"}
  IN  IF there = {} THEN Null ELSE d[keys[Least(there)]]
ArrayIssues(d, keys) == IssueIf(ArrayAt(d, keys).type # "list", "INVALID_SCHEMA", "")

\* _required_string: the first key that holds a text, "" if none does.
TextAt(object, keys) ==
  LET good == {k \in DOMAIN keys : IsText(Get(object, keys[k]))}
  IN  IF good = {} THEN "" ELSE object[keys[Least(good)]].value

\* What the loop of each loader finds.  A record of the wrong shape is refused
\* before its id counts as seen, so a later one may have that id; a repeated
\* id is refused before the content is looked at.
RecordIssues(raws, Shape(_), IdOf(_), duplicate, Content(_)) ==
  UNION {LET seen == {IdOf(raws[j]) : j \in {i \in 1 .. k - 1 : Shape(raws[i]) = {}}}
         IN  Shape(raws[k]) ?? IssueIf(IdOf(raws[k]) \in seen, duplicate, IdOf(raws[k]))
               ?? Content(raws[k]) : k \in DOMAIN raws}

EmptyIssues(raws, code) == IssueIf(DOMAIN raws = {}, code, "")

\* A document's own records, as values.
RawRecords(d, keys) == Items(ArrayAt(d, keys))

-------------------------------------------------------------------------------
(* Requirements                                                            *)

\* _VERIFICATION_METHODS
Spellings ==
  [test |-> {"test", "automated_test", "automated test", "unit_test", "unit test",
             "integration_test", "integration test", "system_test", "system test",
             "qualification_test", "qualification test", "execution"},
   analysis |-> {"analysis", "static_analysis", "static analysis"},
   inspection |-> {"inspection", "review"},
   demonstration |-> {"demonstration"}]

\* _normalize_method, for a spelling it knows.
IsMethod(spelling) == \E m \in Methods : spelling \in Spellings[m]
MethodOf(spelling) == CHOOSE m \in Methods : spelling \in Spellings[m]

RequirementsAt == <<"requirements">>
RequirementIdAt == <<"id", "requirement_id">>

RequirementId(raw) == TextAt(raw, RequirementIdAt)
RequirementShape(raw) ==
  IF raw = NotAnObject THEN {Issue("INVALID_SCHEMA", "", "")}
  ELSE IssueIf(RequirementId(raw) = "", "INVALID_SCHEMA", "")

\* The plural key hides the singular one even where it holds null.
MethodsValue(raw) ==
  IF "verification_methods" \in DOMAIN raw THEN raw["verification_methods"]
  ELSE Get(raw, "verification_method")
MethodSpellings(raw) ==
  LET v == MethodsValue(raw)
  IN  IF v.type = "null" THEN {} ELSE {item.value : item \in Items(v)}
MethodsAreTexts(v) ==
  \/ v.type \in {"null", "string"}
  \/ v.type = "list" /\ \A item \in Items(v) : IsText(item)

RequirementContent(raw) ==
  IssueIf(~MethodsAreTexts(MethodsValue(raw)), "INVALID_SCHEMA", RequirementId(raw))
    ?? IssueIf(\E s \in MethodSpellings(raw) : ~IsMethod(s),
               "UNSUPPORTED_VERIFICATION_METHOD", RequirementId(raw))

RequirementOf(raw) ==
  [id |-> RequirementId(raw), methods |-> {MethodOf(s) : s \in MethodSpellings(raw)}]

\* load_requirements
RequirementsIssues(d) ==
  LET raws == ArrayAt(d, RequirementsAt).value
  IN  IdentityIssues(d) ?? ArrayIssues(d, RequirementsAt)
        ?? (RecordIssues(raws, RequirementShape, RequirementId, "DUPLICATE_REQUIREMENT_ID",
                         RequirementContent)
              \cup EmptyIssues(raws, "EMPTY_REQUIREMENTS"))
Requirements(d) == {RequirementOf(raw) : raw \in RawRecords(d, RequirementsAt)}

-------------------------------------------------------------------------------
(* Procedures                                                              *)

ProceduresAt == <<"procedures", "test_procedures">>
ProcedureIdAt == <<"id", "procedure_id">>
ProcedureMethodAt == <<"verification_method", "method">>

\* _string_references: the first plural key that is present, but a singular one
\* if that holds null.
FirstPresent(raw, keys) ==
  LET there == {k \in DOMAIN keys : keys[k] \in DOMAIN raw}
  IN  IF there = {} THEN Null ELSE raw[keys[Least(there)]]
ReferencesValue(raw, plural, singular) ==
  LET v == FirstPresent(raw, plural)
  IN  IF v.type # "null" THEN v ELSE FirstPresent(raw, singular)

RequirementRefs(raw) ==
  ReferencesValue(raw, <<"requirement_ids", "requirements">>, <<"requirement_id">>)
CaseRefs(raw) ==
  ReferencesValue(raw, <<"case_ids", "test_case_ids", "c_test_cases", "cases">>,
                  <<"case_id", "test_case_id", "c_test_case">>)

References(v) == {item.value : item \in Items(v)}
Repeats(v) ==
  v.type = "list" /\ \E j, k \in DOMAIN v.value : j # k /\ v.value[j].value = v.value[k].value
ReferenceIssues(v) ==
  IssueIf(\/ v.type \notin {"string", "list"}
          \/ Items(v) = {} \/ \E item \in Items(v) : ~IsText(item), "INVALID_SCHEMA", "")
    ?? IssueIf(Repeats(v), "DUPLICATE_REFERENCE", "")

ProcedureId(raw) == TextAt(raw, ProcedureIdAt)
ProcedureShape(raw) ==
  IF raw = NotAnObject THEN {Issue("INVALID_SCHEMA", "", "")}
  ELSE IssueIf(ProcedureId(raw) = "", "INVALID_SCHEMA", "")
         ?? ReferenceIssues(RequirementRefs(raw)) ?? ReferenceIssues(CaseRefs(raw))
         ?? IssueIf(TextAt(raw, ProcedureMethodAt) = "", "INVALID_SCHEMA", "")
ProcedureContent(raw) ==
  IssueIf(~IsMethod(TextAt(raw, ProcedureMethodAt)), "UNSUPPORTED_VERIFICATION_METHOD",
          ProcedureId(raw))

ProcedureOf(raw) ==
  [id |-> ProcedureId(raw), requirement_ids |-> References(RequirementRefs(raw)),
   case_ids |-> References(CaseRefs(raw)), method |-> MethodOf(TextAt(raw, ProcedureMethodAt))]

\* load_procedures
ProceduresIssues(d) ==
  LET raws == ArrayAt(d, ProceduresAt).value
  IN  IdentityIssues(d) ?? ArrayIssues(d, ProceduresAt)
        ?? (RecordIssues(raws, ProcedureShape, ProcedureId, "DUPLICATE_PROCEDURE_ID",
                         ProcedureContent)
              \cup EmptyIssues(raws, "EMPTY_PROCEDURES"))
Procedures(d) == {ProcedureOf(raw) : raw \in RawRecords(d, ProceduresAt)}

-------------------------------------------------------------------------------
(* Results of the C cases                                                  *)

CasesAt == <<"cases", "test_cases", "results">>
CaseIdAt == <<"id", "case_id", "test_case_id">>

\* _PASS_STATUSES, _FAIL_STATUSES and _INCOMPLETE_STATUSES
StatusSpellings ==
  [PASS |-> {"pass", "passed", "success", "successful", "ok"},
   FAIL |-> {"fail", "failed", "failure", "error"},
   INCOMPLETE |-> {"skip", "skipped", "not_run", "not-run", "not run", "blocked"}]

StatusValue(raw) == IF "status" \in DOMAIN raw THEN raw["status"] ELSE Get(raw, "passed")
IsStatus(v) ==
  \/ v.type = "boolean"
  \/ v.type = "string" /\ \E s \in CaseStatuses : v.value \in StatusSpellings[s]

\* _normalize_status
StatusOf(v) ==
  IF v.type = "boolean" THEN IF v.value THEN "PASS" ELSE "FAIL"
  ELSE CHOOSE s \in CaseStatuses : v.value \in StatusSpellings[s]

CaseId(raw) == TextAt(raw, CaseIdAt)
CaseShape(raw) ==
  IF raw = NotAnObject THEN {Issue("INVALID_C_RESULT", "", "")}
  ELSE IssueIf(CaseId(raw) = "", "INVALID_SCHEMA", "")
         ?? IssueIf(StatusValue(raw).type \notin {"boolean", "string"}, "INVALID_C_RESULT",
                    CaseId(raw))
         ?? IssueIf(~IsStatus(StatusValue(raw)), "INVALID_C_STATUS", CaseId(raw))
CaseContent(raw) == {}

CaseOf(raw) == [id |-> CaseId(raw), status |-> StatusOf(StatusValue(raw))]

\* Defective variant: a case reported twice goes unnoticed.
ResultsIssuesOfShapes(d) ==
  LET raws == ArrayAt(d, CasesAt).value
  IN  ArrayIssues(d, CasesAt)
        ?? (UNION {CaseShape(raws[k]) : k \in DOMAIN raws}
              \cup EmptyIssues(raws, "EMPTY_C_RESULTS"))

\* parse_c_results
ResultsIssues(d) ==
  LET raws == ArrayAt(d, CasesAt).value
  IN  ArrayIssues(d, CasesAt)
        ?? (RecordIssues(raws, CaseShape, CaseId, "DUPLICATE_C_CASE_ID", CaseContent)
              \cup EmptyIssues(raws, "EMPTY_C_RESULTS"))
Cases(d) == {CaseOf(raw) : raw \in RawRecords(d, CasesAt)}
===============================================================================
