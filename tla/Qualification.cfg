\* Two baselines, so that a file edited in the middle of a run may belong to the
\* other; any number of runs, each of which may be killed at any step.
SPECIFICATION Spec
CONSTANTS
  RequirementFiles <- SomeRequirements
  ProcedureFiles <- SomeProcedures
  ResultDocuments <- RepeatingResults
  ExitCodes = {0, 1}
  Unreadable = Unreadable
  Undecodable = Undecodable
  NotAnObject = NotAnObject
  None = None
  Absent = Absent
  Truncated = Truncated
INVARIANTS PassIsSupported EndedRunsReport VerdictIsAboutTheFiles RecordsHaveTheirRows ToolsAgree
