\* Any number of invocations, each on what the earlier ones left.
SPECIFICATION VSpec
CONSTANTS
  RequirementFiles <- DamagedRequirements
  ProcedureFiles <- SomeProcedures
  ResultDocuments <- CapturedResults
  ExitCodes = {0, 1}
  Unreadable = Unreadable
  Undecodable = Undecodable
  NotAnObject = NotAnObject
  None = None
  Absent = Absent
  Truncated = Truncated
INVARIANT PassLineIsEarned
