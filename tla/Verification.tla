---------------------------- MODULE Verification ----------------------------
(***************************************************************************)
(* verify_host of scripts/verify.sh: build and test, capture the results   *)
(* of the C executable in a file, have qualification_runner.py judge them  *)
(* and traceability_check.py check them, and say PASS.  Everything the     *)
(* script leaves on disk is still there when it is invoked again.          *)
(***************************************************************************)
EXTENDS Qualification

VARIABLES
  stage,                    \* where the script is: one of Stages
  c_results,                \* the file of captured results
  qualification_exit_code,
  captured  \* history: what the C executable did in this invocation, or None

script == <<stage, c_results, qualification_exit_code, captured>>
scriptVars == <<vars, script>>

\* An option that is not given is no exit status, and no capture is no record of
\* one.
ASSUME NoneAssumption ==
  /\ None \notin ExitCodes \cup {0, 1}
  /\ \A d \in ResultDocuments, code \in ExitCodes : None # [document |-> d, exit_code |-> code]

Ended == {"passed", "failed"}
Stages == {"capture", "execute", "run", "reconcile", "check"} \cup Ended

\* Defective variant: the script does not hand on the exit status of the
\* executable.
RunnerOptionsWithoutStatus == [binary |-> FALSE, c_results |-> TRUE, exit_code |-> None]

VInit ==
  /\ Init
  /\ stage = "failed" /\ c_results = Unreadable
  /\ qualification_exit_code = 0 /\ captured = None

-------------------------------------------------------------------------------
(* The script; set -e ends it at the first command that fails              *)

Fails == stage' = "failed" /\ qualification_exit_code' = 0 /\ captured' = None

\* An invocation as far as mkdir: build, ctest, unittest and the look for the
\* executable pass, or one of them fails.
Prepare ==
  /\ stage \in Ended
  /\ \/ stage' = "capture" /\ qualification_exit_code' = 0 /\ captured' = None
     \/ Fails
  /\ UNCHANGED <<vars, c_results>>

\* The shell empties the file before it starts the executable.
OpenResults ==
  /\ stage = "capture" /\ stage' = "execute"
  /\ c_results' = Unreadable
  /\ UNCHANGED <<vars, qualification_exit_code, captured>>

\* Without leave to write the file the shell does not start the executable; that
\* counts as status 1, and the results of an earlier invocation stay.
OpenFails ==
  /\ stage = "capture" /\ stage' = "run"
  /\ qualification_exit_code' = 1
  /\ UNCHANGED <<vars, c_results, captured>>

\* The executable prints a document, or part of one, and ends with any status;
\* set +e lets the script go on.
Execute ==
  /\ stage = "execute" /\ stage' = "run"
  /\ c_results' \in ResultDocuments /\ qualification_exit_code' \in ExitCodes
  /\ captured' = [document |-> c_results', exit_code |-> qualification_exit_code']
  /\ UNCHANGED vars

RunnerOptions ==
  [binary |-> FALSE, c_results |-> TRUE, exit_code |-> qualification_exit_code]

StartRunner ==
  /\ stage = "run" /\ stage' = "reconcile"
  /\ QualificationRunner(RunnerOptions)
  /\ UNCHANGED <<c_results, qualification_exit_code, captured>>

\* The runner at work.
RunnerStep ==
  /\ stage = "reconcile" /\ (RunStep \/ TakeResults(c_results, source.exit_code))
  /\ UNCHANGED script

StartCheck ==
  /\ stage = "reconcile" /\ pc = "ended" /\ status = "EXIT_OK" /\ stage' = "check"
  /\ CheckIdentity(c_results)
  /\ UNCHANGED <<c_results, qualification_exit_code, captured>>

CheckStep ==
  /\ stage = "check" /\ CheckRecords
  /\ UNCHANGED script

\* The line "PASS: host verification and qualification".
Pass ==
  /\ stage = "check" /\ pc = "ended" /\ status = "traceable" /\ stage' = "passed"
  /\ UNCHANGED <<vars, c_results, qualification_exit_code, captured>>

Fail ==
  /\ pc = "ended"
  /\ \/ stage = "reconcile" /\ status # "EXIT_OK"
     \/ stage = "check" /\ status # "traceable"
  /\ Fails
  /\ UNCHANGED <<vars, c_results>>

\* A tool is killed, or the script with what it has started.
KillTool == Kill /\ UNCHANGED script
KillScript ==
  /\ stage \notin Ended /\ Fails
  /\ \/ Kill
     \/ pc = "ended" /\ UNCHANGED vars
  /\ UNCHANGED c_results

VerificationStep ==
  \/ OpenResults \/ OpenFails \/ Execute \/ StartRunner \/ RunnerStep
  \/ StartCheck \/ CheckStep \/ Pass \/ Fail

VNext ==
  \/ Prepare \/ VerificationStep
  \/ KillTool \/ KillScript
  \/ (Edit /\ UNCHANGED script)

VSpec == VInit /\ [][VNext]_scriptVars

-------------------------------------------------------------------------------
(* Properties                                                              *)

\* Whoever reads the PASS line has the evidence: the executable ran in this very
\* invocation and ended with status 0, both reports show just its cases and say
\* HOST_PASS, and they name every requirement of the file as it is, unless
\* somebody has edited it since the runner began (verify.sh:54-88).
PassLineIsEarned ==
  stage = "passed"
    => /\ captured # None /\ captured.exit_code = 0
       /\ json_file.result = "HOST_PASS" /\ json_file.cases = Cases(captured.document)
       /\ markdown_file = Rendered(json_file)
       /\ edited \/ Ids(json_file.traceability) = Ids(Requirements(requirements_file))
===============================================================================
