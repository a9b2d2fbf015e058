--------------------------- MODULE MCVerification ---------------------------
(* Fewer results than MCQualification has, and files that are cut off or   *)
(* are no text.                                                            *)
EXTENDS MCQualification, Verification

DamagedRequirements == SomeRequirements \cup {Undecodable}

CapturedResults ==
  {d \in SomeResults \ {Undecodable} : "cases" \in DOMAIN d /\ d.baseline = Text("A")}
    \cup {Unreadable}
===============================================================================
