--------------------------- MODULE MCQualification ---------------------------
(* Documents for the model checker: baseline A, which can pass, baseline B, *)
(* which cannot, and one for each way a document can be refused, under the  *)
(* various keys and spellings the loaders know.                             *)
EXTENDS Qualification, TLC

Text(s) == [type |-> "string", value |-> s]
List(values) == [type |-> "list", value |-> values]
Texts(s, t) == List(<<Text(s), Text(t)>>)
Passed(b) == [type |-> "boolean", value |-> b]

Document(baseline, key, raws) ==
  [project |-> Text("esqh"), version |-> Text("1"), baseline |-> Text(baseline)]
    @@ (key :> List(raws))

SomeRequirements ==
  {Document("A", "requirements", <<[id |-> Text("R1"), verification_method |-> Text("unit_test")]>>),
   Document("B", "requirements",
            <<[id |-> Text("R1"), verification_methods |-> List(<<Text("review")>>)],
              [requirement_id |-> Text("R2"), verification_methods |-> Null]>>)}
SomeProcedures ==
  {Document("A", "test_procedures",
            <<[procedure_id |-> Text("P1"), requirement_id |-> Text("R1"),
               case_ids |-> Texts("C1", "C2"), method |-> Text("execution")]>>),
   Document("B", "procedures",
            <<[id |-> Text("P1"), requirements |-> Texts("R1", "R3"),
               case_id |-> Text("C1"), verification_method |-> Text("test")]>>)}
SomeResults ==
  {Document("A", "cases", <<[id |-> Text("C1"), status |-> Text("passed")],
                            [case_id |-> Text("C2"), passed |-> Passed(TRUE)]>>),
   Document("A", "cases", <<[id |-> Text("C1"), status |-> Text("ok")]>>),
   Document("A", "results", <<NotAnObject, [id |-> Text("C1"), status |-> Text("ok")],
                              [id |-> Text("C1"), status |-> Text("fine")],
                              [id |-> Text("C1"), status |-> Text("ok")]>>),
   Document("B", "cases", <<[id |-> Text("C1"), passed |-> Passed(FALSE)],
                            [test_case_id |-> Text("C3"), status |-> Text("blocked")]>>),
   Undecodable}

\* The same, and a case that passes under one key and fails under another.
RepeatingResults ==
  SomeResults
    \cup {Document("A", "cases", <<[id |-> Text("C1"), status |-> Text("ok")],
                                   [id |-> Text("C2"), passed |-> Passed(TRUE)],
                                   [case_id |-> Text("C1"), status |-> Text("error")]>>)}
===============================================================================
