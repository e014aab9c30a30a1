-------------------------------- MODULE MCMql --------------------------------
(***************************************************************************)
(* Statements of all kinds one after the other, on a database that starts  *)
(* with one table or two; and the queries of a finding.                    *)
(***************************************************************************)
EXTENDS MCQuery

Insertion(t, values) == [kind |-> "insert", table |-> t, values |-> values]

Creation(t, attributes) ==
  [kind |-> "create", table |-> t, attributes |-> attributes]

SequenceDatabases ==
  {Department :> [columns |-> DepartmentColumns, rows |-> rows] :
     rows \in {<<>>, <<<<2, 8>>>>}}

(* A name that is taken; keys that are; too few and too many values; a number
   that is no byte. *)
SequenceStatements ==
  {Creation(Employee, EmployeeColumns), Creation(Department, EmployeeColumns),
   Insertion(Department, <<1, 9>>), Insertion(Department, <<2, 9>>),
   Insertion(Department, <<3, 8>>), Insertion(Department, <<3>>),
   Insertion(Department, <<1, 7, 4>>), Insertion(Department, <<258, 7>>),
   Insertion(Employee, <<5, 2>>), Insertion(Employee, <<6, 1>>),
   [kind |-> "describe", table |-> Department],
   [kind |-> "describe", table |-> Employee],
   Query(<<Ref(Default, "*")>>, <<Department>>, <<>>),
   Query(<<Ref(Default, "Name")>>, <<Department>>, <<IsValue("and", Id, ">=", 2)>>),
   Query(<<Name, Firstname>>, <<Department, Employee>>, <<Join("and")>>)}

AllStatements == MCStatements \cup SequenceStatements

AllDatabases == MCDatabases \cup SequenceDatabases

(* Any statement, explained before or not, and then some of the sequence. *)
MqlNext ==
  /\ ResultNext
  /\ executed > 0 /\ asked # asked' => asked' \in SequenceStatements \cup {NoStatement}
  /\ executed > 0 /\ explained # explained' => explained' = NoStatement

MqlSpec ==
  /\ ResultInit /\ [][MqlNext]_<<vars, program>>
  /\ WF_<<vars, program>>(Receive \/ PrintNext)

(* SELECT Id, Department.Name FROM Department, and other queries that name the
   table of some columns. *)
MixedDatabases == {Tables(<<<<1, 8>>, <<2, 9>>>>, <<>>)}

MixedStatements ==
  {Query(<<a, b>>, <<Department>>, <<>>) :
     a \in {Id, Ref(Default, "Id")}, b \in {Name, Ref(Default, "Name")}}
    \cup {Query(<<Ref(Default, "Id")>>, <<Department>>, w) : w \in OneTableConditions}
=============================================================================
