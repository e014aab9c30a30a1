------------------------------- MODULE MCQuery -------------------------------
(***************************************************************************)
(* Queries over two tables, with every list of result columns of up to two *)
(* names and up to three conditions from small sets.  Strings are numbers. *)
(***************************************************************************)
EXTENDS ResultSet

Department == 1
Employee == 2

Number(name, indexed) ==
  [name |-> name, type |-> "INT-8", length |-> 0, indexed |-> indexed]
Text(name, indexed) ==
  [name |-> name, type |-> "STRING", length |-> 30, indexed |-> indexed]

DepartmentColumns == <<Number("Id", 1), Text("Name", 0)>>
EmployeeColumns == <<Text("Firstname", 1), Number("DepartmentId", 0)>>

Tables(departments, employees) ==
  (Department :> [columns |-> DepartmentColumns, rows |-> departments])
    @@ (Employee :> [columns |-> EmployeeColumns, rows |-> employees])

MCDatabases ==
  {Tables(d, e) : d \in {<<>>, <<<<1, 8>>>>, <<<<1, 9>>, <<2, 8>>>>},
                  e \in {<<>>, <<<<5, 2>>, <<6, 1>>, <<7, 2>>>>}}

Ref(t, c) == [table |-> t, column |-> c]
Is(link, l, op, other) ==
  [link |-> link, left |-> l, op |-> op, right |-> [kind |-> "column", ref |-> other]]
IsValue(link, l, op, v) ==
  [link |-> link, left |-> l, op |-> op, right |-> [kind |-> "value", value |-> v]]

Query(columns, from, where) ==
  [kind |-> "select", columns |-> columns, from |-> from, where |-> where]

Id == Ref(Department, "Id")
Name == Ref(Department, "Name")
Firstname == Ref(Employee, "Firstname")
Works == Ref(Employee, "DepartmentId")

(* One table, its columns with or without its name; the last two lists are of
   the finding EitherNameSelects when the table is not named in both. *)
OneTableColumns ==
  {<<Ref(Default, "*")>>, <<Ref(Default, "Name")>>, <<Name, Id>>,
   <<Id, Ref(Default, "Name")>>, <<Ref(Default, "Name"), Ref(Default, "Id")>>}

OneTableConditions ==
  {<<>>}
    \cup {<<IsValue("and", c, op, 1)>> :
            c \in {Id, Ref(Default, "Id")}, op \in {"<", ">", "=", ">=", "<=", "<>"}}
    \cup {<<IsValue("and", Id, op, 1), Is(link, Name, "<>", Id)>> :
            op \in {"=", ">"}, link \in {"and", "or"}}

JoinColumns == {<<Id, Firstname>>, <<Firstname, Name, Id>>, <<Works>>}

Join(link) == Is(link, Works, "=", Id)

JoinConditions ==
  {<<Join("and")>>, <<Is("and", Id, "<", Works)>>}
    \cup {<<Join("and"), IsValue(link, Firstname, ">", 5)>> : link \in {"and", "or"}}
    \cup {<<IsValue("and", Firstname, ">", 5), IsValue(l1, Name, "=", 8), Join(l2)>> :
            l1 \in {"and", "or"}, l2 \in {"and", "or"}}

(* Without a meaning, but not left out: a table no condition joins, * of a
   join, a table that FROM does not name, a column that does not exist. *)
Odd ==
  {Query(<<Id>>, <<Department, Employee>>, <<IsValue("and", Works, "=", 1)>>),
   Query(<<Id, Works>>, <<Department, Employee>>, <<>>),
   Query(<<Ref(Default, "*")>>, <<Department>>, <<Is("and", Id, "=", Works)>>),
   Query(<<Name>>, <<Employee>>, <<>>),
   Query(<<Ref(Default, "Size")>>, <<Department>>, <<>>)}

MCStatements ==
  {Query(c, <<Department>>, w) : c \in OneTableColumns, w \in OneTableConditions}
    \cup {Query(c, <<Department, Employee>>, w) : c \in JoinColumns, w \in JoinConditions}
    \cup Odd
=============================================================================
