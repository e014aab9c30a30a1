------------------------------ MODULE MCCatalog ------------------------------
(***************************************************************************)
(* Databases of a few small tables.                                        *)
(***************************************************************************)
EXTENDS Catalog

(* "Emp", "Dept" and a name that begins with another, "Employee". *)
Emp == <<69, 109, 112>>

Dept == <<68, 101, 112, 116>>

Employee == Emp \o <<108, 111, 121, 101, 101>>

ApartNames == {Emp, Dept}

PrefixNames == {Emp, Employee}

(* (Id INT-32), and (Text STRING(1981), Flag INT-8), the longest record up to
   which every record has an order of at least 2. *)
TwoLayouts == {<<Int32>>, <<Str(1981), Int8>>}

OneRow == {<<1>>}

(* Programs that are not killed. *)
CalmSpec == Init /\ [][Next /\ ~Kill]_vars
=============================================================================
