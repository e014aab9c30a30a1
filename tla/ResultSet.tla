------------------------------ MODULE ResultSet ------------------------------
(***************************************************************************)
(* mastersdb/MdbResultSet.cpp: the records of a statement in the hands of  *)
(* the program, which moves about in them, prints them as db_read.cpp      *)
(* does, and deletes them before it executes the next statement.           *)
(***************************************************************************)
EXTENDS VirtualMachine

VARIABLES rs,        \* an mdbQueryResults: its records, and whether there is one
          r,         \* the number of the current record
          printing,  \* printResults is in its loop
          first,     \* history: the record it began with
          printed    \* history: the records printed

program == <<rs, r, printing, first, printed>>

NoResultSet == [made |-> FALSE, records |-> <<>>]

NotPrinted == printing' = FALSE /\ first' = 0 /\ printed' = <<>>

ResultInit ==
  /\ Init
  /\ rs = NoResultSet /\ r = 0
  /\ printing = FALSE /\ first = 0 /\ printed = <<>>

(* Arithmetic on uint32_t; of its size this matters, that 0 - 1 is more than
   any number of records. *)
Unsigned(n) == n % 65536

GetRecordCount == Len(rs.records)

(* The number of the last record. *)
Highest == Unsigned(GetRecordCount - 1)

(* Mutant: without its test. *)
ReturnedAlways == [made |-> TRUE, records |-> results.records]

(* The end of Execute, and the result set that ExecuteMQL makes of it *)
Returned ==
  IF results.records # <<>> THEN [made |-> TRUE, records |-> results.records]
                            ELSE NoResultSet

Receive ==
  /\ Decode
  /\ IF Instruction("HALT") THEN rs' = Returned /\ r' = 0 ELSE UNCHANGED <<rs, r>>
  /\ UNCHANGED <<printing, first, printed>>

(* The program has deleted the result set before. *)
ExecuteNext(s) ==
  /\ ExecuteMQL(s) /\ ~printing
  /\ rs' = NoResultSet /\ r' = 0 /\ NotPrinted

Explain(s) ==
  /\ ExplainMQL(s) /\ ~printing
  /\ UNCHANGED program

-----------------------------------------------------------------------------
(* Between two statements *)
Idle == ~Running /\ ~printing

Moves(to) ==
  /\ Idle /\ rs.made
  /\ r' = to
  /\ UNCHANGED <<vars, rs, printing, first, printed>>

ToFirst == Moves(0)

(* Mutant *)
HasNextButOne == r + 1 < Highest

HasNext == r < Highest

ToNext == HasNext /\ Moves(r + 1)

ToPrevious == r > 0 /\ Moves(r - 1)

ToLast == Moves(Highest)

(* The values of all columns are read from it. *)
CurrentRecord == rs.records[r + 1]

(* do ... while (rs->ToNext()) *)
PrintRow ==
  /\ printed' = Append(printed, CurrentRecord)
  /\ printing' = HasNext
  /\ r' = IF HasNext THEN r + 1 ELSE r
  /\ UNCHANGED <<vars, rs>>

(* printResults, on a result set or NULL; a bound: once for each. *)
PrintFirst == Idle /\ rs.made /\ printed = <<>> /\ PrintRow /\ first' = r

PrintNext == printing /\ PrintRow /\ UNCHANGED first

ResultNext ==
  \/ Receive
  \/ \E s \in Statements : ExecuteNext(s) \/ Explain(s)
  \/ ToFirst \/ ToNext \/ ToPrevious \/ ToLast
  \/ PrintFirst \/ PrintNext

ResultSpec ==
  /\ ResultInit /\ [][ResultNext]_<<vars, program>>
  /\ WF_<<vars, program>>(Receive \/ PrintNext)

-----------------------------------------------------------------------------
(* Whatever statements were executed and however the program moved, the current
   record exists: GetIntValue and GetStringValue index the records without a
   check, and ToNext and ToLast would run away with an empty result. *)
PositionInside == rs.made => r < GetRecordCount

(* printResults prints, of the records of the statement's answer, each from the
   one it began with to the last, once and in order. *)
PrintsTheRest ==
  printed # <<>> => printed = SubSeq(answer, first + 1, IF printing THEN r ELSE Len(answer))
=============================================================================
