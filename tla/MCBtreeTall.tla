----------------------------- MODULE MCBtreeTall -----------------------------
(***************************************************************************)
(* Trees of three levels.  A program first inserts the keys of a script,   *)
(* one after the other, and then makes a few insertions and deletions.     *)
(***************************************************************************)
EXTENDS MCBtree

CONSTANTS Length,  \* how many keys the script inserts
          Calls    \* bound: calls after the script

Ascending == [j \in 1 .. Length |-> <<j, "a">>]

Descending == [j \in 1 .. Length |-> <<N + 1 - j, "a">>]

VARIABLES todo,    \* the records the script has still to insert
          calls    \* how many calls may follow

tallVars == <<vars, todo, calls>>

TallInit == Init /\ todo \in {Ascending, Descending} /\ calls = Calls

Scripted ==
  /\ todo # <<>>
  /\ Insert(Head(todo)) \/ InsertSplitRoot(Head(todo))
  /\ todo' = Tail(todo)
  /\ UNCHANGED calls

FreeCall ==
  /\ todo = <<>>
  /\ calls > 0
  /\ InsertCall \/ DeleteCall
  /\ calls' = calls - 1
  /\ UNCHANGED todo

Running == Step /\ UNCHANGED <<todo, calls>>

TallNext == Scripted \/ FreeCall \/ Running

TallSpec == TallInit /\ [][TallNext]_tallVars /\ WF_tallVars(Running)

=============================================================================
