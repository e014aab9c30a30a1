------------------------------ MODULE BtreeMap ------------------------------
(***************************************************************************)
(* What mastersdb/mdb/mdb.h promises of a B-tree: a set of records with    *)
(* distinct keys.  A call is made, takes effect once, and returns with the *)
(* error code that tells what the set was.                                 *)
(***************************************************************************)
CONSTANTS Record, Key, KeyOf(_), None

VARIABLES store,   \* the records
          op,      \* the call being executed; "removed" is a deletion that
                   \*   took effect and has not returned yet
          arg,     \* the key it was made with
          rec,     \* the record to insert
          ret,     \* the error code of the last call
          out      \* the record the last search found

vars == <<store, op, arg, rec, ret, out>>

With(k) == {r \in store : KeyOf(r) = k}

Init ==
  /\ store = {}
  /\ op = "idle" /\ arg = None /\ rec = None
  /\ ret = "MDB_NO_ERROR" /\ out = None

Call(f, k, r) ==
  /\ op = "idle"
  /\ op' = f /\ arg' = k /\ rec' = r
  /\ ret' = "MDB_NO_ERROR" /\ out' = None
  /\ UNCHANGED store

Return(error) ==
  op' = "idle" /\ arg' = None /\ rec' = None /\ ret' = error

Insert ==
  /\ op = "insert"
  /\ IF With(arg) = {}
       THEN store' = store \cup {rec} /\ Return("MDB_NO_ERROR")
       ELSE store' = store /\ Return("MDB_BTREE_KEY_COLLISION")
  /\ UNCHANGED out

Search ==
  /\ op = "search"
  /\ \/ With(arg) = {} /\ out' = out /\ Return("MDB_BTREE_KEY_NOT_FOUND")
     \/ out' \in With(arg) /\ Return("MDB_NO_ERROR")
  /\ UNCHANGED store

(* A deletion may take effect before it returns. *)
Remove ==
  /\ op = "delete"
  /\ With(arg) # {}
  /\ store' = store \ With(arg)
  /\ \/ Return("MDB_NO_ERROR")
     \/ op' = "removed" /\ UNCHANGED <<arg, rec, ret>>
  /\ UNCHANGED out

Removed ==
  /\ op = "removed"
  /\ Return("MDB_NO_ERROR")
  /\ UNCHANGED <<store, out>>

Miss ==
  /\ op = "delete"
  /\ With(arg) = {}
  /\ Return("MDB_BTREE_KEY_NOT_FOUND")
  /\ UNCHANGED <<store, out>>

(* An empty set refuses a deletion at once. *)
DeleteFromEmpty ==
  /\ op = "idle"
  /\ store = {}
  /\ ret' = "MDB_BTREE_ROOT_IS_EMPTY" /\ out' = None
  /\ UNCHANGED <<store, op, arg, rec>>

Next ==
  \/ \E r \in Record : Call("insert", KeyOf(r), r)
  \/ \E k \in Key : Call("search", k, None)
  \/ \E k \in Key : store # {} /\ Call("delete", k, None)
  \/ Insert \/ Search \/ Remove \/ Removed \/ Miss \/ DeleteFromEmpty

Spec == Init /\ [][Next]_vars
=============================================================================
