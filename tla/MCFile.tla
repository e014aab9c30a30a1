------------------------------- MODULE MCFile -------------------------------
(***************************************************************************)
(* A small table that statements change and scan, that is loaded again     *)
(* between any two of them, and whose program may be killed at any write.  *)
(***************************************************************************)
EXTENDS MCBtree, BtreeFile

(* One record for each key. *)
OneRecord == MCKey \X {"a"}

(* A search writes nothing and moves no cursor: it is left out here. *)
TableSpec ==
  /\ FileInit
  /\ [][FileNext /\ pc' # "search"]_fileVars
  /\ WF_fileVars(cursor # <<>> /\ Scan)

(* The statements of MQL: records are inserted and looked up. *)
MQLNext ==
  \/ /\ loaded /\ cursor = <<>> /\ writes = <<>>
     /\ GrowNext
     /\ UNCHANGED <<scan, root_position, loaded>>
     /\ file' = disk' /\ UNCHANGED writes
  \/ PutAway \/ LoadTable

MQLSpec == FileInit /\ [][MQLNext]_fileVars
=============================================================================
