------------------------------ MODULE MCStorage ------------------------------
(***************************************************************************)
(* The two halves of a storage, side by side: a behaviour is one of the    *)
(* worker thread and its callers, or one of the file and its index.  The   *)
(* worker executes one operation at a time, so neither half needs the      *)
(* steps of the other.                                                     *)
(*                                                                         *)
(* Worker: one single append and one batch of two; a sweep inspects two    *)
(* records, so the third one is reached by a second sweep only.  File: one *)
(* message that expires and one that does not, each stored repeatedly.     *)
(***************************************************************************)
EXTENDS StorageWorker

CONSTANTS u1, u2, u3, kept, expiredUuid, None, MaxCells, MaxFaults

VARIABLES half, file, size, good, index, status, fileCursor, found, stored, removed, faults

MCBatches == {<<u1>>, <<u2, u3>>}

File == INSTANCE TomFile WITH
    Uuids <- {kept, expiredUuid}, Expired <- {expiredUuid}, Sizes <- {1, 2}, cursor <- fileCursor

fileVars == <<file, size, good, index, status, fileCursor, found, stored, removed, faults>>

OfWorker == half = "worker" /\ Next /\ UNCHANGED <<half, fileVars>>
OfFile == half = "file" /\ File!Next /\ UNCHANGED <<half, vars>>

Begin == half \in {"worker", "file"} /\ Init /\ File!Init

SideBySide ==
    /\ Begin /\ [][OfWorker \/ OfFile]_<<half, vars, fileVars>>
    /\ WF_vars(half = "worker" /\ Worker)
    /\ \A t \in Threads : WF_vars(half = "worker" /\ Stopping(t))

(* The properties of TomFile, of the behaviours of the file: scan()        *)
(* returns exactly what is owed (LinearStorage.cpp:285),                   *)
ScanExact == File!ScanExact

(* and the index knows the live records (LinearStorage.cpp:267).          *)
IndexExact == File!IndexExact
=============================================================================
