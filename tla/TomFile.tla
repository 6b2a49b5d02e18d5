------------------------------ MODULE TomFile ------------------------------
(***************************************************************************)
(* linear_storage::Storage over its tom file, one worker thread.           *)
(*                                                                         *)
(* The file is a sequence of cells: the header of a record is one cell,    *)
(* its data one cell or more.  A crash or a write error in append() leaves *)
(* a prefix of the record; a header of which only some bytes were written  *)
(* is a cell of kind "cut", always the last of the file.  The stream of a  *)
(* tom keeps its failbit: after one failed read or write every operation   *)
(* on it fails until the storage is opened again.                          *)
(*                                                                         *)
(* A walk that lands on a data cell takes data for a header.  What the     *)
(* bytes then say is left open: they end the walk or make a read fail.     *)
(***************************************************************************)
EXTENDS Integers, Sequences, FiniteSets

CONSTANTS
    Uuids,
    Sizes,       \* the data sizes of records, in cells
    Expired,     \* the uuids of messages whose JMSExpiration has passed
    Budget,      \* kSweepBudget: records inspected per sweep
    MaxCells,    \* bound: cells of the file
    MaxFaults,   \* bound: crashes and write errors in append()
    None         \* no offset; no scan result

VARIABLES
    file,      \* the cells on disk
    size,      \* _size of the open tom
    good,      \* _tomF->good()
    index,     \* _index: the offset of the record of each uuid, or None
    status,    \* "closed", "open", or "broken" when the constructor threw
    cursor,    \* _sweepCursor (the tom is always the first)
    found,     \* what the last operation, a scan, returned; None after any other
    stored,    \* history: the records that were written in full, <<uuid, offset>>
    removed,   \* history: the records whose deleted flag was written
    faults     \* count of crashes in append() and write errors

disk == <<file, size, good>>
history == <<stored, removed, faults>>
vars == <<disk, index, status, cursor, found, history>>

Cell(o) == file[o + 1]
IsHeader(o) == o < Len(file) /\ Cell(o).kind = "header"
After(o) == o + 1 + Cell(o).size

\* The headers a walk from o meets, at most n of them, and where it stops.
RECURSIVE Walk(_, _)
Walk(o, n) == IF n = 0 \/ ~IsHeader(o) THEN {} ELSE {o} \cup Walk(After(o), n - 1)

RECURSIVE WalkEnd(_, _)
WalkEnd(o, n) == IF n = 0 \/ ~IsHeader(o) THEN o ELSE WalkEnd(After(o), n - 1)

All == Len(file)   \* more records than the file can hold
Live(S) == {o \in S : ~Cell(o).deleted}
Record(o) == <<Cell(o).uuid, o>>

\* Reading k cells of the data of the record at o hits the end of the file.
CutShort(o, k) == o + 1 + k > Len(file)

Init ==
    /\ file = <<>> /\ size = 0 /\ good = FALSE
    /\ index = [u \in Uuids |-> None]
    /\ status = "closed" /\ cursor = 0 /\ found = None
    /\ stored = {} /\ removed = {} /\ faults = 0

-----------------------------------------------------------------------------
(* The constructor.                                                        *)

\* Tom::Tom(): _size is the size of the file.
InitialSize == Len(file)

\* rebuildIndex(): a later record of a uuid replaces an earlier one.
RebuiltIndex ==
    [u \in Uuids |->
        LET own == {o \in Live(Walk(0, All)) : Cell(o).uuid = u}
        IN  IF own = {} THEN None ELSE CHOOSE o \in own : \A p \in own : p <= o]

Open ==
    /\ status = "closed"
    /\ size' = InitialSize
    /\ LET end == WalkEnd(0, All) IN
       \/ /\ end < Len(file) => Cell(end).kind = "data"
          /\ good' = TRUE /\ index' = RebuiltIndex /\ status' = "open"
       \/ /\ end < Len(file)
          /\ good' = FALSE /\ status' = "broken" /\ UNCHANGED index
    /\ cursor' = 0 /\ found' = None
    /\ UNCHANGED <<file, history>>

\* The process ends, in order or not, between two operations.
Close ==
    /\ status = "open"
    /\ status' = "closed" /\ found' = None
    /\ index' = [u \in Uuids |-> None] /\ good' = FALSE /\ cursor' = 0 /\ size' = 0
    /\ UNCHANGED <<file, history>>

-----------------------------------------------------------------------------
(* append().                                                               *)

Cells(u, n) ==
    <<[kind |-> "header", uuid |-> u, size |-> n, deleted |-> FALSE]>>
    \o [i \in 1..n |-> [kind |-> "data", uuid |-> u]]

\* What is on disk when the first cells of a record were written at an offset.
Written(o, cells) ==
    [i \in 1..(IF o + Len(cells) > Len(file) THEN o + Len(cells) ELSE Len(file)) |->
        IF i > o /\ i <= o + Len(cells) THEN cells[i - o] ELSE file[i]]

CutHeader == <<[kind |-> "cut"]>>
Prefixes(u, n) == {SubSeq(Cells(u, n), 1, k) : k \in 0..n} \cup {CutHeader}

Fits(n) == status = "open" /\ size + n + 1 <= MaxCells

AppendReturns(u, n) ==
    /\ Fits(n) /\ good
    /\ size' = size + n + 1
    /\ file' = Written(size, Cells(u, n))
    /\ index' = [index EXCEPT ![u] = size]
    /\ stored' = stored \cup {<<u, size>>}
    /\ found' = None
    /\ UNCHANGED <<good, status, cursor, removed, faults>>

\* The write fails part of the way; _size has been advanced before it.
AppendThrows(u, n) ==
    /\ Fits(n)
    /\ size' = size + n + 1
    /\ \/ /\ ~good /\ UNCHANGED <<file, faults>>
       \/ /\ good /\ faults < MaxFaults /\ faults' = faults + 1
          /\ \E p \in Prefixes(u, n) : file' = Written(size, p)
    /\ good' = FALSE /\ found' = None
    /\ UNCHANGED <<index, status, cursor, stored, removed>>

\* The process dies in the write or right after it: nothing but the file is left.
AppendCrashes(u, n) ==
    /\ Fits(n) /\ good /\ faults < MaxFaults
    /\ \/ \E p \in Prefixes(u, n) : file' = Written(size, p) /\ UNCHANGED stored
       \/ file' = Written(size, Cells(u, n)) /\ stored' = stored \cup {<<u, size>>}
    /\ faults' = faults + 1
    /\ status' = "closed" /\ found' = None
    /\ index' = [v \in Uuids |-> None] /\ good' = FALSE /\ cursor' = 0 /\ size' = 0
    /\ UNCHANGED removed

-----------------------------------------------------------------------------
(* remove().                                                               *)

\* Only the byte of the flag is written.
Deleting(S) == [i \in DOMAIN file |->
    IF i - 1 \in S THEN [file[i] EXCEPT !.deleted = TRUE] ELSE file[i]]

\* Mutant: the index keeps its entry.
ErasedNothing(S) == index

\* The index entries of the uuids of the records at S are dropped.
Erased(S) == [u \in Uuids |-> IF \E o \in S : Cell(o).uuid = u THEN None ELSE index[u]]

\* remove() of a record the caller has from append() or scan().
Remove(u, o) ==
    /\ status = "open" /\ <<u, o>> \in stored
    /\ \/ /\ good
          /\ file' = Deleting({o}) /\ index' = Erased({o})
          /\ removed' = removed \cup {<<u, o>>}
       \/ ~good /\ UNCHANGED <<file, index, removed>>
    /\ found' = None
    /\ UNCHANGED <<size, good, status, cursor, stored, faults>>

-----------------------------------------------------------------------------
(* scan().                                                                 *)

\* Mutant: the data of deleted records is read too.
ScannedAll(S) == S

Scanned(S) == Live(S)

Scan ==
    /\ status = "open"
    /\ LET records == Scanned(Walk(0, All))
           end == WalkEnd(0, All)
           unreadable == {o \in records : CutShort(o, Cell(o).size)}
       IN
       \/ /\ ~good                               \* record(0) throws, or there is nothing
          /\ found' = {} /\ UNCHANGED good
       \/ /\ good /\ end >= size                 \* data() of a torn record throws
          /\ found' = {Record(o) : o \in records \ unreadable}
          /\ good' = (unreadable = {})
       \/ /\ good /\ end < size                  \* data taken for a header
          /\ found' \in {{}, {Record(o) : o \in records}}
          /\ good' \in BOOLEAN
    /\ UNCHANGED <<file, size, index, status, cursor, history>>

-----------------------------------------------------------------------------
(* sweepExpired() over scanPrefix().                                       *)

\* Out of budget the next chunk resumes at end; otherwise the next pass begins.
NextCursor(end, spent) == IF spent THEN end ELSE 0

SweepThrows ==
    /\ status = "open"
    /\ LET end == WalkEnd(cursor, Budget) IN
          \/ ~good /\ cursor < size
          \/ /\ good /\ end < size /\ Cardinality(Walk(cursor, Budget)) < Budget
    /\ good' = FALSE /\ found' = None
    /\ UNCHANGED <<file, size, index, status, cursor, history>>

Sweep ==
    /\ status = "open" /\ (good \/ cursor >= size)
    /\ LET records == IF cursor >= size THEN {} ELSE Walk(cursor, Budget)
           noPrefix == {o \in Live(records) : CutShort(o, 1)}
           due == {o \in Live(records) \ noPrefix : Cell(o).uuid \in Expired}
       IN
       /\ cursor' = NextCursor(WalkEnd(cursor, Budget), Cardinality(records) = Budget)
       /\ good' = (good /\ noPrefix = {})
       /\ IF good'
          THEN /\ file' = Deleting(due) /\ index' = Erased(due)
               /\ removed' = removed \cup {Record(o) : o \in due}
          ELSE UNCHANGED <<file, index, removed>>
    /\ found' = None
    /\ UNCHANGED <<size, status, stored, faults>>

-----------------------------------------------------------------------------
Next ==
    \/ Open \/ Close \/ Scan \/ Sweep \/ SweepThrows
    \/ \E u \in Uuids, n \in Sizes : AppendReturns(u, n) \/ AppendThrows(u, n) \/ AppendCrashes(u, n)
    \/ \E u \in Uuids, o \in 0..MaxCells : Remove(u, o)

Spec == Init /\ [][Next]_vars

-----------------------------------------------------------------------------
(* Properties.                                                             *)

Whole(o) == ~CutShort(o, Cell(o).size) /\ \A i \in 1..Cell(o).size : Cell(o + i).kind = "data"

\* A torn record is the last one: nothing was appended behind it.
TearIsLast ==
    /\ \A o \in Walk(0, All) : Whole(o) \/ CutShort(o, Cell(o).size)
    /\ WalkEnd(0, All) >= Len(file)

\* What the storage owes its callers.
Owed == stored \ removed

\* However often the process died, also in the middle of a write: a scan on a good
\* stream returns exactly the records that were written in full and not removed
\* (the torn one is skipped), as long as nothing was appended behind the torn one.
ScanExact == [][Scan /\ good /\ (faults = 0 \/ TearIsLast) => found' = Owed]_vars

\* "Without this the index keeps a stale entry and record(uuid) would resolve a
\* deleted record" (LinearStorage.cpp): record(uuid) never resolves a deleted record,
\* and it finds the record of every uuid that has only one, across restarts.
IndexExact == status = "open" =>
    /\ \A u \in Uuids : index[u] # None =>
          IsHeader(index[u]) /\ Cell(index[u]).uuid = u /\ ~Cell(index[u]).deleted
    /\ (faults = 0 \/ TearIsLast) => \A r \in Owed :
          (\A o \in Walk(0, All) : Cell(o).uuid = r[1] => o = r[2]) => index[r[1]] = r[2]
=============================================================================
