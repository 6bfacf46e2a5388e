------------------------------- MODULE Segment -------------------------------
(***************************************************************************)
(* The log segment on disk: segment.rs of zetmq-store.                     *)
(*                                                                         *)
(* The file is a sequence of cells and a record takes three of them: its   *)
(* sequence number and timestamp, its subject and lengths, its payload.    *)
(* (So all records have one size.)  The file has one cursor, which reads   *)
(* and writes both move; offsets count cells from zero.                    *)
(*                                                                         *)
(* The process may be killed at any time.  What write_all has handed to    *)
(* the operating system survives it; a kill in the middle of write_all, or *)
(* an error that it returns, leaves some of the cells written.             *)
(***************************************************************************)
EXTENDS Integers, Sequences

CONSTANTS
    Payloads,
    MaxRecords,         \* bound: successful appends
    MaxFaults           \* bound: failed writes and kills of the process

ASSUME SegmentAssumption ==
    MaxRecords \in Nat /\ MaxFaults \in Nat

Width == 3              \* cells of a record

VARIABLES
    file, cursor,               \* the file and the position of its handle
    index, bytes_written,       \* Segment.index (the offsets) and Segment.bytes_written
    open,                       \* whether the process is running with the segment open
    written,                    \* history: where append put what, for the appends that returned Ok
    has_read,                   \* history: a read has moved the cursor since the segment was opened
    moved, torn,                \* history: an append was made after a read; a write was cut off
    faults                      \* counter of the bound

disk == <<file, cursor>>
segment == <<index, bytes_written>>
segmentVars == <<disk, segment, open, written, has_read, moved, torn, faults>>

Kinds == <<"head", "meta", "payload">>
Hole == [kind |-> "hole"]       \* zeros between the end of the file and a later write

\* The cells of a record
Encode(seq, p) == [j \in 1..Width |-> [kind |-> Kinds[j], seq |-> seq, payload |-> p]]

\* The file after cells were written at an offset
Overwrite(f, at, cells) ==
    LET end == IF Len(cells) = 0 THEN 0 ELSE at + Len(cells)
    IN  [j \in 1..(IF end > Len(f) THEN end ELSE Len(f)) |->
            CASE j > at /\ j <= end -> cells[j - at]
              [] j <= Len(f) /\ ~ (j > at /\ j <= end) -> f[j]
              [] OTHER -> Hole]

\* What is found at an offset when a record is expected there
CellsAt(at) ==
    IF at + Width <= Len(file) THEN SubSeq(file, at + 1, at + Width) ELSE <<>>

SegmentInit ==
    /\ file = <<>> /\ cursor = 0
    /\ index = <<>> /\ bytes_written = 0
    /\ open = TRUE
    /\ written = <<>>
    /\ has_read = FALSE /\ moved = FALSE /\ torn = FALSE
    /\ faults = 0

MayAppend ==
    /\ open
    /\ Len(written) < MaxRecords

\* Mutant: bytes_written is not advanced
AppendRecord_NoAdvance(p) ==
    /\ MayAppend
    /\ file' = Overwrite(file, cursor, Encode(Len(index), p))
    /\ cursor' = cursor + Width
    /\ index' = Append(index, bytes_written)
    /\ UNCHANGED bytes_written
    /\ written' = Append(written, [at |-> cursor, seq |-> Len(index), payload |-> p])
    /\ moved' = (moved \/ has_read)
    /\ UNCHANGED <<open, has_read, torn, faults>>

\* append: the record goes to where the cursor is, the index is given bytes_written
AppendRecord(p) ==
    /\ MayAppend
    /\ file' = Overwrite(file, cursor, Encode(Len(index), p))
    /\ cursor' = cursor + Width
    /\ index' = Append(index, bytes_written)
    /\ bytes_written' = bytes_written + Width
    /\ written' = Append(written, [at |-> cursor, seq |-> Len(index), payload |-> p])
    /\ moved' = (moved \/ has_read)
    /\ UNCHANGED <<open, has_read, torn, faults>>

\* write_all returns an error after k cells: append returns before it updates the index
AppendFails(p, k) ==
    /\ MayAppend
    /\ file' = Overwrite(file, cursor, SubSeq(Encode(Len(index), p), 1, k))
    /\ cursor' = cursor + k
    /\ faults < MaxFaults
    /\ faults' = faults + 1
    /\ moved' = (moved \/ has_read)
    /\ torn' = (torn \/ k > 0)
    /\ UNCHANGED <<segment, open, written, has_read>>

\* read: the cursor is left behind the record, or at the end of a file that ends before it
ReadRecord(i) ==
    /\ open
    /\ i \in DOMAIN index
    /\ cursor' = IF index[i] + Width <= Len(file) THEN index[i] + Width
                 ELSE IF index[i] <= Len(file) THEN Len(file) ELSE index[i]
    /\ has_read' = TRUE
    /\ UNCHANGED <<file, segment, open, written, moved, torn, faults>>

\* The process is killed, possibly after k cells of an append
Crash(p, k) ==
    /\ open
    /\ faults < MaxFaults
    /\ k > 0 => MayAppend
    /\ faults' = faults + 1
    /\ open' = FALSE
    /\ file' = Overwrite(file, cursor, SubSeq(Encode(Len(index), p), 1, k))
    /\ cursor' = 0 /\ index' = <<>> /\ bytes_written' = 0
    /\ has_read' = FALSE
    /\ moved' = (moved \/ (k > 0 /\ has_read))
    /\ torn' = (torn \/ k \in 1..(Width - 1))
    /\ UNCHANGED written

\* Whether every cell is where a scan in steps of Width expects its kind
Aligned ==
    \A j \in DOMAIN file : file[j].kind \in {Kinds[((j - 1) % Width) + 1], "hole"}

\* rebuild_index: how many records the scan finds.  It must read the first two parts of a
\* record; over the payload it seeks, and a seek beyond the end of the file succeeds.
Scanned == (Len(file) + 1) \div Width

\* Mutant: the cursor is left at the start of the file
ScanEnds_AtStart == 0

\* rebuild_index: where the failing read leaves the cursor
ScanEnds == IF Len(file) > Width * Scanned THEN Len(file) ELSE Width * Scanned

\* open of a file that exists
Reopen ==
    /\ ~ open
    /\ Aligned
    /\ open' = TRUE
    /\ index' = [i \in 1..Scanned |-> Width * (i - 1)]
    /\ bytes_written' = Width * Scanned
    /\ cursor' = ScanEnds
    /\ UNCHANGED <<file, written, has_read, moved, torn, faults>>

\* open of a file in which a failed append left a part of a record before others: the scan
\* takes other bytes for lengths.  It finds records at some offsets (bound: at most one) and
\* ends with a failing read, at the end of the file or beyond it.
ReopenMisread(offsets, beyond) ==
    /\ ~ open
    /\ ~ Aligned
    /\ open' = TRUE
    /\ index' = offsets
    /\ cursor' = Len(file) + beyond
    /\ bytes_written' \in {0, cursor'}
    /\ UNCHANGED <<file, written, has_read, moved, torn, faults>>

SegmentNext ==
    \/ \E p \in Payloads : AppendRecord(p)
    \/ \E p \in Payloads, k \in 0..Width : AppendFails(p, k) \/ Crash(p, k)
    \/ \E i \in 1..MaxRecords : ReadRecord(i)
    \/ Reopen
    \/ \E i \in 0..Len(file), beyond \in 0..Width :
           ReopenMisread(<<>>, beyond) \/ ReopenMisread(<<i>>, beyond)

SegmentSpec == SegmentInit /\ [][SegmentNext]_segmentVars

-----------------------------------------------------------------------------
\* The segment is an "Append-only log segment" (segment.rs): what append wrote and returned Ok
\* for stays in the file where it was put, whatever failed writes, kills and reopenings follow.
\* This holds until an append is made after a read, whose cursor it takes for the end of the file.
AppendOnly ==
    ~ moved =>
        \A i \in DOMAIN written : CellsAt(written[i].at) = Encode(written[i].seq, written[i].payload)

\* "An in-memory index maps sequence numbers to file offsets" (segment.rs): while the segment
\* is open, before and after a restart, every record append returned Ok for is read back
\* under the sequence number it returned.  This holds until a write is cut off, which the
\* index and rebuild_index know nothing of, or an append is made after a read.
ReadsBack ==
    open /\ ~ moved /\ ~ torn =>
        \A i \in DOMAIN written :
            LET w == written[i]
            IN  w.seq + 1 \in DOMAIN index /\ CellsAt(index[w.seq + 1]) = Encode(w.seq, w.payload)

===============================================================================
