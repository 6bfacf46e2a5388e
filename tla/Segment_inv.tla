----------------------------- MODULE Segment_inv -----------------------------
(***************************************************************************)
(* The inductive invariant of Segment.                                     *)
(***************************************************************************)
EXTENDS Segment

Cell == [kind : {"head", "meta", "payload"}, seq : Nat, payload : Payloads] \cup {Hole}
Record == [at : Nat, seq : Nat, payload : Payloads]

Types ==
    /\ file \in Seq(Cell) /\ cursor \in Nat
    /\ index \in Seq(Nat) /\ bytes_written \in Nat
    /\ written \in Seq(Record)
    /\ open \in BOOLEAN /\ has_read \in BOOLEAN /\ moved \in BOOLEAN /\ torn \in BOOLEAN

\* A record that append wrote is in a file where it was put
WrittenAt(f, w) ==
    /\ w.at + Width <= Len(f)
    /\ \A j \in 1..Width : f[w.at + j] = Encode(w.seq, w.payload)[j]

\* The file consists of n whole records, and the index of a segment that is open says so
Whole(n) ==
    /\ Len(file) = Width * n
    /\ Aligned
    /\ open =>
        /\ Len(index) = n /\ bytes_written = Width * n
        /\ \A i \in 1..n : index[i] = Width * (i - 1)
        /\ ~ has_read => cursor = Width * n

\* Until an append is made after a read, appends go to the end of the file; until a write is
\* cut off as well, the end is where the last record ends.
SegmentInv ==
    /\ Types
    /\ ~ moved =>
        /\ \A i \in DOMAIN written : WrittenAt(file, written[i])
        /\ open /\ ~ has_read => cursor >= Len(file)
    /\ ~ moved /\ ~ torn =>
        /\ \A i \in DOMAIN written : written[i].at = Width * written[i].seq
        /\ \E n \in Nat : Whole(n)

==============================================================================
