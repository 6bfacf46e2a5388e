---------------------------- MODULE MessageStoreLog ----------------------------
(***************************************************************************)
(* The message store implements StreamLog.  The log of a stream is what    *)
(* the index arithmetic of Stream::read makes of its deque: the message    *)
(* with a number is the one at the distance of the number from first_seq.  *)
(***************************************************************************)
EXTENDS MessageStore

Retained(n) ==
    IF n \in streams THEN [s \in first_seq[n]..last_seq[n] |-> messages[n][s - first_seq[n] + 1]]
    ELSE [s \in {} |-> s]

Log == INSTANCE StreamLog WITH
    Names <- StreamNames, Entries <- Message, Readers <- Keys,
    open <- streams, era <- epoch,
    last <- [n \in StreamNames |-> IF n \in streams THEN last_seq[n] ELSE 0],
    log <- [n \in StreamNames |-> Retained(n)],
    attached <- consumers, cursor <- next_sequence, got <- seen

\* Whatever the retention loops remove and however the calls of tasks interleave, a stored message
\* keeps its number for as long as it is retained, only the oldest go, and a consumer is given
\* exactly the message with the number it has come to: Stream, MemoryStore and ConsumerManager
\* together are the numbered log of StreamLog.
ImplementsLog == Log!Spec

===============================================================================
