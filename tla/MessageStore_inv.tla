--------------------------- MODULE MessageStore_inv ---------------------------
(***************************************************************************)
(* The inductive invariant of the message store; MessageStore_proofs shows *)
(* that the operations preserve it.                                        *)
(*                                                                         *)
(* Every fact about a stream is kept for every name, present or not: a     *)
(* stream that is not there looks like a new one.                          *)
(***************************************************************************)
EXTENDS MessageStore

\* The queue of a stream, its counters, its bytes and its limits
StreamOK(msgs, cnt, fst, lst) ==
    /\ fst + Len(msgs) = lst + 1
    /\ cnt = Len(msgs)
    /\ \A i \in 1..Len(msgs) : msgs[i].sequence = fst + i - 1

LimitsOK(cfg, msgs, total) ==
    /\ total = Size(msgs)
    /\ cfg.max_msgs > 0 => Len(msgs) <= cfg.max_msgs
    /\ cfg.max_bytes > 0 /\ total > cfg.max_bytes => Len(msgs) <= 1

StreamInv ==
    \A n \in StreamNames : StreamOK(messages[n], count[n], first_seq[n], last_seq[n])

LimitInv ==
    \A n \in StreamNames : LimitsOK(config[n], messages[n], bytes[n])

ConsumerInv ==
    \A k \in consumers :
        /\ cconfig[k] \in ConsumerConfigs
        /\ IsFiniteSet(pending_acks[k])

\* The inductive invariant.
IInv == TypeOK /\ StreamInv /\ LimitInv /\ ConsumerInv /\ BooksBalance

\* The fields Stream::store works on
StreamRecord == [config : StreamConfigs \cup {Default}, messages : Seq(Message), count : Nat,
                 bytes : Nat, first_seq : Nat, last_seq : Nat]

\* The fields store_message hands to Stream::store: the stream's, or a new one's.
Fields(n) ==
    IF n \in streams
    THEN [config |-> config[n], messages |-> messages[n], count |-> count[n],
          bytes |-> bytes[n], first_seq |-> first_seq[n], last_seq |-> last_seq[n]]
    ELSE [config |-> Default, messages |-> <<>>, count |-> 0,
          bytes |-> 0, first_seq |-> 1, last_seq |-> 0]

\* The conjuncts of TypeOK about the streams, and those about the consumers.
StreamTypes ==
    /\ now \in StartTime..MaxTime
    /\ streams \subseteq StreamNames
    /\ config \in [StreamNames -> StreamConfigs \cup {Default}]
    /\ messages \in [StreamNames -> Seq(Message)]
    /\ count \in [StreamNames -> Nat]
    /\ bytes \in [StreamNames -> Nat]
    /\ first_seq \in [StreamNames -> Nat]
    /\ last_seq \in [StreamNames -> Nat]

BookTypes ==
    /\ consumers \subseteq Keys
    /\ cconfig \in [Keys -> ConsumerConfigs \cup {NoRequest}]
    /\ cstream \in [Keys -> StreamNames \cup {<<>>}]
    /\ next_sequence \in [Keys -> Nat]
    /\ pending_ack_count \in [Keys -> Nat]
    /\ pending_acks \in [Keys -> SUBSET Nat]
    /\ delivered_count \in [Keys -> Nat]
    /\ acked_count \in [Keys -> Nat]

===============================================================================
