---------------------------- MODULE MCMessageStore ----------------------------
(* Small instances of MessageStore for TLC. *)
EXTENDS MessageStoreLog, TLC

CONSTANTS a, b

Limit(msgs, size, age) == [max_msgs |-> msgs, max_bytes |-> size, max_age |-> age]
Durable(f, p, s, k, n) ==
    [filter |-> f, policy |-> p, sequence |-> s, ack |-> k, max_ack_pending |-> n]

\* The count alone, and all the limits together; the default is a stream without limits
EveryLimit == {Limit(1, 0, 0), Limit(2, 2, 1)}
\* An age longer than the time since the epoch of the clock
LongAge == {Limit(0, 0, 12)}
CountLimit == {Limit(1, 0, 0)}
NoLimit == {Default}

\* Names as their colon-separated parts: "o", "d"; and the streams "o" and "o:x" with the
\* consumers "x:d" and "d"
OneStream == {<<"o">>}
OneName == {<<"d">>}
NoNames == {}
ColonStreams == {<<"o">>, <<"o", "x">>}
ColonNames == {<<"d">>, <<"x", "d">>}

EveryPolicy == {Durable(NoFilter, "All", 0, "Explicit", 1), Durable(NoFilter, "Last", 0, "Explicit", 0),
                Durable(NoFilter, "New", 0, "Explicit", 2), Durable(NoFilter, "ByStartSequence", 2, "All", 0)}
AllPolicy == {Durable(NoFilter, "All", 0, "Explicit", 0)}
AckAllPolicy == {Durable(NoFilter, "All", 0, "All", 0)}
NoAckPolicy == {Durable(NoFilter, "All", 0, "None", 1)}
Filtered == {Durable(a, "All", 0, "Explicit", 0)}
NoConsumers == {}

===============================================================================
