-------------------------------- MODULE MCWire --------------------------------
(* Small instances of Wire for TLC. *)
EXTENDS Wire

Pub(reply, payload, headers) ==
    [type |-> "Pub", correlation_id |-> 0, subject |-> <<0>>, reply_to |-> reply,
     payload |-> payload, headers |-> headers]
Sub(pattern, group) ==
    [type |-> "Sub", correlation_id |-> 1, subject_pattern |-> pattern, queue_group |-> group]
Stream(type, numbers) == [type |-> type, correlation_id |-> 1, name |-> <<1>>, numbers |-> numbers]
Connect(auth) == [type |-> "Connect", correlation_id |-> 0, auth |-> auth]

\* Two headers, one of them empty
TwoHeaders == [k \in {<<0>>, <<1>>} |-> IF k = <<0>> THEN <<>> ELSE <<2>>]

Publishes == {Pub(None, <<>>, None), Pub(<<0, 1>>, <<0, 0, 3>>, None), Pub(None, <<3>>, TwoHeaders)}
Others ==
    {Connect(<<>>), Connect(<<<<1>>>>), Connect(<<<<0>>, <<>>>>),
     Sub(<<1>>, None), Sub(<<0, 1>>, <<1>>),
     [type |-> "Unsub", correlation_id |-> Byte + 1, id |-> Byte + 1],
     [type |-> "Ping", correlation_id |-> 2], [type |-> "Pong", correlation_id |-> 0],
     Stream("CreateStream", <<1, 0, Byte>>), Stream("DeleteStream", <<>>), Stream("Ack", <<Byte + 3>>),
     Stream("Nack", <<1>>)}
\* A server with one user: a CONNECT without credentials and one with a token are refused
OneUser == {<<<<0>>, <<>>>>}
EveryCommand == Publishes \cup Others

\* A message as large as a frame may be, and one that is a byte larger, each with a PING
Sized(n) == Pub(None, [i \in 1..n |-> 0], None)
Largest == {Sized(MaxFrameSize - FRAME_HEADER_SIZE - 5)}
TooLarge == {Sized(MaxFrameSize - FRAME_HEADER_SIZE - 4), [type |-> "Ping", correlation_id |-> 2]}
\* A pattern that is longer than its length can say
LongPattern == {Sub([i \in 1..(Byte + 1) |-> 0], None)}

===============================================================================
