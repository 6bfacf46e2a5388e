--------------------------------- MODULE Wire ---------------------------------
(***************************************************************************)
(* The bytes between a client and its session: the frames and commands of  *)
(* zetmq-protocol, the frames the client library builds (client.rs,        *)
(* connection.rs), the publish path of the session over its read buffer    *)
(* and its encoder of MSG frames (handler.rs, dispatcher.rs).              *)
(*                                                                         *)
(* TCP hands a reader the bytes in chunks of any size, so a frame may      *)
(* arrive in pieces and several may arrive at once.  A string or a payload *)
(* is a sequence of bytes.  A byte counts modulo Byte; a u16, a u32 and a  *)
(* u64 are all two bytes wide here, which is wide enough for the lengths   *)
(* and numbers of an instance.  Strings are valid UTF-8: from_utf8_lossy   *)
(* keeps them.  What the commands do is the subject of the other modules.  *)
(***************************************************************************)
EXTENDS Integers, Sequences, FiniteSets, SequencesExt

CONSTANTS
    Byte,           \* the values of a byte
    None,
    Commands,       \* the commands of the client, as it means them
    Ids,            \* subscription ids of the server
    Accepted,       \* the credentials that the server's configuration lets in
    MaxFrameSize,   \* max_frame_size of the server's configuration
    ClientMax,      \* the limit of the client's read task
    MaxFrames       \* bound: commands the client sends

\* The frame types; the byte of one is its place
FrameTypes == <<"Connect", "Connack", "Ping", "Pong", "Drain", "Drainack", "Pub", "Msg", "Sub", "Suback",
                "Unsub", "Unsuback", "CreateStream", "StreamInfo", "DeleteStream", "Ack", "Nack", "Error">>

ASSUME WireAssumption ==
    /\ Byte \in Nat /\ Byte > Len(FrameTypes)
    /\ Ids \subseteq 0..(Byte * Byte - 1)
    /\ {MaxFrameSize, ClientMax, MaxFrames} \subseteq Nat

VARIABLES
    state,      \* whether the session is Connected
    wire,       \* bytes written and not yet read, per direction
    read_buf,   \* of the session ("up") and of the client's read task ("down")
    loop,       \* whether the reader waits in read_buf(), goes through its frames or has panicked
    sent,       \* history: the commands, and the messages and replies, as meant
    handled,    \* history: the same as decoded
    cleared     \* history: the session has cleared its buffer

vars == <<state, wire, read_buf, loop, sent, handled, cleared>>
Links == {"up", "down"}
\* What is recorded of a PUB that is not decoded as nobody subscribes, and of a frame that is no command
Skipped == [type |-> "Skipped"]
Rejected == [type |-> "Rejected"]
\* What is recorded of a MSG that makes the client's read task panic
Panicked == [type |-> "Panicked"]

-----------------------------------------------------------------------------
(* Numbers and fields *)

U8 == 1
U16 == 2
U32 == 2
U64 == 2

\* `n as uN`, then to_be_bytes
BE(n, w) == [i \in 1..w |-> (n \div Byte^(w - i)) % Byte]
Slice(b, from, to) == SubSeq(b, from + 1, to)
From(b, from) == Slice(b, from, Len(b))
\* from_be_bytes of the w bytes at offset at
Num(b, at, w) == FoldLeft(LAMBDA n, x : n * Byte + x, 0, Slice(b, at, at + w))

\* A string behind its length
Field(s, w) == BE(Len(s), w) \o s
\* Reading one back at an offset: whether it fits, the string and the offset after it
Fits(b, at, w) == Len(b) >= at + w /\ Len(b) >= at + w + Num(b, at, w)
Text(b, at, w) == Slice(b, at + w, at + w + Num(b, at, w))
After(b, at, w) == at + w + Num(b, at, w)

-----------------------------------------------------------------------------
(* Frames *)

ZETMQ_MAGIC == Byte + 2
CURRENT_VERSION == 1
FRAME_HEADER_SIZE == 6 + U64 + U32 + U32

as_u8(t) == CHOOSE i \in DOMAIN FrameTypes : FrameTypes[i] = t
from_u8(n) == IF n \in DOMAIN FrameTypes THEN FrameTypes[n] ELSE None

FrameHeader(t, correlation_id, header_len, payload_len) ==
    BE(ZETMQ_MAGIC, U16) \o BE(CURRENT_VERSION, U8) \o BE(as_u8(t), U8) \o BE(0, U16)
    \o BE(correlation_id, U64) \o BE(header_len, U32) \o BE(payload_len, U32)

Frame(t, correlation_id, headers, payload) ==
    [type |-> t, correlation_id |-> correlation_id, headers |-> headers, payload |-> payload]

encode(f) == FrameHeader(f.type, f.correlation_id, Len(f.headers), Len(f.payload)) \o f.headers \o f.payload

header_len(b) == Num(b, 6 + U64, U32)
payload_len(b) == Num(b, 6 + U64 + U32, U32)
total(b) == FRAME_HEADER_SIZE + header_len(b) + payload_len(b)
ValidHeader(b) == Num(b, 0, U16) = ZETMQ_MAGIC /\ Num(b, 2, U8) = CURRENT_VERSION

\* Mutant: a frame that waits for one byte more than it has
Peek_OffByOne(b, max) ==
    IF Len(b) < FRAME_HEADER_SIZE THEN "none"
    ELSE IF total(b) > max THEN "error"
    ELSE IF Len(b) <= total(b) THEN "none"
    ELSE IF ValidHeader(b) THEN "frame" ELSE "error"

\* The start of the buffer: "none" when the frame is not complete, "error", or a frame
Peek(b, max) ==
    IF Len(b) < FRAME_HEADER_SIZE THEN "none"
    ELSE IF total(b) > max THEN "error"
    ELSE IF Len(b) < total(b) THEN "none"
    ELSE IF ValidHeader(b) THEN "frame" ELSE "error"

\* The publish path has copies of these checks, which do not take the frame out of the buffer
peek_pub_frame_layout(b, max) == Peek(b, max)
peek_pub_frame_total(b, max) == Peek(b, max)

\* decode_from, when there is a frame
decode_from(b) ==
    [type |-> from_u8(Num(b, 3, U8)), correlation_id |-> Num(b, 6, U64),
     headers |-> Slice(b, FRAME_HEADER_SIZE, FRAME_HEADER_SIZE + header_len(b)),
     payload |-> Slice(b, FRAME_HEADER_SIZE + header_len(b), total(b))]

-----------------------------------------------------------------------------
(* Headers of a message: a map, whose keys are written in any order *)

encode_headers(h, keys) ==
    BE(Len(keys), U16) \o FlattenSeq([i \in DOMAIN keys |-> Field(keys[i], U16) \o Field(h[keys[i]], U16)])

\* Mutant: the length field of a value is not counted
encoded_headers_len_KeysOnly(h, keys) ==
    FoldLeft(LAMBDA n, k : n + 2 + Len(k) + Len(h[k]), 2, keys)

encoded_headers_len(h, keys) ==
    FoldLeft(LAMBDA n, k : n + 2 + Len(k) + 2 + Len(h[k]), 2, keys)

\* The n headers at an offset, added to those read before; None when they are truncated
RECURSIVE HeadersAt(_, _, _, _)
HeadersAt(b, at, n, h) ==
    IF n = 0 THEN h
    ELSE IF ~Fits(b, at, U16) \/ ~Fits(b, After(b, at, U16), U16) THEN None
    ELSE LET key == Text(b, at, U16)
             val == After(b, at, U16)
             h2  == [k \in DOMAIN h \cup {key} |-> IF k = key THEN Text(b, val, U16) ELSE h[k]]
         IN  HeadersAt(b, After(b, val, U16), n - 1, h2)

NoHeaders == [k \in {} |-> k]
decode_headers(b) == IF Len(b) < 2 THEN NoHeaders ELSE HeadersAt(b, 2, Num(b, 0, U16), NoHeaders)

Orders(h) == IF h = None THEN {<<>>} ELSE SetToSeqs(DOMAIN h)

-----------------------------------------------------------------------------
(* Commands of the client: every record has a type and a correlation_id.    *)
(* The credentials of CONNECT are none, a token, or a user and a password.  *)
(* CREATE_STREAM, DELETE_STREAM, ACK, NACK and STREAM_INFO are a name and   *)
(* a number of u64s.                                                        *)

encode_auth(auth) == FlattenSeq([i \in DOMAIN auth |-> Field(auth[i], U16)])
encode_stream(name, numbers) == Field(name, U8) \o FlattenSeq([i \in DOMAIN numbers |-> BE(numbers[i], U64)])
\* A bare PUB leaves out the length of a reply that is none, which the format given in from_frame allows
publish_with_reply(c, bare) ==
    Field(c.subject, U16)
    \o (IF bare THEN <<>> ELSE IF c.reply_to = None THEN BE(0, U16) ELSE Field(c.reply_to, U16)) \o c.payload
build_sub_frame(c) ==
    Field(c.subject_pattern, U8) \o (IF c.queue_group = None THEN <<>> ELSE Field(c.queue_group, U8))

Payload(c, bare) ==
    CASE c.type = "Connect" -> IF c.auth = <<>> THEN <<>> ELSE BE(Len(c.auth), U8) \o encode_auth(c.auth)
      [] c.type = "Pub" -> publish_with_reply(c, bare)
      [] c.type = "Sub" -> build_sub_frame(c)
      [] c.type = "Unsub" -> BE(c.id, U64)
      [] c.type \in {"CreateStream", "DeleteStream", "Ack", "Nack"} -> encode_stream(c.name, c.numbers)
      [] OTHER -> <<>>

\* The headers of a PUB, their keys in some order
Headers(c, keys) == IF c.type # "Pub" \/ c.headers = None THEN <<>> ELSE encode_headers(c.headers, keys)

\* AuthInfo::decode
decode_auth(auth_type, b) ==
    CASE auth_type = 0 -> <<>>
      [] auth_type = 1 /\ Fits(b, 0, U16) -> <<Text(b, 0, U16)>>
      [] auth_type = 2 /\ Fits(b, 0, U16) /\ Fits(b, After(b, 0, U16), U16) ->
            <<Text(b, 0, U16), Text(b, After(b, 0, U16), U16)>>
      [] OTHER -> None

\* The decode of a command with a name and k numbers
decode_stream(b, k) ==
    IF ~Fits(b, 0, U8) \/ Len(b) < After(b, 0, U8) + k * U64 THEN None
    ELSE [name |-> Text(b, 0, U8), numbers |-> [i \in 1..k |-> Num(b, After(b, 0, U8) + (i - 1) * U64, U64)]]

Numbers(t) == CASE t = "CreateStream" -> 3 [] t = "DeleteStream" -> 0 [] OTHER -> 1

PublishCommand(f, subject, reply_to, payload) ==
    LET headers == IF f.headers = <<>> THEN None ELSE decode_headers(f.headers)
    IN  IF f.headers # <<>> /\ headers = None THEN None
        ELSE [type |-> "Pub", correlation_id |-> f.correlation_id, subject |-> subject,
              reply_to |-> reply_to, payload |-> payload, headers |-> headers]

\* The publish path: the reply length must be there
parse_publish_payload(f) ==
    LET b == f.payload
        r == After(b, 0, U16)
    IN  IF ~Fits(b, 0, U16) \/ ~Fits(b, r, U16) THEN None
        ELSE PublishCommand(f, Text(b, 0, U16), IF Num(b, r, U16) > 0 THEN Text(b, r, U16) ELSE None,
                            From(b, After(b, r, U16)))

\* from_frame of a PUB: a reply that does not fit is none, and its length is skipped
PublishFromFrame(f) ==
    LET b == f.payload
        r == After(b, 0, U16)
    IN  IF ~Fits(b, 0, U16) THEN None
        ELSE IF Len(b) < r + U16 THEN PublishCommand(f, Text(b, 0, U16), None, From(b, r))
        ELSE IF Fits(b, r, U16) /\ Num(b, r, U16) > 0
        THEN PublishCommand(f, Text(b, 0, U16), Text(b, r, U16), From(b, After(b, r, U16)))
        ELSE PublishCommand(f, Text(b, 0, U16), None, From(b, r + U16))

\* A queue group that does not fit is none
SubscribeFromFrame(f) ==
    LET b == f.payload
        q == After(b, 0, U8)
    IN  IF ~Fits(b, 0, U8) THEN None
        ELSE [type |-> "Sub", correlation_id |-> f.correlation_id, subject_pattern |-> Text(b, 0, U8),
              queue_group |-> IF Len(b) > q + U8 /\ Fits(b, q, U8) /\ Num(b, q, U8) > 0
                              THEN Text(b, q, U8) ELSE None]

\* BrokerCommand::from_frame; None is an error
from_frame(f) ==
    CASE f.type = "Connect" ->
            LET auth == IF f.payload = <<>> THEN <<>> ELSE decode_auth(f.payload[1], Tail(f.payload))
            IN  IF auth = None THEN None
                ELSE [type |-> "Connect", correlation_id |-> f.correlation_id, auth |-> auth]
      [] f.type = "Pub" -> PublishFromFrame(f)
      [] f.type = "Sub" -> SubscribeFromFrame(f)
      [] f.type = "Unsub" /\ Len(f.payload) >= U64 ->
            [type |-> "Unsub", correlation_id |-> f.correlation_id, id |-> Num(f.payload, 0, U64)]
      [] f.type = "Ping" -> [type |-> "Ping", correlation_id |-> f.correlation_id]
      [] f.type \in {"CreateStream", "DeleteStream", "Ack", "Nack"} ->
            LET d == decode_stream(f.payload, Numbers(f.type))
            IN  IF d = None THEN None
                ELSE [type |-> f.type, correlation_id |-> f.correlation_id, name |-> d.name, numbers |-> d.numbers]
      [] OTHER -> None

-----------------------------------------------------------------------------
(* Messages and replies of the server *)

Msg(c, id) == [type |-> "Msg", correlation_id |-> id, id |-> id, subject |-> c.subject,
               reply_to |-> c.reply_to, payload |-> c.payload, headers |-> c.headers]
Plain(t) == [type |-> t, correlation_id |-> 0]
\* The ERROR of a command that is refused carries its correlation id
Refusal(c) == [type |-> "Error", correlation_id |-> c.correlation_id]

\* Whether c is a CONNECT with credentials that validate_auth turns down
Refused(c) == c # None /\ c.type = "Connect" /\ c.auth \notin Accepted

\* What the server may send for a command: the id of a SUB is one of its choice, if limit and
\* permissions let it have one, and a stream may exist already or not at all
Replies(c) ==
    CASE c.type = "Connect" -> {Plain("Connack")}
      [] c.type = "Ping" -> {Plain("Pong")}
      [] c.type = "Sub" -> [type : {"Suback"}, correlation_id : {c.correlation_id}, id : Ids] \cup {Refusal(c)}
      [] c.type = "Unsub" -> [type : {"Unsuback"}, correlation_id : {c.correlation_id}, id : {c.id}]
      [] c.type = "CreateStream" ->
            {[type |-> "StreamInfo", correlation_id |-> 0, name |-> c.name,
              numbers |-> <<0, 0, 1, 0>> \o c.numbers], Plain("Error")}
      [] c.type = "DeleteStream" ->
            {[type |-> "StreamInfo", correlation_id |-> 0, name |-> None, numbers |-> <<>>], Plain("Error")}
      [] OTHER -> {}

\* encode_msg_into: the lengths are computed first, then the parts are written
encode_msg_into(m, keys) ==
    LET hl == IF m.headers = None THEN 0 ELSE encoded_headers_len(m.headers, keys)
        rl == IF m.reply_to = None THEN 0 ELSE Len(m.reply_to)
    IN  FrameHeader("Msg", m.correlation_id, hl, U16 + Len(m.subject) + U16 + rl + U64 + Len(m.payload))
        \o (IF m.headers = None THEN <<>> ELSE encode_headers(m.headers, keys))
        \o Field(m.subject, U16) \o (IF m.reply_to = None THEN BE(0, U16) ELSE Field(m.reply_to, U16))
        \o BE(m.id, U64) \o m.payload

encode_outbound(m, keys) ==
    IF m.type = "Msg" THEN encode_msg_into(m, keys)
    ELSE encode(Frame(m.type, m.correlation_id, <<>>,
                      CASE m.type \in {"Suback", "Unsuback"} -> BE(m.id, U64)
                        [] m.type = "StreamInfo" /\ m.name # None -> encode_stream(m.name, m.numbers)
                        [] OTHER -> <<>>))

\* dispatch_msg of the client; None is an error.  The reply is sliced unchecked
dispatch_msg(f) ==
    LET b == f.payload
        r == After(b, 0, U16)
        d == IF Num(b, r, U16) > 0 THEN After(b, r, U16) ELSE r + U16
        h == IF f.headers = <<>> THEN None ELSE decode_headers(f.headers)
    IN  IF Len(b) < U16 \/ Len(b) < r + U16 THEN None
        ELSE IF Len(b) < d THEN Panicked
        ELSE IF Len(b) < d + U64 \/ (f.headers # <<>> /\ h = None) THEN None
        ELSE [type |-> "Msg", correlation_id |-> f.correlation_id, id |-> Num(b, d, U64),
              subject |-> Text(b, 0, U16), reply_to |-> IF Num(b, r, U16) > 0 THEN Text(b, r, U16) ELSE None,
              payload |-> From(b, d + U64), headers |-> h]

\* What the peer makes of a frame of the server
Received(f) ==
    CASE f.type = "Msg" -> dispatch_msg(f)
      [] f.type \in {"Suback", "Unsuback"} /\ Len(f.payload) >= U64 ->
            [type |-> f.type, correlation_id |-> f.correlation_id, id |-> Num(f.payload, 0, U64)]
      [] f.type = "StreamInfo" ->
            LET d == decode_stream(f.payload, 7)
            IN  [type |-> f.type, correlation_id |-> f.correlation_id,
                 name |-> IF d = None THEN None ELSE d.name, numbers |-> IF d = None THEN <<>> ELSE d.numbers]
      [] OTHER -> [type |-> f.type, correlation_id |-> f.correlation_id]

-----------------------------------------------------------------------------
(* The links *)

TypeOK ==
    /\ state \in {"New", "Connected"}
    /\ wire \in [Links -> Seq(0..(Byte - 1))] /\ read_buf \in [Links -> Seq(0..(Byte - 1))]
    /\ loop \in [Links -> {"read", "frames", "gone"}] /\ loop["up"] # "gone"
    /\ sent["up"] \in Seq(Commands) /\ Len(sent["up"]) <= MaxFrames
    /\ cleared \in BOOLEAN

\* With the CONNECT still to come, or done
Init ==
    /\ state \in {"New", "Connected"}
    /\ wire = [l \in Links |-> <<>>] /\ read_buf = [l \in Links |-> <<>>]
    /\ loop = [l \in Links |-> "read"]
    /\ sent = [l \in Links |-> <<>>] /\ handled = [l \in Links |-> <<>>]
    /\ cleared = FALSE

\* The ways to write a command
Frames(c) ==
    {Frame(c.type, c.correlation_id, Headers(c, keys), Payload(c, bare)) :
        keys \in Orders(IF c.type = "Pub" THEN c.headers ELSE None),
        bare \in {b \in BOOLEAN : b => c.type = "Pub" /\ c.reply_to = None /\ c.payload = <<>>}}

\* The client sends a command
Send(c) ==
    /\ Len(sent["up"]) < MaxFrames
    /\ \E f \in Frames(c) : wire' = [wire EXCEPT !["up"] = @ \o encode(f)]
    /\ sent' = [sent EXCEPT !["up"] = Append(@, c)]
    /\ UNCHANGED <<state, read_buf, loop, handled, cleared>>

\* The reader gets some of the bytes
Read(l) ==
    /\ loop[l] = "read"
    /\ \E n \in 1..Len(wire[l]) :
          /\ read_buf' = [read_buf EXCEPT ![l] = @ \o Slice(wire[l], 0, n)]
          /\ wire' = [wire EXCEPT ![l] = From(@, n)]
    /\ loop' = [loop EXCEPT ![l] = "frames"]
    /\ UNCHANGED <<state, sent, handled, cleared>>

\* A frame of the buffer has been taken for x
Take(l, x) ==
    /\ read_buf' = [read_buf EXCEPT ![l] = From(@, total(@))]
    /\ handled' = [handled EXCEPT ![l] = Append(@, x)]

\* The server puts one of the frames ms on the wire, if there are any
Reply(ms) ==
    IF ms = {} THEN UNCHANGED <<wire, sent>>
    ELSE \E m \in ms : \E keys \in Orders(IF m.type = "Msg" THEN m.headers ELSE None) :
            /\ wire' = [wire EXCEPT !["down"] = @ \o encode_outbound(m, keys)]
            /\ sent' = [sent EXCEPT !["down"] = Append(@, m)]

buf == read_buf["up"]
OnPublishPath == state = "Connected" /\ Len(buf) >= FRAME_HEADER_SIZE /\ Num(buf, 3, U8) = as_u8("Pub")

\* No complete frame: the session reads again
Incomplete ==
    /\ loop["up"] = "frames" /\ Peek(buf, MaxFrameSize) = "none"
    /\ loop' = [loop EXCEPT !["up"] = "read"]
    /\ UNCHANGED <<state, wire, read_buf, sent, handled, cleared>>

\* A frame that is too large, or not of the protocol, or a PUB that is malformed: the buffer is cleared
DecodeError ==
    /\ loop["up"] = "frames"
    /\ \/ Peek(buf, MaxFrameSize) = "error"
       \/ /\ OnPublishPath /\ peek_pub_frame_layout(buf, MaxFrameSize) = "frame"
          /\ parse_publish_payload(decode_from(buf)) = None
    /\ read_buf' = [read_buf EXCEPT !["up"] = <<>>]
    /\ cleared' = TRUE
    /\ Reply({Plain("Error")})
    /\ UNCHANGED <<state, loop, handled>>

\* A PUB that somebody subscribes to, here the client itself, or that its permissions deny
Publish ==
    /\ loop["up"] = "frames" /\ OnPublishPath /\ peek_pub_frame_layout(buf, MaxFrameSize) = "frame"
    /\ LET c == parse_publish_payload(decode_from(buf))
       IN  /\ c # None
           /\ Take("up", c)
           /\ Reply({Msg(c, id) : id \in Ids} \cup {Refusal(c)})
    /\ UNCHANGED <<state, loop, cleared>>

\* A PUB while there are no subscriptions: the frame is measured, not decoded
Skim ==
    /\ loop["up"] = "frames" /\ OnPublishPath /\ peek_pub_frame_total(buf, MaxFrameSize) = "frame"
    /\ Take("up", Skipped)
    /\ UNCHANGED <<state, wire, loop, sent, cleared>>

\* Any other frame.  Before CONNECT, commands but PING are ignored
OnFramePath == loop["up"] = "frames" /\ ~OnPublishPath /\ Peek(buf, MaxFrameSize) = "frame"
Command == from_frame(decode_from(buf))

Handle ==
    /\ OnFramePath /\ ~Refused(Command)
    /\ LET c == Command
       IN  IF c = None
           THEN Take("up", Rejected) /\ Reply({Plain("Error")}) /\ UNCHANGED state
           ELSE /\ Take("up", c)
                /\ state' = IF c.type = "Connect" THEN "Connected" ELSE state
                /\ Reply(IF state = "Connected" \/ c.type \in {"Connect", "Ping"} THEN Replies(c) ELSE {})
    /\ UNCHANGED <<loop, cleared>>

\* A CONNECT that is refused: the session leaves the loop over its frames, and those behind the CONNECT
\* stay in the buffer until more bytes come
RefuseConnect ==
    /\ OnFramePath /\ Refused(Command)
    /\ Take("up", Command)
    /\ Reply({Refusal(Command)})
    /\ loop' = [loop EXCEPT !["up"] = "read"]
    /\ UNCHANGED <<state, cleared>>

\* The client's read task takes a frame, and ends if that panics
Receive ==
    /\ loop["down"] = "frames" /\ Peek(read_buf["down"], ClientMax) = "frame"
    /\ LET m == Received(decode_from(read_buf["down"]))
       IN  /\ Take("down", m)
           /\ loop' = [loop EXCEPT !["down"] = IF m = Panicked THEN "gone" ELSE @]
    /\ UNCHANGED <<state, wire, sent, cleared>>

\* It reads again when there is none, or an error: a frame with a bad header is gone, one that is
\* too large stays
ReceiveEnds ==
    /\ loop["down"] = "frames" /\ Peek(read_buf["down"], ClientMax) # "frame"
    /\ loop' = [loop EXCEPT !["down"] = "read"]
    /\ read_buf' = [read_buf EXCEPT !["down"] =
          IF Peek(@, ClientMax) = "error" /\ total(@) <= ClientMax THEN From(@, total(@)) ELSE @]
    /\ UNCHANGED <<state, wire, sent, handled, cleared>>

Next ==
    \/ \E c \in Commands : Send(c)
    \/ \E l \in Links : Read(l)
    \/ Incomplete \/ DecodeError \/ Publish \/ Skim \/ Handle \/ RefuseConnect
    \/ Receive \/ ReceiveEnds

Spec == Init /\ [][Next]_vars

-----------------------------------------------------------------------------
(* Properties *)

\* What the session records for a command: a PUB may be skipped, and a PONG, which the client sends in
\* answer to a PING, is no command.
Agree(meant, taken) ==
    \/ taken = meant
    \/ taken = Skipped /\ meant.type = "Pub"
    \/ taken = Rejected /\ meant.type = "Pong"

\* However the bytes are cut, the frames of both directions are decoded as they were meant, in order and
\* none twice: a command by the session, on its publish path (parse_publish_payload) as well as by
\* from_frame, until it clears its buffer; a message and a reply by the client.  A message is meant
\* as its publisher wrote it, so this is also what publisher and subscriber have of it.
DecodedAsMeant ==
    \A l \in Links : (l = "up" => ~cleared) =>
        /\ Len(handled[l]) <= Len(sent[l])
        /\ \A i \in DOMAIN handled[l] : Agree(sent[l][i], handled[l][i])

\* The last frame the session took is a CONNECT that it refused (handler.rs:607)
BrokeOff == handled["up"] # <<>> /\ Refused(Last(handled["up"]))

\* A reader that waits for bytes when all have been read has no frame left in its buffer: decode_from and
\* peek_pub_frame_layout never leave a complete frame for the next read.  The exception is a session that
\* has just left its loop over a refused CONNECT: it keeps the frames behind it, and whole, until the client
\* sends more.
NothingIsHeldBack ==
    \A l \in Links : (l = "up" => ~cleared) /\ wire[l] = <<>> /\ loop[l] = "read" =>
        /\ read_buf[l] = <<>> <=> Len(handled[l]) = Len(sent[l])
        /\ read_buf[l] # <<>> => l = "up" /\ BrokeOff /\ Peek(buf, MaxFrameSize) = "frame"

-----------------------------------------------------------------------------
(* What documents and comments say, and the code does not do *)

Fitting(c) == \A f \in Frames(c) : Len(encode(f)) <= MaxFrameSize

\* "Clear the buffer to recover from corrupted data" (handler.rs:720): commands that fit are handled
\* though a frame that is too large was among them.
ClearingRecovers ==
    wire["up"] = <<>> /\ loop["up"] = "read" =>
        \A i \in DOMAIN sent["up"] : Fitting(sent["up"][i]) =>
            \E j \in DOMAIN handled["up"] : Agree(sent["up"][i], handled["up"][j])

\* The client reads every message that the server accepted: the default of max_frame_size is the limit
\* of the client's read task, "Maximum frame size the client will accept" (options.rs:20).
AcceptedIsReadable == loop["down"] = "read" => Peek(read_buf["down"], ClientMax) # "error"

\* "subject_len(2) + subject + [reply_len(2) + reply] + payload" (command/mod.rs:55): no PUB is malformed.
NoPubIsMalformed == ~cleared

\* Every frame the client sends is one the server knows, its PONG included.
EveryFrameIsKnown == \A i \in DOMAIN handled["up"] : handled["up"][i] # Rejected

===============================================================================
