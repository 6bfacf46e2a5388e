-------------------------------- MODULE Server --------------------------------
(***************************************************************************)
(* The server's listener (listener.rs) composed with the sessions it       *)
(* spawns, from accept to the end of run after the shutdown broadcast      *)
(* of main.rs.  When run returns, so does main, and with the runtime every *)
(* task is gone.                                                           *)
(*                                                                         *)
(* A connection waits in the socket's backlog until the listener accepts   *)
(* it.  A TLS handshake is done by the accept loop itself, which meanwhile *)
(* accepts nobody and does not look at the broadcast.  The clock is not    *)
(* modelled: the drain timeout may pass at any moment of the drain.        *)
(***************************************************************************)
EXTENDS Session

CONSTANTS
    MaxConnections,     \* max_connections
    Tls,                \* whether tls_acceptor is there
    Talkers             \* bound: the connections whose clients send frames

ASSUME ServerAssumption == MaxConnections \in Nat /\ Tls \in BOOLEAN /\ Talkers \subseteq Conns

VARIABLES
    listener,       \* where run is
    active,         \* TcpServer.active_connections
    missed,         \* connections that subscribed to the broadcast after it was sent
    drained         \* run ended with "all connections drained"

run == <<listener, active, missed, drained>>
serverVars == <<vars, run>>

ServerTypeOK ==
    /\ TypeOK
    /\ listener \in {"accept", "handshake", "drain", "exited"}
    /\ Cardinality({c \in Conns : loop[c] = "handshake"}) = IF listener = "handshake" THEN 1 ELSE 0
    /\ active \in 0..Cardinality(Conns)
    /\ missed \subseteq Conns
    /\ drained => listener = "exited"

ServerInit ==
    /\ StartAt("waiting")
    /\ listener = "accept" /\ active = 0 /\ missed = {} /\ drained = FALSE

-----------------------------------------------------------------------------
\* The session's part of the state that accepting a connection leaves alone
sessions == <<client, read_buf, state, publish, channel, write_task, senders, next_id, shutdown,
              metrics, pings, history>>

\* accept over max_connections: the stream is dropped
Reject(c) ==
    /\ listener = "accept"
    /\ loop[c] = "waiting"
    /\ active >= MaxConnections
    /\ Goto(c, "refused")
    /\ UNCHANGED <<sessions, run>>

\* accept: the connection is counted and subscribed to the broadcast, then its session is
\* spawned, or its handshake begins
Accept(c) ==
    /\ listener = "accept"
    /\ loop[c] = "waiting"
    /\ active < MaxConnections
    /\ active' = active + 1
    /\ missed' = IF shutdown THEN missed \cup {c} ELSE missed
    /\ Goto(c, IF Tls THEN "handshake" ELSE "select")
    /\ listener' = IF Tls THEN "handshake" ELSE "accept"
    /\ UNCHANGED <<sessions, drained>>

\* Mutant: a failed handshake is not counted out
EndHandshake_Uncounted(c, ok) ==
    /\ listener = "handshake"
    /\ loop[c] = "handshake"
    /\ Goto(c, IF ok THEN "select" ELSE "refused")
    /\ listener' = "accept"
    /\ UNCHANGED <<sessions, active, missed, drained>>

\* acceptor.accept: the session is spawned, or the connection is given up
EndHandshake(c, ok) ==
    /\ listener = "handshake"
    /\ loop[c] = "handshake"
    /\ Goto(c, IF ok THEN "select" ELSE "refused")
    /\ active' = IF ok THEN active ELSE active - 1
    /\ listener' = "accept"
    /\ UNCHANGED <<sessions, missed, drained>>

\* accept or set_nodelay fails: run returns the error, without a drain
AcceptFails ==
    /\ listener = "accept"
    /\ listener' = "exited"
    /\ UNCHANGED <<vars, active, missed, drained>>

\* shutdown_rx.recv() of the accept loop
StopAccepting ==
    /\ listener = "accept"
    /\ shutdown
    /\ listener' = "drain"
    /\ UNCHANGED <<vars, active, missed, drained>>

\* The end of handle_connection; then the spawned task counts the connection out
SessionEnds(c) ==
    \/ Cleanup(c) /\ UNCHANGED run
    \/ Await(c) /\ active' = active - 1 /\ UNCHANGED <<listener, missed, drained>>

\* Mutant: the last connection is not waited for
Drained_OffByOne ==
    /\ listener = "drain"
    /\ active <= 1
    /\ listener' = "exited" /\ drained' = TRUE
    /\ UNCHANGED <<vars, active, missed>>

\* Mutant: the gauge of the core's metrics is waited for, too
Drained_ByMetrics ==
    /\ listener = "drain"
    /\ active = 0 /\ active_connections = 0
    /\ listener' = "exited" /\ drained' = TRUE
    /\ UNCHANGED <<vars, active, missed>>

\* The drain loop finds no connection left
Drained ==
    /\ listener = "drain"
    /\ active = 0
    /\ listener' = "exited" /\ drained' = TRUE
    /\ UNCHANGED <<vars, active, missed>>

\* drain_timeout passes
DrainTimeout ==
    /\ listener = "drain"
    /\ active > 0
    /\ listener' = "exited"
    /\ UNCHANGED <<vars, active, missed, drained>>

-----------------------------------------------------------------------------
Listen(c) == Reject(c) \/ Accept(c)

\* What the peer of a handshake does
Handshake(c) == \E ok \in BOOLEAN : EndHandshake(c, ok)

\* The connections that are over
Over == {c \in Conns : loop[c] \in {"refused", "closed"}}

\* What a client does to a connection that is not over.  Frames are sent once there is a session:
\* nothing reads them before, so sending them earlier makes no difference.
Peer(c) ==
    /\ c \notin Over
    /\ \/ ClientClose(c)
       \/ /\ loop[c] \notin {"waiting", "handshake"}
          /\ c \in Talkers
          /\ \E f \in Kinds : ClientSend(c, f)

Told(c) == c \notin missed /\ ReceiveShutdown(c)

ReadSome(c) == Select(c) \/ HandleFrame(c) \/ \E k \in 0..Len(inbox[c]) : Drain(c, k)

ServerNext ==
    /\ listener # "exited"
    /\ \/ AcceptFails \/ StopAccepting \/ Drained \/ DrainTimeout
       \/ Shutdown /\ UNCHANGED run
       \/ \E c \in Conns :
             \/ Listen(c) \/ Handshake(c) \/ SessionEnds(c)
             \/ Peer(c) /\ UNCHANGED run
             \/ (ReadSome(c) \/ Heartbeat(c) \/ Told(c)) /\ UNCHANGED run
             \/ (WriteTask(c) \/ Socket(c) \/ Offer(c) \/ Others(c)) /\ UNCHANGED run

ServerSpec == ServerInit /\ [][ServerNext]_serverVars

\* Tasks that are ready run: the accept loop, and of each session its own task and its write task.
\* tokio::select! polls its branches in random order, so one that is ready again and again is
\* taken.  A write ends once the client has closed its socket, and so does a handshake; while
\* the socket is open both may block for ever.
ServerFairness ==
    /\ SF_serverVars(StopAccepting)
    /\ WF_serverVars(Drained \/ \E c \in Conns : peer[c] = "closed" /\ Handshake(c))
    /\ \A c \in Conns :
        /\ SF_serverVars(Select(c) /\ UNCHANGED run) /\ SF_serverVars(Told(c) /\ UNCHANGED run)
        /\ WF_serverVars((loop[c] # "select" /\ ReadSome(c) /\ UNCHANGED run) \/ SessionEnds(c))
        /\ WF_serverVars((WriteTask(c) \/ (peer[c] = "closed" /\ Socket(c))) /\ UNCHANGED run)
        /\ WF_serverVars(Others(c) /\ UNCHANGED run)

ServerFairSpec == ServerSpec /\ ServerFairness

-----------------------------------------------------------------------------
\* active_connections counts the connections that are accepted and not over, through every
\* way a handshake or a session can end, so "max_connections" is never exceeded and the
\* drain waits for nobody who is not there.
ActiveIsExact ==
    /\ active = Cardinality({c \in Conns : c \notin Over /\ loop[c] # "waiting"})
    /\ active <= MaxConnections

\* "all connections drained" (listener.rs): when run ends so, nothing a session had for its
\* client is cut off with the runtime; every channel was written out or its client was gone.
DrainedMeansDone ==
    drained => \A c \in Conns : ~ failed[c] => wire[c] = accepted[c]

\* When a client closes its socket, its session ends: the write task sees the last sender go,
\* whoever holds clones of it, and the session's wait for the write task ends.
ClosedPeersEnd ==
    \A c \in Conns : peer[c] = "closed" /\ loop[c] # "waiting" ~>
        listener = "exited" \/ c \in Over

\* After the broadcast every session that was there when it was sent gives up its
\* subscriptions for good, also one whose client does not read what is written to it.
ShutdownReleases ==
    \A c \in Conns : shutdown /\ c \notin missed /\ loop[c] \notin {"waiting", "handshake"} ~>
        listener = "exited" \/ (subs[c] = {} /\ loop[c] \in {"refused", "await", "closed"})

\* Once the broadcast is sent and the clients have closed, run ends of itself, before the drain
\* timeout: every handshake, every accepted connection and every count comes to its end.
ShutdownEnds ==
    shutdown /\ (\A c \in Conns : c \in Over \/ peer[c] = "closed") ~> listener = "exited"

-----------------------------------------------------------------------------
(* What the documents say and the server does not do *)

\* "Graceful shutdown on Ctrl+C" (main.rs) and the DRAIN it stands for: a session that is running
\* after the broadcast is told of it.
EverySessionIsTold ==
    \A c \in Conns : shutdown /\ loop[c] = "select" ~>
        listener = "exited" \/ state[c] = "Draining" \/ loop[c] \in {"await", "closed"}

===============================================================================
