------------------------------ MODULE MlCoord -------------------------------
(***************************************************************************)
(* The coordination task of MicroLink (ml_coord.c): it connects to the     *)
(* control server, agrees on keys, registers, fetches the peers and then   *)
(* listens to a long poll; when anything fails it starts again.            *)
(*                                                                         *)
(* A step of the task is one turn of the loop of ml_coord_task: a command, *)
(* if one is queued, then the case of the state, with all its I/O.  The    *)
(* link task calls microlink_rebind and microlink_stop.  The server is     *)
(* external: it answers in order, and closes when a frame does not decrypt.*)
(*                                                                         *)
(* Abstractions.  A connection is a number; its two streams are the frames *)
(* not yet read, and whether the device's next read and next write fall on *)
(* a frame's boundary with the nonce the other end has.  The nonces        *)
(* themselves never end.  A wait is a choice of whether what is awaited    *)
(* came in time.  Memory suffices.  The commands DISCONNECT and            *)
(* UPDATE_ENDPOINTS are never queued by the program and are left out, as   *)
(* are STUN (module MlStun) and the content of the peers (MlPeers).        *)
(***************************************************************************)
EXTENDS Naturals, Integers, Sequences, FiniteSets, SequencesExt

CONSTANTS CmdDepth,    \* ML_COORD_CMD_QUEUE_DEPTH (4)
          MaxFaults,   \* bound: lost or late data, refusals, resets
          MaxRebinds,  \* bound: rebinds
          MaxWire,     \* bound: frames of the server not yet read
          MaxStream    \* bound: HTTP/2 stream ids

ASSUME CoordAssumption ==
    /\ {CmdDepth, MaxFaults, MaxRebinds, MaxWire, MaxStream} \subseteq Nat
    /\ CmdDepth > 0 /\ MaxStream >= 7

VARIABLES
    state,      \* coord_state_t of the task, or EXITED
    mlState,    \* ml->state
    cmds,       \* coord_cmd_queue
    sock,       \* ml->coord_sock: the number of a connection, 0 for -1
    open,       \* the connections not yet closed
    made,       \* the connections made so far
    conn,       \* the latest connection: the Noise state and the two streams
    challenge,  \* s_node_key_challenge: the connection it came by, 0 if none
    sid,        \* ml->h2_next_stream_id
    stalled,    \* the last turn took longer than the control watchdog
    keyExpired, \* ml->key_expired
    registered, \* the bit COORD_REGISTERED
    derpAsked,  \* the bit DERP_CONNECT_REQ
    shutdown,   \* the bit SHUTDOWN_REQUEST
    rebinds,    \* microlink_rebind so far
    rebound     \* history: the connections made before the last rebind

env == <<shutdown, rebinds, rebound>>
vars == <<state, mlState, cmds, sock, open, made, conn, challenge, sid, stalled,
          keyExpired, registered, derpAsked, env>>

\* What the server sends at once after the handshake: EarlyNoise in pieces,
\* the last of which holds the nodeKeyChallenge, and its HTTP/2 settings.
Proactive == <<"early", "json", "h2">>
Early == {"early", "json"}

\* ml_noise_init: a fresh connection
NewConn(faults) ==
    [link |-> "up",       \* up, reset, or silent: nothing passes, no error yet
     wire |-> <<>>,       \* frames from the server, unread
     cut |-> FALSE,       \* part of the first of them has been consumed
     rx |-> 0,            \* rx_nonce less the nonce of the first of them
     broken |-> FALSE,    \* tx_nonce or the stream to the server is out of step
     streams |-> <<>>,    \* the streams the server has seen opened, in order
     answered |-> 0,      \* the challenge the RegisterRequest answered
     mute |-> FALSE,      \* EarlyNoise did not come in time
     late |-> FALSE,      \* the RegisterResponse did not come in time
     mapped |-> FALSE,    \* a MapResponse with the peers has been parsed
     faults |-> faults]   \* bound: the faults left

Faulty(c) == c.faults > 0
Spend(c) == [c EXCEPT !.faults = @ - 1]
-----------------------------------------------------------------------------
\* The server: its answers, and its close on a frame it cannot decrypt.
Answer(s) == CASE s = 0 -> <<"h2">> [] s = 1 -> <<"reg">> [] s = 3 -> <<"map">> [] OTHER -> <<>>
Reset(c) == [c EXCEPT !.link = "reset", !.wire = <<>>]
Served(c, s) ==
    CASE c.link # "up" -> c
      [] c.link = "up" /\ c.broken -> Reset(c)
      [] OTHER -> [c EXCEPT !.wire = @ \o Answer(s),
                            !.streams = IF s > 0 THEN Append(@, s) ELSE @]

\* noise_send: the nonce goes up before the send, which may give up after a
\* part of the frame.
Sends(c, s) ==
    {[c |-> Served(c, s), ok |-> TRUE]}
    \cup {[c |-> [d EXCEPT !.broken = TRUE], ok |-> FALSE] :
              d \in IF c.link # "up" THEN {c} ELSE IF Faulty(c) THEN {Spend(c)} ELSE {}}

\* A frame that opens no stream and whose result nobody looks at.
Acknowledge(c) == {[r.c EXCEPT !.streams = c.streams] : r \in Sends(c, 7)}

\* noise_recv of k whole frames
Consumed(c, k) == [c EXCEPT !.wire = SubSeq(@, k + 1, Len(@))]

\* Reading stops early, when a frame is late: before the frame, or within it.
ReadsLate(c, k) ==
    IF ~ Faulty(c) THEN {}
    ELSE {Spend(Consumed(c, j)) : j \in 0 .. k - 1}
         \cup {[Spend(Consumed(c, j)) EXCEPT !.cut = TRUE] : j \in 0 .. k - 1}

\* Nothing can be decrypted out of step.
InStep(c) == c.link = "up" /\ ~ c.cut /\ c.rx = 0

\* The first frame that ends a stream, if no piece of EarlyNoise, which is
\* not HTTP/2, stands before it; else all there is is read, and then awaited.
Ends(c, kinds) ==
    {i \in 1 .. Len(c.wire) :
        /\ c.wire[i] \in kinds
        /\ \A j \in 1 .. i - 1 : c.wire[j] \notin Early \cup kinds}
ReadUntil(c, kinds) ==
    IF Ends(c, kinds) = {} THEN Len(c.wire) ELSE CHOOSE i \in Ends(c, kinds) : TRUE
-----------------------------------------------------------------------------
\* do_noise_handshake and process_proactive_frames.  The first k frames are in
\* hand when the handshake ends; the rest of a frame cut by the end of the
\* buffer is dropped with it.  No data at all leaves the old challenge.
HandshakeDone(c, k, cut) ==
    [c EXCEPT !.wire = SubSeq(Proactive, k + 1, Len(Proactive)),
              !.cut = cut, !.rx = 0, !.mute = k < 2]

ChallengeAfter(k, cut) ==
    CASE k >= 2 -> sock
      [] k < 2 /\ (k > 0 \/ cut) -> 0
      [] OTHER -> challenge

\* do_h2_preface: no answer yet is not an error.
Prefaced(c) ==
    IF InStep(c) /\ c.wire # <<>>
    THEN {Consumed(c, 1)} \cup ReadsLate(c, 1)
    ELSE {c}

\* do_register, once the request is sent: whatever comes back, it succeeds.
RegisterReads(c) ==
    LET k == ReadUntil(c, {"reg"})
        read == IF InStep(c) THEN {Consumed(c, k)} \cup ReadsLate(c, k) ELSE {c}
    IN  {[d EXCEPT !.late = "reg" \in ToSet(d.wire)] : d \in read}

\* do_fetch_peers, once the request is sent: any stream that ends will do.
FetchReads_EmptyWillDo(c) ==
    LET k == ReadUntil(c, {"reg", "map"})
    IN  IF ~ InStep(c) THEN {[c |-> c, ok |-> FALSE]}
        ELSE {[c |-> [d EXCEPT !.mapped = "map" \notin ToSet(d.wire)], ok |-> TRUE] :
                  d \in {Consumed(c, k)} \cup {e \in ReadsLate(c, k) : ~ e.cut}}
FetchReads(c) ==
    LET k == ReadUntil(c, {"reg", "map"})
    IN  IF ~ InStep(c) THEN {[c |-> c, ok |-> FALSE]}
        ELSE {[c |-> d, ok |-> FALSE] : d \in ReadsLate(c, k)}
             \cup IF Ends(c, {"reg", "map"}) = {}
                  THEN {[c |-> Consumed(c, k), ok |-> FALSE]}
                  ELSE {[c |-> [d EXCEPT !.mapped = c.wire[k] = "map"], ok |-> TRUE] :
                            d \in Acknowledge(Consumed(c, k))}

\* do_start_long_poll, do_send_endpoint_update and the first PING: none of
\* them is checked.
StartLongPoll(c) == {r.c : r \in Sends(c, 5)}
EndpointUpdate(c) == {r.c : r \in Sends(c, sid)}

\* poll_map_update: > 0, 0 or < 0.  A frame whose rest does not come holds the
\* turn for 300 retries of two seconds, and then counts as nothing read.
Polls(c) ==
    CASE c.link = "reset" -> {[c |-> c, ret |-> -1, stall |-> FALSE]}
      [] c.link = "silent" \/ (c.link = "up" /\ c.wire = <<>>) ->
            {[c |-> c, ret |-> 0, stall |-> FALSE]}
      [] c.link = "up" /\ c.wire # <<>> /\ ~ InStep(c) ->
            {[c |-> IF c.cut THEN c ELSE Consumed(c, 1), ret |-> r, stall |-> FALSE] :
                r \in {-1, 0}}
      [] OTHER ->
            {[c |-> d, ret |-> 1, stall |-> FALSE] : d \in Acknowledge(Consumed(c, 1))}
            \cup {[c |-> [Spend(c) EXCEPT !.cut = TRUE], ret |-> 0, stall |-> TRUE] :
                    x \in IF Faulty(c) THEN {1} ELSE {}}
-----------------------------------------------------------------------------
Init ==
    /\ state = "IDLE" /\ mlState = "WIFI_WAIT"
    /\ cmds = <<"CONNECT">>     \* microlink_start
    /\ sock = 0 /\ open = {} /\ made = 0
    /\ conn = [NewConn(MaxFaults) EXCEPT !.link = "reset"]
    /\ challenge = 0 /\ sid = 7
    /\ stalled = FALSE /\ keyExpired = FALSE
    /\ registered = FALSE /\ derpAsked = FALSE
    /\ shutdown = FALSE /\ rebinds = 0 /\ rebound = 0

\* The state at the switch of the loop, after the command at the head.
Commanded_WhenIdleOnly ==
    IF cmds # <<>> /\ state = "IDLE" THEN "STUN_PROBE" ELSE state
Commanded ==
    CASE cmds = <<>> -> state
      [] cmds # <<>> /\ Head(cmds) = "CONNECT" ->
            IF state = "IDLE" THEN "STUN_PROBE" ELSE state
      [] OTHER -> "RECONNECTING"

\* A turn begins in state s.
Turn(s) ==
    /\ state # "EXITED" /\ ~ shutdown
    /\ Commanded = s
    /\ UNCHANGED env

Dequeue == cmds' = IF cmds = <<>> THEN cmds ELSE Tail(cmds)

\* The state ml->state has when a command has been handled.
MlCommanded == IF state = "IDLE" /\ Commanded = "STUN_PROBE" THEN "CONNECTING" ELSE mlState

CloseSock == open' = open \ {sock} /\ sock' = 0
KeepSock == UNCHANGED <<open, sock>>
NoteBits == UNCHANGED <<keyExpired, registered, derpAsked>>

StunProbe ==
    /\ Turn("STUN_PROBE") /\ Dequeue /\ KeepSock /\ NoteBits
    /\ state' = "DNS_RESOLVE" /\ mlState' = MlCommanded
    /\ UNCHANGED <<made, conn, challenge, sid, stalled>>

\* do_tcp_connect
TcpConnect ==
    /\ Turn("DNS_RESOLVE") /\ Dequeue /\ NoteBits
    /\ \/ /\ made' = made + 1 /\ sock' = made + 1 /\ open' = open \cup {made + 1}
          /\ conn' = NewConn(conn.faults)
          /\ sid' = 7 /\ state' = "NOISE_HANDSHAKE"
       \/ /\ Faulty(conn) /\ conn' = Spend(conn)
          /\ KeepSock
          /\ state' = "RECONNECTING" /\ UNCHANGED <<made, sid>>
    /\ UNCHANGED <<mlState, challenge, stalled>>

NoiseHandshake ==
    /\ Turn("NOISE_HANDSHAKE") /\ Dequeue /\ NoteBits
    /\ mlState' = "REGISTERING"
    /\ \/ \E k \in 0 .. Len(Proactive), cut \in BOOLEAN :
             /\ conn.link = "up"
             /\ cut => k < Len(Proactive) /\ Faulty(conn)
             /\ conn' = HandshakeDone(IF cut THEN Spend(conn) ELSE conn, k, cut)
             /\ challenge' = ChallengeAfter(k, cut)
             /\ state' = "H2_PREFACE" /\ KeepSock
       \/ /\ conn.link # "up" \/ Faulty(conn)
          /\ conn' = IF conn.link = "up" THEN Spend(conn) ELSE conn
          /\ state' = "RECONNECTING" /\ CloseSock /\ UNCHANGED challenge
    /\ UNCHANGED <<made, sid, stalled>>

\* The result of a stage of the set-up: a failure closes the connection.
Stage_GivesUp(r, next) ==
    /\ conn' = r.c
    /\ IF r.ok THEN state' = next /\ KeepSock ELSE state' = "IDLE" /\ CloseSock
Stage(r, next) ==
    /\ conn' = r.c
    /\ IF r.ok THEN state' = next /\ KeepSock ELSE state' = "RECONNECTING" /\ CloseSock

H2Preface ==
    /\ Turn("H2_PREFACE") /\ Dequeue /\ NoteBits
    /\ \E r \in Sends(conn, 0) :
          \E c \in IF r.ok THEN Prefaced(r.c) ELSE {r.c} : Stage([r EXCEPT !.c = c], "REGISTER")
    /\ UNCHANGED <<mlState, made, challenge, sid, stalled>>

Register ==
    /\ Turn("REGISTER") /\ Dequeue /\ NoteBits
    /\ \E r \in Sends([conn EXCEPT !.answered = challenge], 1) :
          \E c \in IF r.ok THEN RegisterReads(r.c) ELSE {r.c} : Stage([r EXCEPT !.c = c], "FETCH_PEERS")
    /\ UNCHANGED <<mlState, made, challenge, sid, stalled>>

\* The peers cannot be fetched.
FetchFails ==
    /\ Turn("FETCH_PEERS") /\ Dequeue /\ NoteBits
    /\ \E r \in Sends(conn, 3) :
          \E f \in IF r.ok THEN FetchReads(r.c) ELSE {r} : ~ f.ok /\ Stage(f, "LONG_POLL")
    /\ UNCHANGED <<mlState, made, challenge, sid, stalled>>

\* They are fetched; then the long poll is begun, the endpoints are sent if
\* STUN knows them, and a PING.
FetchPeers ==
    /\ Turn("FETCH_PEERS") /\ Dequeue
    /\ \E r \in Sends(conn, 3) : r.ok /\ \E f \in FetchReads(r.c) :
          /\ f.ok
          /\ \E p \in StartLongPoll(f.c), stun \in BOOLEAN, expires \in BOOLEAN :
                /\ stun => sid + 2 <= MaxStream
                /\ sid' = IF stun THEN sid + 2 ELSE sid
                /\ expires => Faulty(p)
                /\ keyExpired' = IF f.c.mapped THEN expires ELSE keyExpired
                /\ \E u \in IF stun THEN EndpointUpdate(p) ELSE {p} :
                   \E q \in Acknowledge(u) :
                      conn' = IF expires /\ Faulty(q) THEN Spend(q) ELSE q
    /\ \/ derpAsked' = TRUE     \* DERP is not connected
       \/ UNCHANGED derpAsked
    /\ registered' = TRUE
    /\ state' = "LONG_POLL" /\ mlState' = "CONNECTED"
    /\ stalled' = FALSE
    /\ KeepSock /\ UNCHANGED <<made, challenge>>

\* The watchdog: the last activity is too long ago.
Watchdog ==
    /\ Turn("LONG_POLL") /\ Dequeue /\ NoteBits /\ KeepSock
    /\ stalled
    /\ state' = "RECONNECTING"
    /\ UNCHANGED <<mlState, made, conn, challenge, sid, stalled>>

KeyExpiry ==
    /\ Turn("LONG_POLL") /\ Dequeue /\ NoteBits /\ KeepSock
    /\ ~ stalled /\ keyExpired
    /\ state' = "RECONNECTING"
    /\ UNCHANGED <<mlState, made, conn, challenge, sid, stalled>>

NotStalled == ~ stalled

\* An endpoint update when STUN has an answer; a PING, due every five
\* seconds; and one frame of the server.
LongPoll(ping) ==
    /\ Turn("LONG_POLL") /\ Dequeue /\ NoteBits /\ KeepSock
    /\ NotStalled
    /\ \E stun \in BOOLEAN :
          /\ stun => sid + 2 <= MaxStream
          /\ sid' = IF stun THEN sid + 2 ELSE sid
          /\ \E u \in IF stun THEN EndpointUpdate(conn) ELSE {conn} :
             \E r \in IF ping THEN {[s EXCEPT !.c.streams = u.streams] : s \in Sends(u, 7)}
                              ELSE {[c |-> u, ok |-> TRUE]} :
                IF ~ r.ok
                THEN conn' = r.c /\ state' = "RECONNECTING" /\ UNCHANGED stalled
                ELSE \E p \in Polls(r.c) :
                        /\ conn' = p.c
                        /\ stalled' = p.stall
                        /\ state' = IF p.ret < 0 THEN "RECONNECTING" ELSE "LONG_POLL"
    /\ UNCHANGED <<mlState, made, challenge>>

\* The wait before the next attempt: any command cuts it short, and is gone.
Reconnect_NoClose ==
    /\ Turn("RECONNECTING") /\ NoteBits
    /\ cmds' = SubSeq(cmds, 3, Len(cmds))
    /\ KeepSock
    /\ state' = "STUN_PROBE" /\ mlState' = "RECONNECTING"
    /\ conn' = [NewConn(conn.faults) EXCEPT !.link = "reset"]
    /\ UNCHANGED <<made, challenge, sid, stalled>>
Reconnect ==
    /\ Turn("RECONNECTING") /\ NoteBits
    /\ cmds' = SubSeq(cmds, 3, Len(cmds))
    /\ CloseSock
    /\ state' = "STUN_PROBE" /\ mlState' = "RECONNECTING"
    /\ conn' = [NewConn(conn.faults) EXCEPT !.link = "reset"]
    /\ UNCHANGED <<made, challenge, sid, stalled>>

\* The loop ends.
Exit_NoClose ==
    /\ shutdown /\ state # "EXITED"
    /\ state' = "EXITED"
    /\ KeepSock
    /\ UNCHANGED <<mlState, cmds, made, conn, challenge, sid, stalled, keyExpired, registered,
                   derpAsked, env>>
Exit ==
    /\ shutdown /\ state # "EXITED"
    /\ state' = "EXITED"
    /\ CloseSock
    /\ conn' = [NewConn(conn.faults) EXCEPT !.link = "reset"]
    /\ UNCHANGED <<mlState, cmds, made, challenge, sid, stalled, keyExpired, registered,
                   derpAsked, env>>

Task ==
    \/ StunProbe \/ TcpConnect \/ NoiseHandshake \/ H2Preface \/ Register
    \/ FetchFails \/ FetchPeers \/ Watchdog \/ KeyExpiry
    \/ \E ping \in BOOLEAN : LongPoll(ping)
    \/ Reconnect \/ Exit
-----------------------------------------------------------------------------
\* microlink_rebind: the network has changed.  A command that finds the queue
\* full for 100 ms is lost.
Rebind ==
    /\ mlState # "IDLE" /\ ~ shutdown
    /\ rebinds < MaxRebinds
    /\ rebinds' = rebinds + 1
    /\ rebound' = made
    /\ registered' = FALSE
    /\ cmds' = IF Len(cmds) < CmdDepth THEN Append(cmds, "FORCE_RECONNECT") ELSE cmds
    /\ UNCHANGED <<state, mlState, sock, open, made, conn, challenge, sid, stalled,
                   keyExpired, derpAsked, shutdown>>

\* microlink_stop, of which the task sees the bit.
Stop ==
    /\ ~ shutdown
    /\ shutdown' = TRUE
    /\ UNCHANGED <<state, mlState, cmds, sock, open, made, conn, challenge, sid, stalled,
                   keyExpired, registered, derpAsked, rebinds, rebound>>

\* The DERP task takes up the request to connect.
DerpTask ==
    /\ derpAsked /\ derpAsked' = FALSE
    /\ UNCHANGED <<state, mlState, cmds, sock, open, made, conn, challenge, sid, stalled,
                   keyExpired, registered, env>>

Network(c) ==
    /\ sock # 0 /\ conn' = c
    /\ UNCHANGED <<state, mlState, cmds, sock, open, made, challenge, sid, stalled,
                   keyExpired, registered, derpAsked, env>>

\* A change of the netmap, a keepalive, a PING: one frame on an open long poll.
ServerSends ==
    /\ conn.link = "up" /\ 5 \in ToSet(conn.streams) /\ Len(conn.wire) < MaxWire
    /\ Network([conn EXCEPT !.wire = Append(@, "h2")])

ConnectionResets == Faulty(conn) /\ conn.link = "up" /\ Network(Reset(Spend(conn)))
ConnectionDies ==
    /\ Faulty(conn) /\ conn.link = "up"
    /\ Network([Spend(conn) EXCEPT !.link = "silent", !.wire = <<>>])

\* TCP's keepalive probes, which do_tcp_connect asks for, end a dead connection.
KeepaliveEnds == conn.link = "silent" /\ Network(Reset(conn))

Next ==
    \/ Task \/ Rebind \/ Stop \/ DerpTask
    \/ ServerSends \/ ConnectionResets \/ ConnectionDies \/ KeepaliveEnds

Spec == Init /\ [][Next]_vars

\* The scheduler runs the task, five seconds pass, and TCP gives up on the dead.
FairSpec ==
    /\ Spec
    /\ WF_vars(Task) /\ WF_vars(LongPoll(TRUE)) /\ WF_vars(KeepaliveEnds)
-----------------------------------------------------------------------------
States == {"IDLE", "STUN_PROBE", "DNS_RESOLVE", "NOISE_HANDSHAKE", "H2_PREFACE", "REGISTER",
           "FETCH_PEERS", "LONG_POLL", "RECONNECTING", "EXITED"}
SettingUp == {"NOISE_HANDSHAKE", "H2_PREFACE", "REGISTER", "FETCH_PEERS"}

\* The shape of the state.
TypeOK ==
    /\ state \in States
    /\ mlState \in {"WIFI_WAIT", "CONNECTING", "REGISTERING", "CONNECTED", "RECONNECTING"}
    /\ cmds \in BoundedSeq({"CONNECT", "FORCE_RECONNECT"}, CmdDepth)
    /\ made \in Nat /\ sock \in 0 .. made /\ open \subseteq 1 .. made
    /\ challenge \in 0 .. made /\ conn.answered \in 0 .. made
    /\ conn.link \in {"up", "silent", "reset"} /\ conn.rx \in Int
    /\ conn.faults \in 0 .. MaxFaults
    /\ sid \in 7 .. MaxStream
    /\ {stalled, keyExpired, registered, derpAsked, shutdown} \subseteq BOOLEAN
    /\ rebinds \in 0 .. MaxRebinds /\ rebound \in 0 .. made

\* No connection is left open behind the task's back, and the task does no I/O
\* without one: every failure path of the set-up closes it once.
SocketIsOwned ==
    /\ open = {sock} \ {0}
    /\ state \in SettingUp \cup {"LONG_POLL"} => sock # 0

\* While the task listens its reads start at a frame, with the nonce the server
\* encrypts that frame under: frames that came before, within and after the
\* handshake, late or in part, have been counted right, or the watchdog is due.
ReadsInStep ==
    state = "LONG_POLL" /\ ~ stalled => ~ conn.cut /\ conn.rx = 0

\* Nobody listens without having asked for the long poll, unless the stream to
\* the server is out of step, so that the next PING ends the connection.
LongPollIsOpen ==
    state = "LONG_POLL" /\ conn.link = "up" /\ ~ conn.broken => 5 \in ToSet(conn.streams)

\* A connection opens its HTTP/2 streams with ascending ids.
StreamsAscend ==
    \A i \in 1 .. Len(conn.streams) - 1 : conn.streams[i] < conn.streams[i + 1]

\* Once the commands are consumed, nobody listens on a connection made before
\* the last rebind, though the queue may have dropped the rebind's command.
RebindMoves == state = "LONG_POLL" /\ cmds = <<>> => sock > rebound

\* The task's view of its socket is that of the network: typed, and owned.
SocketStateOK == TypeOK /\ SocketIsOwned

\* A task that listens does so in step with the server it was last told to
\* listen to: nonces, frames, streams and rebinds.
ListensInStep == ReadsInStep /\ LongPollIsOpen /\ StreamsAscend /\ RebindMoves

\* The request to register answers the challenge of its own connection, if
\* EarlyNoise came in time.
AnswersOwnChallenge ==
    state \in {"FETCH_PEERS", "LONG_POLL"} /\ ~ conn.mute => conn.answered = sock

\* The task listens only after it has parsed the peers, if the response to the
\* registration came in time: the long poll will not send them.
PeersBeforePoll == state = "LONG_POLL" /\ ~ conn.late => conn.mapped

\* The set-up ends only when each of its answers has come, or in time.
SetUpInOrder == AnswersOwnChallenge /\ PeersBeforePoll

\* ml_coord.c:1840 says of the long poll "Already have peers": OmitPeers asks
\* the server to leave them out.
\* The code does not keep it: see Findings in README.md.
AlreadyHasPeers == state = "LONG_POLL" => conn.mapped

\* ml_coord.c:42 says of the challenge "stored between handshake and
\* register": it is the one of this handshake.
\* The code does not keep it: see Findings in README.md.
ChallengeOfThisHandshake == state = "FETCH_PEERS" => conn.answered \in {0, sock}

\* Whatever failed, the task listens again on a live connection, unless stopped.
AlwaysReconnects == []<>(state = "EXITED" \/ (state = "LONG_POLL" /\ conn.link = "up"))

\* A stop ends the task and leaves no connection open.
StopsCleanly == shutdown ~> (state = "EXITED" /\ open = {})
=============================================================================
