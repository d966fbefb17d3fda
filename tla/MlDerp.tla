------------------------------- MODULE MlDerp -------------------------------
(***************************************************************************)
(* The relay connection of MicroLink: the I/O task of ml_derp.c, which     *)
(* alone touches the TLS context, and the tasks that steer it: the         *)
(* coordination task asks for a connection, microlink_rebind for a new     *)
(* one, and the producers put packets into derp_tx_queue.  The relay and   *)
(* the network are external.                                               *)
(*                                                                         *)
(* A socket is live while the other end is, dead after an outage or a      *)
(* change of the interface, which nobody tells the device: a write to it   *)
(* may still succeed and a read find nothing.  A packet is its queueing    *)
(* class; what it says, TLS and the pauses are not modelled.  A write or a *)
(* read that stops inside a frame leaves the stream torn; where the other  *)
(* end has closed, the stream has ended, inside a frame or between two.    *)
(***************************************************************************)
EXTENDS Naturals, Sequences

CONSTANTS Producers,   \* the tasks that call ml_derp_queue_send
          Depth,       \* ML_DERP_TX_QUEUE_DEPTH (16)
          MaxAttempts, \* attempts per request (3)
          TxBurst,     \* packets written per turn (8)
          RxBurst,     \* frames read per turn (4)
          MaxOutages,  \* bound: outages of the relay
          MaxRebinds,  \* bound: calls of microlink_rebind
          MaxRequests  \* bound: visits of the coordination task

ASSUME DerpAssumption ==
    /\ {Depth, MaxAttempts, TxBurst, RxBurst} \subseteq Nat \ {0}
    /\ {MaxOutages, MaxRebinds, MaxRequests} \subseteq Nat

VARIABLES bits,      \* the event group, as far as the relay uses it
          io,        \* the I/O task
          connected, \* derp.connected
          sockfd,    \* derp.sockfd with its TLS context
          lost,      \* sockets overwritten in sockfd before they were closed
          stream,    \* what has torn, or ended, the streams of the connection
          queue,     \* derp_tx_queue
          sending,   \* producers inside the loop of ml_derp_queue_send
          coord,     \* the coordination task between its check and its request
          rebind,    \* microlink_rebind between its two signals
          up,        \* the relay can be reached
          count      \* calls and outages so far

vars == <<bits, io, connected, sockfd, lost, stream, queue, sending, coord, rebind, up, count>>

Classes == {"handshake", "other"}
Packets == [class : Classes, front : BOOLEAN]
Whole == [tx |-> "whole", rx |-> "whole"]
\* The stages of ml_derp_connect that need the new socket.
Exchange == <<"tls", "upgrade", "serverKey", "clientInfo", "serverInfo">>
Stages == {"dns", "tcp"} \cup {Exchange[k] : k \in 1..Len(Exchange)}

Init ==
    /\ bits = {} /\ connected = FALSE /\ sockfd = "none" /\ lost = 0
    /\ io = [pc |-> "top", seen |-> FALSE, attempt |-> 0, from |-> "none", burst |-> 0]
    /\ stream = Whole
    /\ queue = <<>> /\ sending = [p \in Producers |-> [class |-> "other", left |-> 0, full |-> FALSE]]
    /\ coord = "away" /\ rebind = "done" /\ up = TRUE
    /\ count = [outages |-> 0, rebinds |-> 0, requests |-> 0]
-----------------------------------------------------------------------------
(***************************************************************************)
(* The I/O task.                                                           *)
(***************************************************************************)
others == <<queue, sending, coord, rebind, up, count>>

\* Whichever loop asked, attempts begin at the first.
Begin(task, from) == [task EXCEPT !.pc = "dns", !.attempt = 1, !.from = from]

\* The bits are read once, and a request of the coordination task comes first.
Top ==
    /\ io.pc = "top"
    /\ LET wanted == "CONNECT_REQ" \in bits /\ ~connected
           task == [io EXCEPT !.seen = "RECONNECT" \in bits]
       IN  IF "SHUTDOWN" \in bits
           THEN io' = [io EXCEPT !.pc = "exited"] /\ UNCHANGED bits
           ELSE IF wanted
           THEN io' = Begin(task, "request") /\ bits' = bits \ {"CONNECT_REQ"}
           ELSE io' = [task EXCEPT !.pc = "reconnect"] /\ UNCHANGED bits
    /\ UNCHANGED <<connected, sockfd, lost, stream, others>>

\* The bit is cleared, then ml_derp_disconnect, which drains the queue.
Disconnect ==
    /\ io.pc = "reconnect" /\ io.seen
    /\ bits' = bits \ {"RECONNECT", "DERP_CONNECTED"}
    /\ connected' = FALSE /\ sockfd' = "none" /\ stream' = Whole /\ queue' = <<>>
    /\ io' = Begin([io EXCEPT !.seen = FALSE], "reconnect")
    /\ UNCHANGED <<lost, sending, coord, rebind, up, count>>

Proceed ==
    /\ io.pc = "reconnect" /\ ~io.seen
    /\ io' = [io EXCEPT !.pc = IF connected THEN "drain" ELSE "top"]
    /\ UNCHANGED <<bits, connected, sockfd, lost, stream, others>>

Resolve ==
    /\ io.pc = "dns" /\ up /\ io' = [io EXCEPT !.pc = "tcp"]
    /\ UNCHANGED <<bits, connected, sockfd, lost, stream, others>>

\* The socket is connected and stored, the TLS context initialised in place.
SocketStored(old) == [sockfd |-> "live", lost |-> IF old = "none" THEN lost ELSE lost + 1]

TcpConnect ==
    /\ io.pc = "tcp" /\ up
    /\ LET stored == SocketStored(sockfd)
       IN  sockfd' = stored.sockfd /\ lost' = stored.lost
    /\ io' = [io EXCEPT !.pc = "tls"] /\ stream' = Whole
    /\ UNCHANGED <<bits, connected, others>>

\* TLS, the HTTP upgrade, the key of the relay, our key: each answers in time.
Exchanged ==
    /\ sockfd = "live"
    /\ \E k \in 1..Len(Exchange) - 1 :
        io.pc = Exchange[k] /\ io' = [io EXCEPT !.pc = Exchange[k + 1]]
    /\ UNCHANGED <<bits, connected, sockfd, lost, stream, others>>

\* What follows an attempt of either loop.
After(from) == IF from = "request" THEN "reconnect" ELSE "drain"

\* Mutant: the request is acknowledged when the connection is up.
Connected_AcknowledgesLate ==
    /\ io.pc = "serverInfo" /\ stream' = Whole
    /\ connected' = TRUE /\ bits' = (bits \ {"RECONNECT"}) \cup {"DERP_CONNECTED"}
    /\ io' = [io EXCEPT !.pc = After(io.from), !.attempt = 0, !.from = "none"]
    /\ UNCHANGED <<sockfd, lost, others>>

\* The result of reading ServerInfo and of writing NotePreferred is not looked at.
Connected ==
    /\ io.pc = "serverInfo"
    /\ \E rx \in {"whole", "serverInfo"}, tx \in IF sockfd = "dead" THEN {"whole", "reply"} ELSE {"whole"} :
        stream' = [tx |-> tx, rx |-> rx]
    /\ connected' = TRUE /\ bits' = bits \cup {"DERP_CONNECTED"}
    /\ io' = [io EXCEPT !.pc = After(io.from), !.attempt = 0, !.from = "none"]
    /\ UNCHANGED <<sockfd, lost, others>>

\* An attempt fails before there is a socket, or with the socket.
Failed ==
    \/ io.pc \in {"dns", "tcp"} /\ ~up /\ UNCHANGED sockfd
    \/ io.pc \in Stages \ {"dns", "tcp", "serverInfo"} /\ sockfd = "dead" /\ sockfd' = "none"

ConnectFails ==
    /\ Failed
    /\ io' = IF io.attempt < MaxAttempts
             THEN [io EXCEPT !.pc = "dns", !.attempt = @ + 1]
             ELSE [io EXCEPT !.pc = IF io.from = "request" THEN "reconnect" ELSE "top", !.attempt = 0, !.from = "none"]
    /\ UNCHANGED <<bits, connected, lost, stream, others>>

\* Mutant: nobody is told of the failure.
LosesConnection_Silently == connected' = FALSE /\ UNCHANGED bits

\* A failure of the connection: the task asks itself to reconnect.
LosesConnection ==
    connected' = FALSE /\ bits' = bits \cup {"RECONNECT"}

\* A write that fails leaves part of the frame behind.
WriteFails(by) == sockfd = "dead" /\ stream' = [stream EXCEPT !.tx = by]

\* Phase 1: one packet of the queue; after a failure the rest of the burst is freed.
Transmit ==
    /\ io.pc = "drain" /\ io.burst < TxBurst /\ queue # <<>>
    /\ queue' = Tail(queue) /\ io' = [io EXCEPT !.burst = @ + 1]
    /\ \/ UNCHANGED <<connected, bits, stream>>
       \/ connected /\ WriteFails("packet") /\ LosesConnection
    /\ UNCHANGED <<sockfd, lost, sending, coord, rebind, up, count>>

DrainEnds ==
    /\ io.pc = "drain" /\ (io.burst = TxBurst \/ queue = <<>>)
    /\ io' = [io EXCEPT !.pc = IF connected THEN "poll" ELSE "top", !.burst = 0]
    /\ UNCHANGED <<bits, connected, sockfd, lost, stream, others>>

\* Phase 2: a frame is dispatched; a ping is echoed, whatever comes of the write.
PollFrame ==
    /\ io.pc = "poll" /\ io.burst < RxBurst /\ stream.rx # "ended"
    /\ io' = [io EXCEPT !.burst = @ + 1]
    /\ UNCHANGED stream \/ WriteFails("reply")
    /\ UNCHANGED <<bits, connected, sockfd, lost, others>>

\* poll_derp_read finds nothing for 100 ms, or the burst is over.
PollNothing ==
    /\ io.pc = "poll"
    /\ io' = [io EXCEPT !.pc = "top", !.burst = 0]
    /\ UNCHANGED <<bits, connected, sockfd, lost, stream, others>>

\* Mutant: a frame that stays away for 5 s is taken for no data as well.
PollEnds_MidFrame ==
    /\ io.pc = "poll" /\ io.burst < RxBurst
    /\ stream' = [stream EXCEPT !.rx = "frame"]
    /\ io' = [io EXCEPT !.pc = "top", !.burst = 0]
    /\ UNCHANGED <<bits, connected, sockfd, lost, others>>

\* The stream ends, before a header or in the middle of a frame: the read has
\* returned 0, which poll_derp_read passes on and the task takes for no data.
PollEnds ==
    /\ io.pc = "poll" /\ io.burst < RxBurst /\ sockfd = "dead"
    /\ stream' = [stream EXCEPT !.rx = "ended"]
    /\ io' = [io EXCEPT !.pc = "top", !.burst = 0]
    /\ UNCHANGED <<bits, connected, sockfd, lost, others>>

\* A header of less than five bytes, a payload that does not come, an error.
PollFails ==
    /\ io.pc = "poll" /\ io.burst < RxBurst
    /\ \/ UNCHANGED stream
       \/ stream' = [stream EXCEPT !.rx = IF @ = "whole" THEN "frame" ELSE @]
    /\ LosesConnection
    /\ io' = [io EXCEPT !.pc = "top", !.burst = 0]
    /\ UNCHANGED <<sockfd, lost, others>>

IoTask ==
    \/ Top \/ Disconnect \/ Proceed \/ Resolve \/ TcpConnect \/ Exchanged
    \/ Connected \/ ConnectFails \/ Transmit \/ DrainEnds \/ PollFrame
    \/ PollNothing \/ PollEnds \/ PollFails
-----------------------------------------------------------------------------
(***************************************************************************)
(* ml_derp_queue_send: the callers are the lwIP thread and wg_mgr.         *)
(***************************************************************************)
mine == <<bits, io, connected, sockfd, lost, stream>>

\* Mutant: a handshake counts as one that went to the front, at the end.
Put_ToEnd(packets, class) ==
    Append(packets, [class |-> class, front |-> class = "handshake"])

\* A handshake goes to the front, anything else to the end.
Put(packets, class) ==
    IF class = "handshake"
    THEN <<[class |-> class, front |-> TRUE]>> \o packets
    ELSE Append(packets, [class |-> class, front |-> FALSE])

QueueSend(p) ==
    /\ sending[p].left = 0
    /\ \E class \in Classes :
        IF Len(queue) < Depth
        THEN queue' = Put(queue, class) /\ UNCHANGED sending
        ELSE /\ sending' = [sending EXCEPT ![p] = [class |-> class, left |-> 3, full |-> TRUE]]
             /\ UNCHANGED queue
    /\ UNCHANGED <<mine, coord, rebind, up, count>>

\* Full: the head of the queue makes room, and the packet goes to the end.
DropOldest(p) ==
    /\ sending[p].left > 0 /\ sending[p].full
    /\ queue' = IF queue = <<>> THEN queue ELSE Tail(queue)
    /\ sending' = [sending EXCEPT ![p].full = FALSE]
    /\ UNCHANGED <<mine, coord, rebind, up, count>>

Retry(p) ==
    /\ sending[p].left > 0 /\ ~sending[p].full
    /\ IF Len(queue) < Depth
       THEN /\ queue' = Append(queue, [class |-> sending[p].class, front |-> FALSE])
            /\ sending' = [sending EXCEPT ![p].left = 0, ![p].class = "other"]
       ELSE /\ sending' = [sending EXCEPT ![p].left = @ - 1, ![p].full = sending[p].left > 1,
                                          ![p].class = IF sending[p].left = 1 THEN "other" ELSE @]
            /\ UNCHANGED queue
    /\ UNCHANGED <<mine, coord, rebind, up, count>>

(***************************************************************************)
(* The coordination task after a map, and in its long poll.                *)
(***************************************************************************)
CheckRelay ==
    /\ coord = "away" /\ count.requests < MaxRequests
    /\ coord' = IF connected THEN "away" ELSE "asking"
    /\ count' = [count EXCEPT !.requests = @ + 1]
    /\ UNCHANGED <<mine, queue, sending, rebind, up>>

RequestConnect ==
    /\ coord = "asking" /\ coord' = "away"
    /\ bits' = bits \cup {"CONNECT_REQ"}
    /\ UNCHANGED <<io, connected, sockfd, lost, stream, queue, sending, rebind, up, count>>

NotePreferred ==
    /\ coord = "away" /\ connected /\ Len(queue) < Depth
    /\ queue' = Put(queue, "other")
    /\ UNCHANGED <<mine, sending, coord, rebind, up, count>>

(***************************************************************************)
(* microlink_rebind and microlink_stop, in the task of the link.           *)
(***************************************************************************)
Kill == sockfd' = IF sockfd = "live" THEN "dead" ELSE sockfd

\* The interface has changed; the bit of the old connection is cleared first.
RebindClears ==
    /\ rebind = "done" /\ count.rebinds < MaxRebinds /\ "SHUTDOWN" \notin bits
    /\ rebind' = "cleared" /\ count' = [count EXCEPT !.rebinds = @ + 1]
    /\ bits' = bits \ {"DERP_CONNECTED"} /\ Kill
    /\ UNCHANGED <<io, connected, lost, stream, queue, sending, coord, up>>

RebindSignals ==
    /\ rebind = "cleared" /\ rebind' = "done"
    /\ bits' = bits \cup {"RECONNECT"}
    /\ UNCHANGED <<io, connected, sockfd, lost, stream, queue, sending, coord, up, count>>

Stop ==
    /\ rebind = "done" /\ bits' = bits \cup {"SHUTDOWN"}
    /\ UNCHANGED <<io, connected, sockfd, lost, stream, queue, sending, coord, rebind, up, count>>

(***************************************************************************)
(* External: the relay.                                                    *)
(***************************************************************************)
Outage ==
    /\ up /\ count.outages < MaxOutages /\ up' = FALSE
    /\ count' = [count EXCEPT !.outages = @ + 1] /\ Kill
    /\ UNCHANGED <<bits, io, connected, lost, stream, queue, sending, coord, rebind>>

Recovery ==
    /\ ~up /\ up' = TRUE
    /\ UNCHANGED <<mine, queue, sending, coord, rebind, count>>

Next ==
    \/ IoTask \/ CheckRelay \/ RequestConnect \/ NotePreferred
    \/ RebindClears \/ RebindSignals \/ Stop \/ Outage \/ Recovery
    \/ \E p \in Producers : QueueSend(p) \/ DropOldest(p) \/ Retry(p)

Spec == Init /\ [][Next]_vars
\* The scheduler runs the I/O task, and a task inside a call goes on.
FairSpec == Spec /\ WF_vars(IoTask) /\ WF_vars(RebindSignals) /\ WF_vars(RequestConnect)
-----------------------------------------------------------------------------
Bits == {"DERP_CONNECTED", "RECONNECT", "CONNECT_REQ", "SHUTDOWN"}

\* Types and bounds: the queue holds at most ML_DERP_TX_QUEUE_DEPTH packets,
\* and a request leads to at most three attempts.
TypeOK ==
    /\ bits \subseteq Bits /\ connected \in BOOLEAN /\ lost \in Nat
    /\ sockfd \in {"none", "live", "dead"}
    /\ io \in [pc : {"top", "reconnect", "drain", "poll", "exited"} \cup Stages, seen : BOOLEAN,
               attempt : 0..MaxAttempts, from : {"none", "request", "reconnect"},
               burst : 0..TxBurst + RxBurst]
    /\ stream \in [tx : {"whole", "packet", "reply"}, rx : {"whole", "serverInfo", "frame", "ended"}]
    /\ queue \in Seq(Packets) /\ Len(queue) <= Depth
    /\ sending \in [Producers -> [class : Classes, left : 0..3, full : BOOLEAN]]
    /\ coord \in {"away", "asking"} /\ rebind \in {"done", "cleared"} /\ up \in BOOLEAN
    /\ count \in [outages : 0..MaxOutages, rebinds : 0..MaxRebinds, requests : 0..MaxRequests]

\* Whenever the I/O task looks at its requests and finds none to reconnect, the
\* flag, the socket and the event bit tell the same: there is no half-open
\* connection that nobody is going to close, whoever changed which of the three.
Settled ==
    io.pc \in {"top", "exited"} /\ "RECONNECT" \notin bits /\ rebind = "done"
        => (connected <=> sockfd # "none") /\ (connected <=> "DERP_CONNECTED" \in bits)

\* The connection the tasks see is the one the I/O task has.
ConnectionIsTold == TypeOK /\ Settled

\* No frame is read from a stream that is out of step with the frames of the
\* relay, and no packet taken from the queue and written to a stream in which
\* another broke off.  Only an ignored reply or ServerInfo tears a stream that
\* stays in use, and one that has ended, where nothing is left to be read.
TornIsAbandoned ==
    connected => stream.tx # "packet" /\ stream.rx # "frame"

\* ml_derp.c:347: poll_derp_read returns 0 for a timeout (no data), so that the
\* task stays connected only while there may be data to come.
\* The code does not keep it: see Findings in README.md.
ZeroMeansNoData == connected => stream.rx # "ended"

\* A handshake packet that went to the front is behind no ping or data packet,
\* whatever was queued, dropped or retried since.
HandshakesFirst ==
    \A j \in DOMAIN queue : queue[j].front => \A i \in 1..j : queue[i].class = "handshake"

\* A requested reconnection is not lost: while the relay can be reached it ends
\* in a connection on the interface that is current, even when the interface
\* changes again or a connection is asked for in the middle of it.
Reconnects ==
    "RECONNECT" \in bits /\ up ~> ~up \/ "SHUTDOWN" \in bits \/ (connected /\ sockfd = "live")

\* microlink.c:386: the request makes the task close TLS, then reconnect.  The
\* stored socket is never overwritten while it is open.
\* The code does not keep it: see Findings in README.md.
ClosesFirst == lost = 0
=============================================================================
