----------------------------- MODULE WgSession ------------------------------
(***************************************************************************)
(* Two devices that run wireguard.c and wireguardif.c, each the only peer  *)
(* of the other: handshakes, the three keypairs of a peer, transport data, *)
(* keepalives, rekeying, expiry and the restart of a device.               *)
(*                                                                         *)
(* The network keeps every message for ever and delivers any of them any   *)
(* number of times: it loses, delays, duplicates and reorders.  The task   *)
(* wg_mgr makes all calls but one, each a step here: wireguardif_output    *)
(* runs in the thread of lwIP, without a lock, and is two steps, for what  *)
(* wg_mgr does between the use of a counter and its increment.             *)
(*                                                                         *)
(* Abstractions.  A session key is the pair of the indices of the          *)
(* initiation and the response it was derived from; an index is fresh (the *)
(* code draws 32 random bits).  The way of a packet, direct or by relay,   *)
(* is left to MlPaths.  Cookies are left out: the platform never           *)
(* reports load, so mac1 alone decides, and every message here carries a   *)
(* good one.  Time is counted in units that keep the order of the code's   *)
(* limits; a device reads its uptime.  The limit on initiations within one *)
(* millisecond is a loss.  The limits of 2^60 and 2^64 messages are out of *)
(* range, and an inner packet always has an allowed source.                *)
(***************************************************************************)
EXTENDS WgReplay

CONSTANTS Node,
          Callers,       \* the devices whose application connects and sends
          RekeyAfter,    \* REKEY_AFTER_TIME  (120 s)
          RejectAfter,   \* REJECT_AFTER_TIME (180 s)
          RekeyTimeout,  \* REKEY_TIMEOUT     (5 s)
          Keepalive,     \* keepalive_interval (10 s by default)
          MaxUptime,     \* bound: the clock
          MaxIndex,      \* bound: handshake messages created
          MaxPackets,    \* bound: packets the applications send
          MaxRestarts    \* bound: restarts of the devices

ASSUME SessionAssumption ==
    /\ {RekeyAfter, RejectAfter, RekeyTimeout, Keepalive, MaxUptime} \subseteq Nat \ {0}
    /\ {MaxIndex, MaxPackets, MaxRestarts} \subseteq Nat
    /\ RekeyTimeout + Keepalive < RejectAfter
    /\ RekeyAfter < RejectAfter
    /\ \E a, b \in Node : a # b /\ Node = {a, b}
    /\ Callers \subseteq Node

VARIABLES peer,      \* what each device keeps of the other
          uptime,    \* the clock of each device
          net,       \* every message ever sent
          index,     \* the last index drawn
          packets,   \* the packets sent so far: 1 .. packets
          restarts,  \* the restarts of each device
          sending,   \* wireguardif_output under way in the thread of lwIP
          raced,     \* history: the packets whose keypair changed under way
          got,       \* history: how often each packet was delivered
          confirmers \* history: the packets that confirmed a keypair

vars == <<peer, uptime, net, index, packets, restarts, sending, raced, got,
          confirmers>>

Other(n) == CHOOSE m \in Node : m # n
Empty == 0   \* the payload of a keepalive
Slots == {"curr", "next", "prev"}

\* wireguard_expired
Expired(n, since, limit) == uptime[n] - since >= limit
-----------------------------------------------------------------------------
\* A keypair cleared by keypair_destroy.
ZeroKeypair ==
    [valid |-> FALSE, init |-> FALSE, born |-> 0, tx |-> 0, rx |-> FALSE,
     window |-> EmptyWindow, local |-> 0, remote |-> 0, key |-> <<0, 0>>]

\* wireguard_peer_init and wireguardif_add_peer
NewPeer ==
    [active |-> FALSE, sendHandshake |-> FALSE,
     lastInitiationTx |-> 0, lastTx |-> 0, greatest |-> 0,
     handshake |-> 0, curr |-> ZeroKeypair, next |-> ZeroKeypair,
     prev |-> ZeroKeypair]

KeypairDestroy(p, slot) == [p EXCEPT ![slot] = ZeroKeypair]
DestroyAll(p) == [p EXCEPT !.curr = ZeroKeypair, !.next = ZeroKeypair,
                           !.prev = ZeroKeypair]

\* keypair_update: the first packet under the next keypair makes it current.
KeypairUpdate(p, slot) ==
    IF slot = "next"
    THEN [p EXCEPT !.prev = p.curr, !.curr = p.next, !.next = ZeroKeypair]
    ELSE p

\* A responder's keypair waits as the next one until it is confirmed.
AddNewKeypair(p, k) ==
    IF k.init
    THEN [p EXCEPT !.prev = IF p.next.valid THEN p.next ELSE p.curr,
                   !.next = IF p.next.valid THEN ZeroKeypair ELSE @,
                   !.curr = k]
    ELSE [p EXCEPT !.next = k, !.prev = ZeroKeypair]

\* The handshake is cleared once its session has started.
StartSession_HandshakeKept(n, p, init, local, remote) ==
    AddNewKeypair(p,
        [ZeroKeypair EXCEPT !.valid = TRUE, !.init = init, !.born = uptime[n],
                            !.local = local, !.remote = remote,
                            !.key = IF init THEN <<local, remote>>
                                            ELSE <<remote, local>>])
StartSession(n, p, init, local, remote) ==
    AddNewKeypair([p EXCEPT !.handshake = 0],
        [ZeroKeypair EXCEPT !.valid = TRUE, !.init = init, !.born = uptime[n],
                            !.local = local, !.remote = remote,
                            !.key = IF init THEN <<local, remote>>
                                            ELSE <<remote, local>>])

-----------------------------------------------------------------------------
\* No output of lwIP is under way.
Idle == [slot |-> "curr", k |-> ZeroKeypair, pkt |-> 0]

\* What a call leaves: the peer, and the messages it sent.
Result(p, out) == [peer |-> p, out |-> out]

\* The keypair to send with: a responder has to be confirmed first.
SendingSlot(p) ==
    IF p.curr.valid /\ ~ p.curr.init /\ ~ p.curr.rx THEN "prev" ELSE "curr"

Data(n, k, pkt) ==
    [type |-> "data", to |-> Other(n), idx |-> k.remote, key |-> k.key,
     byInit |-> k.init, ctr |-> k.tx, pkt |-> pkt]

CanSend(n, k) ==
    /\ k.valid
    /\ k.init \/ k.rx
    /\ ~ Expired(n, k.born, RejectAfter)

\* An expired keypair is cleared by the attempt to send with it.
OutputRefused(p) ==
    LET slot == SendingSlot(p) IN
    IF p[slot].valid /\ (p[slot].init \/ p[slot].rx) THEN KeypairDestroy(p, slot) ELSE p

\* The counter goes up, and an old session asks for a new one.
Sent(n, p, slot) ==
    [p EXCEPT ![slot].tx = @ + 1,
              !.lastTx = uptime[n],
              !.sendHandshake = @ \/ (p[slot].init /\ Expired(n, p[slot].born, RekeyAfter))]

\* wireguardif_output_to_peer
Output(n, p, pkt) ==
    LET slot == SendingSlot(p) IN
    IF CanSend(n, p[slot])
    THEN Result(Sent(n, p, slot), {Data(n, p[slot], pkt)})
    ELSE Result(OutputRefused(p), {})

\* wireguard_tai64n_now: seconds and nanoseconds since the device started.
\* The index breaks the ties of one unit of time.
Timestamp_Seconds(n, i) == uptime[n]
Timestamp(n, i) == uptime[n] * (MaxIndex + 1) + i

\* wireguard_create_handshake_initiation, under a fresh index
Initiation(n) ==
    [type |-> "init", to |-> Other(n), idx |-> index + 1,
     ts |-> Timestamp(n, index + 1), boot |-> restarts[n]]

\* wireguard_start_handshake: a handshake under way is forgotten.
StartHandshake(n, p) ==
    Result([p EXCEPT !.handshake = index + 1, !.sendHandshake = FALSE,
                     !.lastInitiationTx = uptime[n]],
           {Initiation(n)})

\* wireguard_process_initiation_message: whether the initiation is newer than
\* the last one accepted.  It replaces any handshake of the device's own.
AcceptsInitiation(p, m) == m.ts > p.greatest

\* wireguard_create_handshake_response, under a fresh index
Response(n, m) ==
    [type |-> "resp", to |-> Other(n), idx |-> m.idx, sender |-> index + 1]

\* wireguardif_send_handshake_response: the session starts unconfirmed.
SendHandshakeResponse(n, p, m) ==
    Result(StartSession(n, [p EXCEPT !.greatest = m.ts], FALSE, index + 1, m.idx),
           {Response(n, m)})

\* peer_lookup_by_handshake and wireguard_process_handshake_response
AcceptsResponse_Any(p, m) == p.handshake # 0
AcceptsResponse(p, m) == p.handshake = m.idx

\* process_response_message: the session starts with a keepalive.
ProcessResponse(n, p, m) ==
    Output(n, StartSession(n, p, TRUE, p.handshake, m.sender), Empty)
-----------------------------------------------------------------------------
\* get_peer_keypair_for_idx
SlotsFor(p, idx) == {s \in Slots : p[s].valid /\ p[s].local = idx}
SlotFor(p, idx) ==
    IF "curr" \in SlotsFor(p, idx) THEN "curr"
    ELSE CHOOSE s \in SlotsFor(p, idx) : "next" \in SlotsFor(p, idx) => s = "next"

Decrypts(k, m) == k.key = m.key /\ k.init # m.byInit

\* The peer once a packet has authenticated under the keypair in slot.  The
\* code goes on with the pointer to that slot, which keypair_update has just
\* cleared when the packet confirmed the next keypair.
Authenticated(n, p, slot, m) ==
    LET q == KeypairUpdate([p EXCEPT ![slot].rx = TRUE], slot)
    IN  [q EXCEPT !.sendHandshake = @ \/
             /\ q[slot].init
             /\ Expired(n, q[slot].born, RejectAfter - Keepalive - RekeyTimeout)]

\* The packet is new to the window the code asks.
NotReplayed_NoWindow(p, slot, m) == TRUE
NotReplayed(p, slot, m) == Fresh(p[slot].window, m.ctr + 1)

RecordPacket(p, slot, m) ==
    [p EXCEPT ![slot].window = Checked(@, m.ctr + 1)]

Delivers(n, p, slot, m) ==
    /\ ~ Expired(n, p[slot].born, RejectAfter)
    /\ Decrypts(p[slot], m)
    /\ m.pkt # Empty
    /\ NotReplayed(Authenticated(n, p, slot, m), slot, m)

\* wireguardif_process_data_message, once a keypair is found
ProcessData(n, p, slot, m) ==
    CASE Expired(n, p[slot].born, RejectAfter) -> KeypairDestroy(p, slot)
      [] ~ Expired(n, p[slot].born, RejectAfter) /\ ~ Decrypts(p[slot], m) -> p
      [] OTHER ->
            LET q == Authenticated(n, p, slot, m)
            IN  IF m.pkt = Empty THEN q ELSE RecordPacket(q, slot, m)
-----------------------------------------------------------------------------
Init ==
    /\ peer = [n \in Node |-> NewPeer]
    /\ uptime = [n \in Node |-> 1]
    /\ net = {}
    /\ index = 0
    /\ packets = 0
    /\ restarts = [n \in Node |-> 0]
    /\ sending = [n \in Node |-> Idle]
    /\ raced = {}
    /\ got = [x \in 1 .. MaxPackets |-> 0]
    /\ confirmers = {}

\* The effect of a call that delivers nothing.
Leaves(n, r) ==
    /\ peer' = [peer EXCEPT ![n] = r.peer]
    /\ net' = net \cup r.out

CanDraw == index < MaxIndex

Unchanged == UNCHANGED <<uptime, packets, restarts, got, confirmers>>

Tick ==
    /\ \A n \in Node : uptime[n] < MaxUptime
    /\ uptime' = [n \in Node |-> uptime[n] + 1]
    /\ UNCHANGED <<peer, net, index, packets, restarts, sending, raced, got, confirmers>>

\* wireguardif_connect and wireguardif_connect_derp
Connect(n) ==
    /\ n \in Callers
    /\ CanDraw
    /\ Leaves(n, StartHandshake(n, [peer[n] EXCEPT !.active = TRUE]))
    /\ index' = index + 1
    /\ UNCHANGED <<sending, raced>>
    /\ Unchanged

\* wireguardif_output, in the thread of lwIP: the packet is encrypted ...
SendBegin(n) ==
    LET p == peer[n]
        slot == SendingSlot(p)
    IN  /\ n \in Callers
        /\ sending[n] = Idle
        /\ packets < MaxPackets
        /\ packets' = packets + 1
        /\ IF CanSend(n, p[slot])
           THEN /\ sending' = [sending EXCEPT ![n] =
                                 [slot |-> slot, k |-> p[slot], pkt |-> packets + 1]]
                /\ UNCHANGED peer
           ELSE /\ peer' = [peer EXCEPT ![n] = OutputRefused(p)]
                /\ UNCHANGED sending
        /\ UNCHANGED <<uptime, net, index, restarts, raced, got, confirmers>>

\* ... and the counter of the keypair that is now in its place is increased,
\* and the packet sent.
SendEnd(n) ==
    LET begun == sending[n]
        k == peer[n][begun.slot]
    IN  /\ begun # Idle
        /\ Leaves(n, Result(Sent(n, peer[n], begun.slot), {Data(n, begun.k, begun.pkt)}))
        /\ sending' = [sending EXCEPT ![n] = Idle]
        /\ raced' = IF <<k.key, k.tx>> = <<begun.k.key, begun.k.tx>>
                    THEN raced ELSE raced \cup {begun.pkt}
        /\ UNCHANGED index
        /\ Unchanged

Reset(n, p) ==
    IF p.curr.valid /\ Expired(n, p.curr.born, 3 * RejectAfter)
    THEN DestroyAll(p)
    ELSE p

DestroyExpired(n, p) ==
    IF p.curr.valid /\ Expired(n, p.curr.born, RejectAfter)
    THEN KeypairDestroy(p, "curr")
    ELSE p

ShouldSendKeepalive(n, p) ==
    /\ p.curr.valid \/ p.prev.valid
    /\ Expired(n, p.lastTx, Keepalive)

ShouldSendInitiation(n, p) ==
    /\ p.lastInitiationTx = 0 \/ Expired(n, p.lastInitiationTx, RekeyTimeout)
    /\ \/ p.sendHandshake
       \/ p.curr.valid /\ ~ p.curr.init /\ Expired(n, p.curr.born, RejectAfter - Keepalive)
       \/ ~ p.curr.valid /\ p.active

\* wireguardif_periodic
Periodic(n) ==
    LET p == DestroyExpired(n, Reset(n, peer[n]))
        kept == IF ShouldSendKeepalive(n, p) THEN Output(n, p, Empty) ELSE Result(p, {})
        initiates == ShouldSendInitiation(n, kept.peer)
        done == IF initiates THEN StartHandshake(n, kept.peer) ELSE Result(kept.peer, {})
    IN  /\ initiates => CanDraw
        /\ Leaves(n, Result(done.peer, kept.out \cup done.out))
        /\ index' = IF initiates THEN index + 1 ELSE index
        /\ UNCHANGED <<sending, raced>>
        /\ Unchanged

\* wireguardif_network_rx
ReceiveInitiation(n, m) ==
    /\ m.type = "init"
    /\ AcceptsInitiation(peer[n], m)
    /\ CanDraw
    /\ Leaves(n, SendHandshakeResponse(n, peer[n], m))
    /\ index' = index + 1
    /\ UNCHANGED <<sending, raced>>
    /\ Unchanged

ReceiveResponse(n, m) ==
    /\ m.type = "resp"
    /\ AcceptsResponse(peer[n], m)
    /\ Leaves(n, ProcessResponse(n, peer[n], m))
    /\ UNCHANGED <<sending, raced, index>>
    /\ Unchanged

ReceiveData(n, m) ==
    /\ m.type = "data"
    /\ SlotsFor(peer[n], m.idx) # {}
    /\ LET slot == SlotFor(peer[n], m.idx)
           delivers == Delivers(n, peer[n], slot, m)
       IN  /\ peer' = [peer EXCEPT ![n] = ProcessData(n, @, slot, m)]
           /\ delivers => got[m.pkt] < 3   \* bound: three deliveries of a packet
           /\ got' = IF delivers THEN [got EXCEPT ![m.pkt] = @ + 1] ELSE got
           /\ confirmers' = IF delivers /\ slot = "next" THEN confirmers \cup {m.pkt}
                                                         ELSE confirmers
    /\ UNCHANGED <<uptime, net, index, packets, restarts, sending, raced>>

Receive(n) ==
    \E m \in net : /\ m.to = n
                   /\ ReceiveInitiation(n, m) \/ ReceiveResponse(n, m) \/ ReceiveData(n, m)

\* The device restarts: its clock and all its state begin again.
Restart(n) ==
    /\ n \in Callers   \* bound: only these restart
    /\ restarts[n] < MaxRestarts
    /\ restarts' = [restarts EXCEPT ![n] = @ + 1]
    /\ uptime' = [uptime EXCEPT ![n] = 1]
    /\ peer' = [peer EXCEPT ![n] = NewPeer]
    /\ sending' = [sending EXCEPT ![n] = Idle]
    /\ UNCHANGED <<net, index, packets, raced, got, confirmers>>

Next ==
    \/ Tick
    \/ \E n \in Node :
          \/ Connect(n) \/ SendBegin(n) \/ SendEnd(n) \/ Periodic(n) \/ Receive(n)
          \/ Restart(n)

Spec == Init /\ [][Next]_vars
-----------------------------------------------------------------------------
Keypairs == [valid : BOOLEAN, init : BOOLEAN, born : 0 .. MaxUptime, tx : Nat,
             rx : BOOLEAN, window : Windows, local : 0 .. MaxIndex,
             remote : 0 .. MaxIndex, key : (0 .. MaxIndex) \X (0 .. MaxIndex)]

Peers == [active : BOOLEAN, sendHandshake : BOOLEAN,
          lastInitiationTx : 0 .. MaxUptime, lastTx : 0 .. MaxUptime,
          greatest : Nat, handshake : 0 .. MaxIndex,
          curr : Keypairs, next : Keypairs, prev : Keypairs]

\* The shape of the state.
TypeOK ==
    /\ peer \in [Node -> Peers]
    /\ uptime \in [Node -> 1 .. MaxUptime]
    /\ index \in 0 .. MaxIndex
    /\ packets \in 0 .. MaxPackets
    /\ restarts \in [Node -> 0 .. MaxRestarts]
    /\ sending \in [Node -> [slot : Slots, k : Keypairs, pkt : 0 .. MaxPackets]]
    /\ raced \subseteq 1 .. MaxPackets
    /\ got \in [1 .. MaxPackets -> 0 .. 3]
    /\ confirmers \subseteq 1 .. MaxPackets

DataInFlight == {m \in net : m.type = "data"}
Initiations == {m \in net : m.type = "init"}

\* A keypair found by the index of a packet decrypts it: whatever handshakes
\* crossed, were repeated or lost, the two ends never file different keys
\* under the same index.
KeysAgree ==
    \A m \in DataInFlight, s \in Slots :
        LET k == peer[m.to][s] IN k.valid /\ k.local = m.idx => Decrypts(k, m)

\* Nobody sends under a key the other end has not derived: the initiator has
\* the responder's answer, and the responder waits for the initiator's first
\* packet under the key.
KeyIsShared ==
    \A m \in DataInFlight :
        IF m.byInit
        THEN \E r \in net : r.type = "resp" /\ m.key = <<r.idx, r.sender>>
        ELSE \E d \in DataInFlight : d.byInit /\ d.key = m.key

\* The two ends of a session have the same keys for what they send each other.
EndsAgree == TypeOK /\ KeysAgree /\ KeyIsShared

SameNonce(m, k) == m.key = k.key /\ m.byInit = k.byInit /\ m.ctr = k.ctr

\* A counter is used once under a key and a direction, whatever handshakes are
\* repeated, unless wg_mgr changed the keypair while lwIP was sending with it.
NoNonceReuse ==
    \A m, k \in DataInFlight :
        SameNonce(m, k) /\ m.pkt # k.pkt => m.pkt \in raced \/ k.pkt \in raced

\* microlink_internal.h:6 says "No shared mutable state between tasks - each
\* owns its data exclusively": then no counter is used twice at all.
\* The code does not keep it: see Findings in README.md.
TasksShareNothing == \A m, k \in DataInFlight : SameNonce(m, k) => m.pkt = k.pkt

\* A packet is delivered again only if it was the one that confirmed a
\* keypair, and then at most once more.
OnlyConfirmersRepeat ==
    \A x \in 1 .. packets : got[x] > 1 => x \in confirmers /\ got[x] = 2

\* An initiation refused as a replay, and newer than the one accepted last.
RefusedThoughNewer(m, e) ==
    /\ m.to = e.to
    /\ e.ts = peer[m.to].greatest
    /\ m.ts <= e.ts
    /\ m.idx > e.idx

\* Within one boot of the sender the greatest_timestamp check refuses only what
\* is old: an initiation is heard even when another left in the same second.
NewerInitiationIsHeard ==
    \A m, e \in Initiations : m.boot = e.boot => ~ RefusedThoughNewer(m, e)

\* wireguard-platform-esp32.c:23 says of the timestamp of an initiation "For
\* simplicity, use Unix epoch time": time that goes on over a restart, so that
\* no initiation is refused for one made before it.
\* The code does not keep it: see Findings in README.md.
RestartIsHeard == \A m, e \in Initiations : ~ RefusedThoughNewer(m, e)

\* wireguardif.c:490 and 559 check each packet "for packet replay / dupes", so
\* that a packet reaches the IP layer once.
\* The code does not keep it: see Findings in README.md.
DeliveredOnce == \A x \in 1 .. packets : got[x] <= 1
=============================================================================
