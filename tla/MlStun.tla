------------------------------- MODULE MlStun -------------------------------
(***************************************************************************)
(* How the coordination task learns its public endpoint and the kind of    *)
(* its NAT: the probes and answers of ml_stun.c, the way of an answer      *)
(* through the task net_io, and the STUN part of the long poll of          *)
(* ml_coord.c.  The servers and the NAT are external.                      *)
(*                                                                         *)
(* A turn of the long poll takes one answer from stun_rx_queue, then       *)
(* retries, then probes afresh, as each is due.  A probe overwrites the    *)
(* transaction id, and an answer is known by it, so an answer under way is *)
(* current or not; an accepted answer makes the id invalid, and then any   *)
(* answer passes.  A mapping is the port a NAT shows to a server for a     *)
(* socket; a cone NAT shows all servers the same.  IPv6 has a transaction  *)
(* id of its own.  How often the fallback is asked is as in the code; how  *)
(* long an answer takes is not modelled.                                   *)
(***************************************************************************)
EXTENDS Naturals, Sequences, FiniteSets

CONSTANTS QueueDepth,   \* ML_STUN_RX_QUEUE_DEPTH (4)
          MaxRetries,   \* ML_STUN_MAX_RETRIES (3)
          Resolved,     \* the servers whose IPv4 address is known
          HasIPv6,      \* the primary has an IPv6 address
          Symmetric,    \* the NAT maps each destination to a port of its own
          MaxMoves,     \* bound: changes of the network
          MaxFlight     \* bound: answers on the network at once

Servers == {"primary", "fallback"}

ASSUME StunAssumption ==
    /\ {QueueDepth, MaxRetries} \subseteq Nat \ {0} /\ {MaxMoves, MaxFlight} \subseteq Nat
    /\ Resolved \subseteq Servers /\ Resolved # {}
    /\ {HasIPv6, Symmetric} \subseteq BOOLEAN

VARIABLES stun,    \* the fields stun_* and txid_* of the device
          flight,  \* answers on the network
          queue,   \* stun_rx_queue
          polling, \* the coordination task is in its long poll
          moves,   \* changes of the network so far
          disco,   \* disco_sock4 is open
          told,    \* history: the mapping in the last endpoint update
          quick    \* from now on answers are quick, and none is lost

vars == <<stun, flight, queue, polling, moves, disco, told, quick>>

None == [net |-> 0, to |-> "none", by |-> "none"]

\* The mapping the NAT shows to a server now, for the socket a probe leaves by.
Mapping(server) ==
    [net |-> moves + 1,
     to |-> IF Symmetric THEN server ELSE "any",
     by |-> IF disco THEN "disco" ELSE "stun"]

\* The port of an IPv6 result is another.
Mapping6 == [net |-> moves + 1, to |-> "v6", by |-> "stun6"]
-----------------------------------------------------------------------------
\* A result of a call: the device, and the answers it has asked for.
Result(s, asked) == [s |-> s, asked |-> asked]

\* ml_stun_send_probe_to: a new transaction id.
Probe(s, server) ==
    Result([s EXCEPT !.valid = TRUE],
           {[server |-> server, port |-> Mapping(server), current |-> TRUE]})

\* ml_stun_send_probe_ipv6
Probe6(s) ==
    IF HasIPv6
    THEN Result([s EXCEPT !.valid6 = TRUE],
                {[server |-> "primary", port |-> Mapping6, current |-> TRUE]})
    ELSE Result(s, {})

\* The check of the kind of NAT asks the other server.
ProbeForNat(s) ==
    IF ~ s.natChecked /\ "fallback" \in Resolved THEN Probe(s, "fallback") ELSE Result(s, {})

\* A fresh sequence: STUN_PROBE, and every 23 seconds of the long poll.
FreshProbe(s) ==
    LET server == IF "primary" \in Resolved THEN "primary" ELSE "fallback"
        fresh == [s EXCEPT !.retry = 1, !.usingFallback = server = "fallback"]
        six == Probe6(Probe(fresh, server).s)
    IN  Result(six.s, Probe(fresh, server).asked \cup six.asked)

RetryDue(s) == s.retry \in 1 .. MaxRetries

\* A retry; the last one at the primary turns to the fallback at once.
Retry(s) ==
    LET server == IF ~ s.usingFallback /\ "primary" \in Resolved THEN "primary" ELSE "fallback"
        again == [s EXCEPT !.retry = @ + 1]
        turns == again.retry > MaxRetries /\ ~ s.usingFallback
        next == IF turns THEN [again EXCEPT !.usingFallback = TRUE, !.retry = 1] ELSE again
        last == IF turns THEN "fallback" ELSE server
    IN  IF last \in Resolved THEN Probe(next, last)
        ELSE IF server \in Resolved THEN Probe(next, server) ELSE Result(next, {})

\* ml_stun_parse_response: any answer passes when the id is no longer valid.
IsV6(a) == a.port.by = "stun6"
Accepts(s, a) ==
    IF IsV6(a) THEN s.valid6 /\ a.current ELSE s.valid => a.current

\* The results of IPv4 in turn: the first, the second, and the later ones.
First(s, a) ==
    ProbeForNat([s EXCEPT !.public = a.port, !.from = a.server, !.retry = 0])
Second(s, a) ==
    Result([s EXCEPT !.natChecked = TRUE, !.varies = s.public # a.port,
                     !.checkedWith = a.server], {})
Later(s, a) == Result([s EXCEPT !.public = a.port, !.retry = 0], {})

Taken4(s, a) ==
    CASE s.from = "none" -> First(s, a)
      [] s.from # "none" /\ ~ s.natChecked -> Second(s, a)
      [] OTHER -> Later(s, a)

\* An IPv6 result; its port stands in until there is one of IPv4.
Taken6(s, a) ==
    ProbeForNat([s EXCEPT !.has6 = TRUE, !.retry = 0,
                          !.public = IF s.public = None THEN a.port ELSE @])

\* One answer taken from the queue.
Taken_PortKnown(s, a) ==
    IF ~ Accepts(s, a) THEN Result(s, {})
    ELSE IF IsV6(a) THEN Taken6([s EXCEPT !.valid6 = FALSE], a)
    ELSE LET t == [s EXCEPT !.valid = FALSE]
         IN  CASE s.public = None -> First(t, a)
               [] s.public # None /\ ~ s.natChecked -> Second([t EXCEPT !.from = a.server], a)
               [] OTHER -> Later(t, a)
Taken(s, a) ==
    IF ~ Accepts(s, a) THEN Result(s, {})
    ELSE IF IsV6(a) THEN Taken6([s EXCEPT !.valid6 = FALSE], a)
    ELSE Taken4([s EXCEPT !.valid = FALSE], a)
-----------------------------------------------------------------------------
Init ==
    /\ stun = [valid |-> FALSE, valid6 |-> FALSE, retry |-> 0, usingFallback |-> FALSE,
               public |-> None, from |-> "none", has6 |-> FALSE,
               natChecked |-> FALSE, varies |-> FALSE, checkedWith |-> "none"]
    /\ flight = {} /\ queue = <<>>
    /\ polling = FALSE /\ moves = 0 /\ disco = TRUE
    /\ told = None /\ quick = FALSE

\* A new probe makes the answers to the former ones stale.
Outdate(a, asked) ==
    [a EXCEPT !.current = @ /\ ~ \E b \in asked : IsV6(a) = IsV6(b)]
Ask(q, asked) ==
    /\ flight' = {Outdate(a, asked) : a \in flight} \cup asked
    /\ queue' = [i \in 1 .. Len(q) |-> Outdate(q[i], asked)]
    /\ Cardinality(flight') <= MaxFlight

\* STUN_PROBE, and the set-up of the connection after it.
StunProbe ==
    /\ ~ polling
    /\ LET r == FreshProbe(stun) IN stun' = r.s /\ Ask(queue, r.asked)
    /\ polling' = TRUE
    /\ UNCHANGED <<moves, disco, told, quick>>

ConnectionLost ==
    /\ polling /\ ~ quick
    /\ polling' = FALSE
    /\ UNCHANGED <<stun, flight, queue, moves, disco, told, quick>>

\* The network answers within the two seconds of a retry.
Settled == quick => flight = {} /\ queue = <<>>

\* No answer is later than the 23 seconds between two fresh sequences.
Expired == queue = <<>> /\ \A a \in flight : ~ a.current

\* A turn of the long poll takes an answer and tells the control server.
TakeAnswer ==
    /\ polling /\ queue # <<>>
    /\ LET a == Head(queue)
           r == Taken(stun, a)
       IN  /\ stun' = r.s
           /\ Ask(Tail(queue), r.asked)
           /\ told' = IF Accepts(stun, a) THEN r.s.public ELSE told
    /\ UNCHANGED <<polling, moves, disco, quick>>

RetryProbe ==
    /\ polling /\ RetryDue(stun) /\ Settled
    /\ LET r == Retry(stun) IN stun' = r.s /\ Ask(queue, r.asked)
    /\ UNCHANGED <<polling, moves, disco, told, quick>>

Reprobe_FirstOnly ==
    /\ polling /\ Settled /\ Expired /\ ~ stun.natChecked
    /\ LET r == FreshProbe(stun) IN stun' = r.s /\ flight' = r.asked
    /\ UNCHANGED <<queue, polling, moves, disco, told, quick>>
Reprobe ==
    /\ polling /\ Settled /\ Expired
    /\ LET r == FreshProbe(stun) IN stun' = r.s /\ flight' = r.asked
    /\ UNCHANGED <<queue, polling, moves, disco, told, quick>>

\* net_io hands an answer to the queue, or drops it when the queue is full;
\* the network may deliver it twice.
Deliver ==
    \E a \in flight, again \in BOOLEAN :
        /\ again => ~ quick
        /\ flight' = IF again THEN flight ELSE flight \ {a}
        /\ queue' = IF Len(queue) < QueueDepth THEN Append(queue, a) ELSE queue
        /\ UNCHANGED <<stun, polling, moves, disco, told, quick>>

Lose ==
    /\ ~ quick
    /\ \E a \in flight : flight' = flight \ {a}
    /\ UNCHANGED <<stun, queue, polling, moves, disco, told, quick>>

\* microlink_rebind closes the sockets of the old network, and opens the one
\* of DISCO on the new one; meanwhile a probe leaves by stun_sock.
RebindCloses ==
    /\ disco /\ moves < MaxMoves
    /\ moves' = moves + 1 /\ disco' = FALSE /\ flight' = {}
    /\ UNCHANGED <<stun, queue, polling, told, quick>>

RebindOpens ==
    /\ ~ disco /\ disco' = TRUE
    /\ UNCHANGED <<stun, flight, queue, polling, moves, told, quick>>

NetworkIsQuick ==
    /\ ~ quick /\ quick' = TRUE
    /\ UNCHANGED <<stun, flight, queue, polling, moves, disco, told>>

Next ==
    \/ StunProbe \/ ConnectionLost \/ TakeAnswer \/ RetryProbe \/ Reprobe
    \/ Deliver \/ Lose \/ RebindCloses \/ RebindOpens \/ NetworkIsQuick

Spec == Init /\ [][Next]_vars

\* The tasks run, the link task ends its rebind, and the network delivers.
FairSpec ==
    /\ Spec
    /\ WF_vars(StunProbe) /\ WF_vars(TakeAnswer) /\ WF_vars(Reprobe)
    /\ WF_vars(Deliver) /\ WF_vars(RebindOpens)
-----------------------------------------------------------------------------
Ports == [net : 0 .. MaxMoves + 1, to : Servers \cup {"none", "any", "v6"},
          by : {"none", "disco", "stun", "stun6"}]
Answers == [server : Servers, port : Ports, current : BOOLEAN]

\* The shape of the state.
TypeOK ==
    /\ stun \in [valid : BOOLEAN, valid6 : BOOLEAN, retry : 0 .. MaxRetries + 1,
                 usingFallback : BOOLEAN, public : Ports, from : Servers \cup {"none"},
                 has6 : BOOLEAN, natChecked : BOOLEAN, varies : BOOLEAN,
                 checkedWith : Servers \cup {"none"}]
    /\ flight \subseteq Answers
    /\ queue \in Seq(Answers) /\ Len(queue) <= QueueDepth
    /\ {polling, disco, quick} \subseteq BOOLEAN
    /\ moves \in 0 .. MaxMoves /\ told \in Ports

\* A cone NAT is never taken for a symmetric one while the network is the
\* same: whatever answers are late, doubled or of IPv6, two ports that differ
\* were shown to two servers.
SymmetricIsReal == stun.varies /\ moves = 0 => Symmetric

\* What the task keeps of its answers is well formed and never overrates the NAT.
VerdictIsSound == TypeOK /\ SymmetricIsReal

\* Once the network is quick, and settled, the control server has been told
\* where it sees the DISCO socket of the present network, whatever was lost,
\* late or asked for on another socket before.
EndpointIsTold == <>[](quick => told.net = moves + 1 /\ told.by = "disco")

\* ml_coord.c:2360 calls what the verdict on the NAT compares the "Second STUN
\* result (fallback)": the two results are of different servers.
\* The code does not keep it: see Findings in README.md.
VerdictComparesServers == stun.natChecked => stun.from # stun.checkedWith
=============================================================================
