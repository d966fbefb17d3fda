---------------------------- MODULE MlDerp_proofs ---------------------------
(***************************************************************************)
(* Theorems about the relay connection of MlDerp, for any producers, queue *)
(* depth and bursts, and any number of outages, rebinds and requests.      *)
(*                                                                         *)
(* The three signs of a connection are changed by different tasks: the     *)
(* flag and the socket by the I/O task, the event bit by microlink_rebind  *)
(* too.  They agree only because whoever sets them apart leaves RECONNECT  *)
(* behind (SignsInv), and because an attempt, which parts them for a       *)
(* while, knows what it has (StageInv).                                    *)
(***************************************************************************)
EXTENDS MlDerp, SequenceTheorems, TLAPS

\* The stages at which the new socket is stored.
WithSocket == {"tls", "upgrade", "serverKey", "clientInfo", "serverInfo"}

\* An attempt runs only without a connection; from its TLS on it has a socket.
StageInv ==
    /\ io.pc \in Stages => ~connected
    /\ io.pc \in WithSocket => sockfd # "none"

\* A socket without the flag, or a flag without the bit, is to be reconnected.
SignsInv ==
    /\ connected => sockfd # "none"
    /\ io.pc \notin WithSocket /\ "RECONNECT" \notin bits => (connected <=> sockfd # "none")
    /\ rebind = "done" /\ "RECONNECT" \notin bits => (connected <=> "DERP_CONNECTED" \in bits)

SocketInv == TypeOK /\ StageInv /\ SignsInv

LEMMA StageNames ==
    /\ Stages = {"dns", "tcp"} \cup WithSocket
    /\ \A k \in 1..Len(Exchange) : Exchange[k] \in WithSocket
  <1>1. Len(Exchange) = 5 /\ 1..5 = {1, 2, 3, 4, 5}
    BY DEF Exchange
  <1> QED
    BY <1>1 DEF Stages, Exchange, WithSocket

-----------------------------------------------------------------------------
(***************************************************************************)
(* The queue.                                                              *)
(***************************************************************************)
\* What Put returns: one packet more, at the front only if it is a handshake.
LEMMA PutIsOrdered ==
  ASSUME NEW q \in Seq(Packets), NEW class \in Classes
  PROVE  /\ Put(q, class) \in Seq(Packets)
         /\ Len(Put(q, class)) = Len(q) + 1
         /\ class = "handshake" =>
              /\ Put(q, class)[1] = [class |-> class, front |-> TRUE]
              /\ \A i \in 2..Len(q) + 1 : Put(q, class)[i] = q[i - 1]
         /\ class # "handshake" =>
              /\ \A i \in 1..Len(q) : Put(q, class)[i] = q[i]
              /\ Put(q, class)[Len(q) + 1] = [class |-> class, front |-> FALSE]
  <1>1. CASE class = "handshake"
    <2> DEFINE p == [class |-> class, front |-> TRUE]
    <2>1. p \in Packets /\ <<p>> \in Seq(Packets) /\ Len(<<p>>) = 1 /\ <<p>>[1] = p
      BY DEF Packets
    <2>2. Put(q, class) = <<p>> \o q
      BY <1>1 DEF Put
    <2>3. /\ <<p>> \o q \in Seq(Packets) /\ Len(<<p>> \o q) = 1 + Len(q)
          /\ \A i \in 1 .. 1 + Len(q) : (<<p>> \o q)[i] = IF i <= 1 THEN <<p>>[i] ELSE q[i - 1]
      <3> HIDE DEF p
      <3> QED
        BY <2>1, ConcatProperties, SMT
    <2>4. Len(q) \in Nat
      BY LenProperties
    <2> QED
      <3> HIDE DEF p
      <3>1. (<<p>> \o q)[1] = p /\ \A i \in 2 .. Len(q) + 1 : (<<p>> \o q)[i] = q[i - 1]
        BY <2>1, <2>3, <2>4
      <3>2. Len(<<p>> \o q) = Len(q) + 1
        BY <2>3, <2>4
      <3> QED
        BY <1>1, <2>2, <2>3, <3>1, <3>2, Zenon DEF p
  <1>2. CASE class # "handshake"
    <2> DEFINE p == [class |-> class, front |-> FALSE]
    <2>1. p \in Packets /\ Put(q, class) = Append(q, p)
      BY <1>2 DEF Packets, Put
    <2> HIDE DEF p
    <2>2. /\ Append(q, p) \in Seq(Packets) /\ Len(Append(q, p)) = Len(q) + 1
          /\ \A i \in 1..Len(q) : Append(q, p)[i] = q[i]
          /\ Append(q, p)[Len(q) + 1] = p
      BY <2>1, AppendProperties, SMT
    <2> QED
      BY <1>2, <2>1, <2>2 DEF p
  <1> QED
    BY <1>1, <1>2

\* Each step leaves the queue alone, empties it, takes its head, or puts one
\* packet into a queue that has room for it.
QueueStep ==
    \/ queue' = queue
    \/ queue' = <<>>
    \/ queue # <<>> /\ queue' = Tail(queue)
    \/ Len(queue) < Depth /\ \E class \in Classes :
        queue' = Put(queue, class) \/ queue' = Append(queue, [class |-> class, front |-> FALSE])

LEMMA NextQueueStep ==
  ASSUME TypeOK, [Next]_vars
  PROVE  QueueStep
  <1>1. CASE IoTask
    BY <1>1 DEF IoTask, Top, Disconnect, Proceed, Resolve, TcpConnect, Exchanged, Connected,
                ConnectFails, Transmit, DrainEnds, PollFrame, PollNothing, PollEnds, PollFails, others, QueueStep
  <1>2. CASE CheckRelay \/ RequestConnect \/ RebindClears \/ RebindSignals \/ Stop \/ Outage \/ Recovery
    BY <1>2 DEF CheckRelay, RequestConnect, RebindClears, RebindSignals, Stop, Outage, Recovery, QueueStep
  <1>3. CASE NotePreferred
    BY <1>3 DEF NotePreferred, QueueStep, Classes
  <1>4. ASSUME NEW p \in Producers, QueueSend(p) \/ DropOldest(p) \/ Retry(p)
        PROVE  QueueStep
    <2>1. sending[p].class \in Classes
      BY DEF TypeOK
    <2> QED
      BY <1>4, <2>1 DEF QueueSend, DropOldest, Retry, QueueStep
  <1>5. CASE UNCHANGED vars
    BY <1>5 DEF vars, QueueStep
  <1> QED
    BY <1>1, <1>2, <1>3, <1>4, <1>5 DEF Next

LEMMA QueueIsBounded ==
  ASSUME TypeOK, QueueStep
  PROVE  queue' \in Seq(Packets) /\ Len(queue') <= Depth
  <1>1. Depth \in Nat /\ queue \in Seq(Packets) /\ Len(queue) \in Nat /\ Len(queue) <= Depth
    BY DerpAssumption, LenProperties DEF TypeOK
  <1>2. CASE queue' = queue \/ queue' = <<>>
    <2>1. <<>> \in Seq(Packets) /\ Len(<<>>) = 0
      BY EmptySeq, Zenon
    <2>2. 0 <= Depth
      BY <1>1
    <2> QED
      BY <1>1, <1>2, <2>1, <2>2, Zenon
  <1>3. CASE queue # <<>> /\ queue' = Tail(queue)
    BY <1>1, <1>3, HeadTailProperties
  <1>4. ASSUME Len(queue) < Depth, NEW class \in Classes,
               queue' = Put(queue, class) \/ queue' = Append(queue, [class |-> class, front |-> FALSE])
        PROVE  queue' \in Seq(Packets) /\ Len(queue') <= Depth
    <2>1. CASE queue' = Put(queue, class)
      <3>1. queue' \in Seq(Packets) /\ Len(queue') = Len(queue) + 1
        BY <1>1, <2>1, PutIsOrdered, Zenon
      <3> QED
        BY <1>1, <1>4, <3>1
    <2>2. CASE queue' = Append(queue, [class |-> class, front |-> FALSE])
      BY <1>1, <1>4, <2>2, AppendProperties DEF Packets
    <2> QED
      BY <1>4, <2>1, <2>2
  <1> QED
    BY <1>2, <1>3, <1>4 DEF QueueStep
-----------------------------------------------------------------------------
(***************************************************************************)
(* Types.                                                                  *)
(***************************************************************************)
LEMMA InitTypeOK == Init => TypeOK
  <1>1. /\ {Depth, MaxAttempts, TxBurst, RxBurst} \subseteq Nat
        /\ {MaxOutages, MaxRebinds, MaxRequests} \subseteq Nat
        /\ <<>> \in Seq(Packets) /\ Len(<<>>) = 0
    BY DerpAssumption, EmptySeq
  <1> SUFFICES ASSUME Init PROVE TypeOK
    OBVIOUS
  <1>2. io \in [pc : {"top"}, seen : BOOLEAN, attempt : 0..MaxAttempts, from : {"none"},
                burst : 0..TxBurst + RxBurst]
    BY <1>1 DEF Init
  <1>3. sending \in [Producers -> [class : Classes, left : 0..3, full : BOOLEAN]]
    BY DEF Init, Classes
  <1>4. count \in [outages : 0..MaxOutages, rebinds : 0..MaxRebinds, requests : 0..MaxRequests]
    BY <1>1 DEF Init
  <1>5. stream \in [tx : {"whole"}, rx : {"whole"}]
    BY DEF Init, Whole
  <1>6. queue \in Seq(Packets) /\ Len(queue) <= Depth
    <2>1. 0 <= Depth
      BY <1>1
    <2> QED
      BY <1>1, <2>1, Zenon DEF Init
  <1>7. bits \subseteq Bits /\ connected \in BOOLEAN /\ lost \in Nat
        /\ sockfd \in {"none", "live", "dead"}
        /\ coord \in {"away", "asking"} /\ rebind \in {"done", "cleared"} /\ up \in BOOLEAN
    BY DEF Init
  <1>8. io \in [pc : {"top", "reconnect", "drain", "poll", "exited"} \cup Stages, seen : BOOLEAN,
                attempt : 0..MaxAttempts, from : {"none", "request", "reconnect"},
                burst : 0..TxBurst + RxBurst]
    BY <1>2
  <1>9. stream \in [tx : {"whole", "packet", "reply"}, rx : {"whole", "serverInfo", "frame", "ended"}]
    BY <1>5
  <1> QED
    BY <1>3, <1>4, <1>6, <1>7, <1>8, <1>9, Zenon DEF TypeOK

LEMMA NextTypeOK ==
  ASSUME TypeOK, [Next]_vars
  PROVE  TypeOK'
  <1> DEFINE Pcs == {"top", "reconnect", "drain", "poll", "exited"} \cup Stages
             Sends == [class : Classes, left : 0..3, full : BOOLEAN]
  <1>q. queue' \in Seq(Packets) /\ Len(queue') <= Depth
    BY NextQueueStep, QueueIsBounded
  <1>n. /\ MaxAttempts \in Nat \ {0} /\ TxBurst \in Nat \ {0} /\ RxBurst \in Nat \ {0}
        /\ MaxOutages \in Nat /\ MaxRebinds \in Nat /\ MaxRequests \in Nat
    BY DerpAssumption
  <1>s. {"dns", "tcp", "tls"} \subseteq Stages
        /\ \A k \in 1..Len(Exchange) : Exchange[k] \in Stages
    BY StageNames DEF WithSocket
  <1>a. \A k \in 1..Len(Exchange) - 1 : Exchange[k + 1] \in Stages
    <2>1. Len(Exchange) = 5
      BY DEF Exchange
    <2> QED
      BY <1>s, <2>1
  <1>f. io \in [pc : Pcs, seen : BOOLEAN, attempt : 0..MaxAttempts,
                from : {"none", "request", "reconnect"}, burst : 0..TxBurst + RxBurst]
    BY DEF TypeOK
  <1> HIDE DEF Pcs
  <1>p. {"top", "reconnect", "drain", "poll", "exited"} \cup Stages \subseteq Pcs
    BY DEF Pcs
  <1>1. CASE IoTask
    <2>1. UNCHANGED <<sending, coord, rebind, up, count>>
      BY <1>1 DEF IoTask, Top, Disconnect, Proceed, Resolve, TcpConnect, Exchanged, Connected,
                  ConnectFails, Transmit, DrainEnds, PollFrame, PollNothing, PollEnds, PollFails, others
    <2>a. bits' \subseteq Bits /\ connected' \in BOOLEAN
      BY <1>1 DEF TypeOK, Bits, IoTask, Top, Disconnect, Proceed, Resolve, TcpConnect, Exchanged,
                  Connected, ConnectFails, Transmit, DrainEnds, PollFrame, PollNothing, PollEnds, PollFails,
                  LosesConnection
    <2>b. lost' \in Nat /\ sockfd' \in {"none", "live", "dead"}
      <3>1. CASE TcpConnect
        BY <3>1 DEF TypeOK, TcpConnect, SocketStored
      <3>2. CASE ~TcpConnect
        BY <1>1, <3>2 DEF TypeOK, IoTask, Top, Disconnect, Proceed, Resolve, Exchanged, Connected,
                    ConnectFails, Failed, Transmit, DrainEnds, PollFrame, PollNothing, PollEnds, PollFails
      <3> QED
        BY <3>1, <3>2
    <2>3. stream' \in [tx : {"whole", "packet", "reply"}, rx : {"whole", "serverInfo", "frame", "ended"}]
      BY <1>1 DEF TypeOK, IoTask, Top, Disconnect, Proceed, Resolve, TcpConnect, Whole,
                  Exchanged, Connected, ConnectFails, Transmit, DrainEnds, PollFrame, PollNothing,
                  PollEnds, PollFails, WriteFails
    <2>4. io' \in [pc : Pcs, seen : BOOLEAN, attempt : 0..MaxAttempts,
                   from : {"none", "request", "reconnect"}, burst : 0..TxBurst + RxBurst]
      <3>o. 0 \in 0..MaxAttempts /\ 1 \in 0..MaxAttempts
        BY <1>n
      <3>1. CASE Top
        <4>1. \E seen \in BOOLEAN :
                \/ io' = [io EXCEPT !.pc = "exited"]
                \/ io' = [[io EXCEPT !.seen = seen] EXCEPT !.pc = "dns", !.attempt = 1, !.from = "request"]
                \/ io' = [[io EXCEPT !.seen = seen] EXCEPT !.pc = "reconnect"]
          <5> DEFINE seen == "RECONNECT" \in bits
          <5>1. seen \in BOOLEAN
            OBVIOUS
          <5>2. \/ io' = [io EXCEPT !.pc = "exited"]
                \/ io' = [[io EXCEPT !.seen = seen] EXCEPT !.pc = "dns", !.attempt = 1, !.from = "request"]
                \/ io' = [[io EXCEPT !.seen = seen] EXCEPT !.pc = "reconnect"]
            BY <3>1, Zenon DEF Top, Begin
          <5> HIDE DEF seen
          <5> QED
            BY <5>1, <5>2, Zenon
        <4> QED
          BY <3>o, <1>s, <1>f, <1>p, <4>1
      <3>d. CASE Disconnect
        BY <3>o, <1>s, <1>f, <1>p, <3>d DEF Disconnect, Begin
      <3>2. CASE Proceed \/ Resolve \/ TcpConnect
        BY <1>n, <1>s, <1>f, <1>p, <3>2 DEF Proceed, Resolve, TcpConnect
      <3>3. CASE Exchanged
        BY <1>a, <1>f, <1>p, <3>3 DEF Exchanged
      <3>4. CASE Connected
        BY <3>o, <1>s, <1>f, <1>p, <3>4 DEF Connected, After
      <3>c. CASE ConnectFails
        <4>1. io.attempt < MaxAttempts => io.attempt + 1 \in 0..MaxAttempts
          <5>1. io.attempt \in 0..MaxAttempts
            BY <1>f
          <5> QED
            BY <1>n, <5>1
        <4> QED
          BY <4>1, <3>o, <1>s, <1>f, <1>p, <3>c DEF ConnectFails
      <3>b. io.burst < TxBurst \/ io.burst < RxBurst => io.burst + 1 \in 0..TxBurst + RxBurst
        <4>1. io.burst \in 0..TxBurst + RxBurst
          BY <1>f
        <4> QED
          BY <1>n, <4>1
      <3>z. 0 \in 0..TxBurst + RxBurst
        BY <1>n
      <3>5. CASE Transmit \/ DrainEnds
        BY <3>b, <3>z, <1>f, <1>p, <3>5 DEF Transmit, DrainEnds
      <3>6. CASE PollFrame \/ PollNothing \/ PollEnds \/ PollFails
        BY <3>b, <3>z, <1>f, <1>p, <3>6 DEF PollFrame, PollNothing, PollEnds, PollFails
      <3> QED
        BY <1>1, <3>1, <3>d, <3>2, <3>3, <3>4, <3>c, <3>5, <3>6 DEF IoTask
    <2> QED
      BY <1>q, <2>1, <2>a, <2>b, <2>3, <2>4 DEF TypeOK, Pcs
  <1>2. CASE CheckRelay \/ RequestConnect \/ RebindClears \/ RebindSignals \/ Stop \/ Outage \/ Recovery
    <2>1. UNCHANGED <<io, connected, lost, stream, sending>>
      BY <1>2 DEF CheckRelay, RequestConnect, RebindClears, RebindSignals, Stop, Outage, Recovery, mine
    <2>2. bits' \subseteq Bits /\ sockfd' \in {"none", "live", "dead"}
      BY <1>2 DEF TypeOK, Bits, CheckRelay, RequestConnect, RebindClears, RebindSignals, Stop,
                  Outage, Recovery, mine, Kill
    <2>3. coord' \in {"away", "asking"} /\ rebind' \in {"done", "cleared"} /\ up' \in BOOLEAN
      BY <1>2 DEF TypeOK, CheckRelay, RequestConnect, RebindClears, RebindSignals, Stop,
                  Outage, Recovery, mine
    <2>4. count' \in [outages : 0..MaxOutages, rebinds : 0..MaxRebinds, requests : 0..MaxRequests]
      <3>1. /\ count.outages \in 0..MaxOutages /\ count.rebinds \in 0..MaxRebinds
            /\ count.requests \in 0..MaxRequests
            /\ count = [outages |-> count.outages, rebinds |-> count.rebinds, requests |-> count.requests]
        BY DEF TypeOK
      <3>2. \/ count' = count
            \/ count.requests < MaxRequests /\ count' = [count EXCEPT !.requests = @ + 1]
            \/ count.rebinds < MaxRebinds /\ count' = [count EXCEPT !.rebinds = @ + 1]
            \/ count.outages < MaxOutages /\ count' = [count EXCEPT !.outages = @ + 1]
        BY <1>2 DEF CheckRelay, RequestConnect, RebindClears, RebindSignals, Stop, Outage, Recovery
      <3>3. CASE count.requests < MaxRequests /\ count' = [count EXCEPT !.requests = @ + 1]
        <4>1. count.requests + 1 \in 0..MaxRequests
          BY <1>n, <3>1, <3>3
        <4> QED
          BY <3>1, <3>3, <4>1
      <3>4. CASE count.rebinds < MaxRebinds /\ count' = [count EXCEPT !.rebinds = @ + 1]
        <4>1. count.rebinds + 1 \in 0..MaxRebinds
          BY <1>n, <3>1, <3>4
        <4> QED
          BY <3>1, <3>4, <4>1
      <3>5. CASE count.outages < MaxOutages /\ count' = [count EXCEPT !.outages = @ + 1]
        <4>1. count.outages + 1 \in 0..MaxOutages
          BY <1>n, <3>1, <3>5
        <4> QED
          BY <3>1, <3>5, <4>1
      <3> QED
        BY <3>1, <3>2, <3>3, <3>4, <3>5
    <2> QED
      BY <1>q, <2>1, <2>2, <2>3, <2>4 DEF TypeOK
  <1>3. CASE NotePreferred
    BY <1>q, <1>3 DEF TypeOK, NotePreferred, mine
  <1>4. ASSUME NEW p \in Producers, QueueSend(p) \/ DropOldest(p) \/ Retry(p)
        PROVE  TypeOK'
    <2>1. sending \in [Producers -> Sends] /\ sending[p].left \in 0..3
          /\ sending[p].class \in Classes /\ sending[p].full \in BOOLEAN
      BY DEF TypeOK
    <2>2. sending' \in [Producers -> Sends]
      <3>1. \/ sending' = sending
            \/ \E s \in Sends : sending' = [sending EXCEPT ![p] = s]
        <4>1. CASE QueueSend(p)
          <5>1. \A class \in Classes : [class |-> class, left |-> 3, full |-> TRUE] \in Sends
            OBVIOUS
          <5>2. \E class \in Classes :
                  \/ sending' = sending
                  \/ sending' = [sending EXCEPT ![p] = [class |-> class, left |-> 3, full |-> TRUE]]
            BY <4>1 DEF QueueSend
          <5> HIDE DEF Sends
          <5> QED
            BY <5>1, <5>2
        <4>2. CASE DropOldest(p)
          <5>1. [sending[p] EXCEPT !.full = FALSE] \in Sends
            BY <2>1
          <5> QED
            BY <4>2, <5>1 DEF DropOldest
        <4>3. CASE Retry(p)
          <5> DEFINE last == [class |-> "other", left |-> 0, full |-> sending[p].full]
                     again == [class |-> IF sending[p].left = 1 THEN "other" ELSE sending[p].class,
                               left |-> sending[p].left - 1, full |-> sending[p].left > 1]
          <5>1. last \in Sends
            BY <2>1 DEF Classes
          <5>2. again \in Sends
            <6>1. sending[p].left - 1 \in 0..3
              BY <2>1, <4>3 DEF Retry
            <6> QED
              BY <2>1, <6>1 DEF Classes
          <5>3. sending' \in {[sending EXCEPT ![p] = last], [sending EXCEPT ![p] = again]}
            BY <2>1, <4>3 DEF Retry
          <5> QED
            BY <5>1, <5>2, <5>3
        <4> QED
          BY <1>4, <4>1, <4>2, <4>3
      <3> QED
        BY <2>1, <3>1
    <2> QED
      BY <1>q, <1>4, <2>2 DEF TypeOK, QueueSend, DropOldest, Retry, mine
  <1>5. CASE UNCHANGED vars
    BY <1>5 DEF vars, TypeOK
  <1> QED
    BY <1>1, <1>2, <1>3, <1>4, <1>5 DEF Next

\* The variables keep their types and the queue its limit, whatever the tasks do.
THEOREM TypeCorrect == Spec => []TypeOK
  <1>1. Init => TypeOK
    BY InitTypeOK
  <1>2. TypeOK /\ [Next]_vars => TypeOK'
    BY NextTypeOK
  <1> QED
    BY <1>1, <1>2, PTL DEF Spec

-----------------------------------------------------------------------------
(***************************************************************************)
(* The signs of a connection.                                              *)
(***************************************************************************)
LEMMA InitSocketInv == Init => SocketInv
  <1> SUFFICES ASSUME Init PROVE SocketInv
    OBVIOUS
  <1>1. TypeOK
    BY InitTypeOK
  <1>2. "top" \notin Stages
    BY StageNames DEF WithSocket
  <1> QED
    BY <1>1, <1>2 DEF Init, SocketInv, StageInv, SignsInv, WithSocket

LEMMA IoTaskSocketInv ==
  ASSUME SocketInv, IoTask
  PROVE  StageInv' /\ SignsInv'
  <1> USE StageNames DEF SocketInv, StageInv, SignsInv, WithSocket
  <1>i. io \in [pc : {"top", "reconnect", "drain", "poll", "exited"} \cup Stages, seen : BOOLEAN,
                attempt : 0..MaxAttempts, from : {"none", "request", "reconnect"},
                burst : 0..TxBurst + RxBurst]
    BY DEF TypeOK
  <1>1. CASE Top
    BY <1>i, <1>1 DEF Top, Begin, others
  <1>2. CASE Disconnect
    BY <1>i, <1>2 DEF Disconnect, Begin
  <1>3. CASE Proceed
    BY <1>i, <1>3 DEF Proceed, others
  <1>4. CASE Resolve
    BY <1>i, <1>4 DEF Resolve, others
  <1>5. CASE TcpConnect
    BY <1>i, <1>5 DEF TcpConnect, SocketStored, others
  <1>6. CASE Exchanged
    <2>1. PICK k \in 1..Len(Exchange) - 1 :
            io.pc = Exchange[k] /\ io' = [io EXCEPT !.pc = Exchange[k + 1]]
      BY <1>6 DEF Exchanged
    <2>2. Len(Exchange) = 5
      BY DEF Exchange
    <2>3. io.pc \in WithSocket /\ io'.pc \in WithSocket
      BY <1>i, <2>1, <2>2
    <2> QED
      BY <1>6, <2>3 DEF Exchanged, others
  <1>7. CASE Connected
    BY <1>i, <1>7 DEF Connected, After, others
  <1>8. CASE ConnectFails
    BY <1>i, <1>8 DEF ConnectFails, Failed, others
  <1>9. CASE Transmit
    BY <1>i, <1>9 DEF Transmit, LosesConnection, others
  <1>10. CASE DrainEnds
    BY <1>i, <1>10 DEF DrainEnds, others
  <1>11. CASE PollFrame
    BY <1>i, <1>11 DEF PollFrame, others
  <1>13. CASE PollNothing
    BY <1>i, <1>13 DEF PollNothing, others
  <1>12. CASE PollFails
    BY <1>i, <1>12 DEF PollFails, LosesConnection, others
  <1>14. CASE PollEnds
    BY <1>i, <1>14 DEF PollEnds, others
  <1> QED
    BY <1>1, <1>2, <1>3, <1>4, <1>5, <1>6, <1>7, <1>8, <1>9, <1>10, <1>11, <1>12, <1>13,
       <1>14 DEF IoTask

LEMMA NextSocketInv ==
  ASSUME SocketInv, [Next]_vars
  PROVE  SocketInv'
  <1>1. TypeOK'
    BY NextTypeOK DEF SocketInv
  <1>2. CASE IoTask
    BY <1>1, <1>2, IoTaskSocketInv DEF SocketInv
  <1>3. ASSUME UNCHANGED io /\ UNCHANGED connected
        PROVE  StageInv' /\ SignsInv'
    <2> USE <1>3 DEF SocketInv, StageInv, SignsInv
    <2>1. CASE RebindClears
      BY <2>1 DEF RebindClears, Kill, TypeOK
    <2>2. CASE RebindSignals
      BY <2>2 DEF RebindSignals
    <2>3. CASE Outage
      BY <2>3 DEF Outage, Kill, TypeOK
    <2>4. CASE CheckRelay \/ RequestConnect \/ NotePreferred \/ Stop \/ Recovery
      BY <2>4 DEF CheckRelay, RequestConnect, NotePreferred, Stop, Recovery, mine
    <2>5. ASSUME NEW p \in Producers, QueueSend(p) \/ DropOldest(p) \/ Retry(p)
          PROVE  StageInv' /\ SignsInv'
      BY <2>5 DEF QueueSend, DropOldest, Retry, mine
    <2>6. CASE UNCHANGED vars
      BY <2>6 DEF vars
    <2>7. CASE IoTask
      BY <2>7, IoTaskSocketInv
    <2> QED
      BY <2>1, <2>2, <2>3, <2>4, <2>5, <2>6, <2>7 DEF Next
  <1>4. ~IoTask => UNCHANGED io /\ UNCHANGED connected
    BY DEF Next, CheckRelay, RequestConnect, NotePreferred, RebindClears, RebindSignals, Stop,
           Outage, Recovery, QueueSend, DropOldest, Retry, mine, vars
  <1> QED
    BY <1>1, <1>2, <1>3, <1>4 DEF SocketInv

LEMMA SocketInvIsKept == Spec => []SocketInv
  <1>1. Init => SocketInv
    BY InitSocketInv
  <1>2. SocketInv /\ [Next]_vars => SocketInv'
    BY NextSocketInv
  <1> QED
    BY <1>1, <1>2, PTL DEF Spec

\* ml_derp.c and microlink.c:386: whenever the I/O task finds nothing to
\* reconnect, the flag, the socket and the event bit tell the same.
THEOREM NoHalfOpenConnection == Spec => []ConnectionIsTold
  <1>1. SocketInv => ConnectionIsTold
    BY StageNames DEF SocketInv, SignsInv, ConnectionIsTold, Settled, WithSocket
  <1> QED
    BY <1>1, SocketInvIsKept, PTL

-----------------------------------------------------------------------------
(***************************************************************************)
(* The stream and the order of the queue.                                  *)
(***************************************************************************)
\* ml_derp_tx_task and poll_derp_read: a stream in which a packet of the queue, or
\* a frame whose rest may still come, has broken off is not used again, however
\* failures, ends of the stream and reconnections follow each other.
THEOREM TornStreamsAreAbandoned == Spec => []TornIsAbandoned
  <1>1. Init => TornIsAbandoned
    BY DEF Init, TornIsAbandoned
  <1>2. TypeOK /\ TornIsAbandoned /\ [Next]_vars => TornIsAbandoned'
    <2> SUFFICES ASSUME TypeOK, TornIsAbandoned, [Next]_vars
                 PROVE  TornIsAbandoned'
      OBVIOUS
    <2> USE DEF TypeOK, TornIsAbandoned
    <2>1. CASE Top \/ Proceed \/ Resolve \/ Exchanged \/ ConnectFails \/ DrainEnds \/ PollNothing
      BY <2>1 DEF Top, Proceed, Resolve, Exchanged, ConnectFails, DrainEnds, PollNothing, others
    <2>2. CASE Disconnect \/ TcpConnect
      BY <2>2 DEF Disconnect, TcpConnect, Whole
    <2>3. CASE Connected
      BY <2>3 DEF Connected
    <2>4. CASE Transmit
      BY <2>4 DEF Transmit, LosesConnection
    <2>5. CASE PollFrame
      BY <2>5 DEF PollFrame, WriteFails
    <2>6. CASE PollFails
      BY <2>6 DEF PollFails, LosesConnection
    <2>8. CASE PollEnds
      BY <2>8 DEF PollEnds
    <2>7. CASE ~IoTask
      BY <2>7 DEF Next, CheckRelay, RequestConnect, NotePreferred, RebindClears, RebindSignals,
                  Stop, Outage, Recovery, QueueSend, DropOldest, Retry, mine, vars
    <2> QED
      BY <2>1, <2>2, <2>3, <2>4, <2>5, <2>6, <2>7, <2>8 DEF IoTask
  <1> QED
    BY <1>1, <1>2, TypeCorrect, PTL DEF Spec

\* ml_derp_queue_send: what went to the front stays behind handshakes only.
THEOREM HandshakesStayFirst == Spec => []HandshakesFirst
  <1>1. Init => HandshakesFirst
    BY DEF Init, HandshakesFirst
  <1>2. TypeOK /\ HandshakesFirst /\ [Next]_vars => HandshakesFirst'
    <2> SUFFICES ASSUME TypeOK, HandshakesFirst, [Next]_vars
                 PROVE  HandshakesFirst'
      OBVIOUS
    <2>1. QueueStep /\ queue \in Seq(Packets) /\ Len(queue) \in Nat /\ DOMAIN queue = 1..Len(queue)
      BY NextQueueStep, LenProperties DEF TypeOK
    <2>2. queue' \in Seq(Packets) /\ Len(queue') \in Nat /\ DOMAIN queue' = 1..Len(queue')
      BY <2>1, QueueIsBounded, LenProperties
    <2>3. CASE queue' = queue \/ queue' = <<>>
      BY <2>3 DEF HandshakesFirst
    <2>4. CASE queue # <<>> /\ queue' = Tail(queue)
      <3>1. /\ Len(queue') = Len(queue) - 1
            /\ \A i \in 1..Len(queue') : queue'[i] = queue[i + 1]
        BY <2>1, <2>4, HeadTailProperties
      <3> SUFFICES ASSUME NEW j \in 1..Len(queue'), queue'[j].front, NEW i \in 1..j
                   PROVE  queue'[i].class = "handshake"
        BY <2>2 DEF HandshakesFirst
      <3>2. /\ i \in 1..Len(queue') /\ i + 1 \in 1..j + 1 /\ j + 1 \in 1..Len(queue)
            /\ queue'[i] = queue[i + 1] /\ queue'[j] = queue[j + 1]
        BY <2>1, <2>2, <3>1
      <3> QED
        BY <2>1, <3>2 DEF HandshakesFirst
    <2>5. ASSUME NEW class \in Classes, class = "handshake", queue' = Put(queue, class)
          PROVE  HandshakesFirst'
      <3>1. /\ queue'[1] = [class |-> class, front |-> TRUE] /\ Len(queue') = Len(queue) + 1
            /\ \A i \in 2..Len(queue) + 1 : queue'[i] = queue[i - 1]
        BY <2>1, <2>5, PutIsOrdered, Zenon
      <3> SUFFICES ASSUME NEW j \in 1..Len(queue'), queue'[j].front, NEW i \in 1..j
                   PROVE  queue'[i].class = "handshake"
        BY <2>2 DEF HandshakesFirst
      <3>2. CASE i = 1
        BY <2>5, <3>1, <3>2
      <3>3. CASE i # 1
        <4>1. /\ i - 1 \in 1..j - 1 /\ j - 1 \in 1..Len(queue)
              /\ i \in 2..Len(queue) + 1 /\ j \in 2..Len(queue) + 1
          BY <2>1, <2>2, <3>1, <3>3
        <4> QED
          BY <2>1, <3>1, <4>1 DEF HandshakesFirst
      <3> QED
        BY <3>2, <3>3
    <2>6. ASSUME NEW e \in Packets, ~e.front, Len(queue') = Len(queue) + 1, queue'[Len(queue) + 1] = e,
                 \A i \in 1..Len(queue) : queue'[i] = queue[i]
          PROVE  HandshakesFirst'
      <3> SUFFICES ASSUME NEW j \in 1..Len(queue'), queue'[j].front, NEW i \in 1..j
                   PROVE  queue'[i].class = "handshake"
        BY <2>2 DEF HandshakesFirst
      <3>1. j # Len(queue) + 1
        BY <2>6
      <3>2. j \in 1..Len(queue) /\ i \in 1..Len(queue)
        BY <2>1, <2>6, <3>1
      <3> QED
        BY <2>1, <2>6, <3>2 DEF HandshakesFirst
    <2>7. ASSUME NEW class \in Classes,
                 \/ class # "handshake" /\ queue' = Put(queue, class)
                 \/ queue' = Append(queue, [class |-> class, front |-> FALSE])
          PROVE  HandshakesFirst'
      <3> DEFINE e == [class |-> class, front |-> FALSE]
      <3>1. e \in Packets /\ ~e.front
        BY DEF Packets
      <3>2. /\ Len(queue') = Len(queue) + 1 /\ queue'[Len(queue) + 1] = e
            /\ \A i \in 1..Len(queue) : queue'[i] = queue[i]
        <4>1. queue' = Append(queue, e)
          BY <2>7 DEF Put
        <4> HIDE DEF e
        <4> QED
          BY <2>1, <3>1, <4>1, AppendProperties
      <3> HIDE DEF e
      <3> QED
        BY <2>6, <3>1, <3>2
    <2> QED
      BY <2>1, <2>3, <2>4, <2>5, <2>7 DEF QueueStep
  <1> QED
    BY <1>1, <1>2, TypeCorrect, PTL DEF Spec
=============================================================================
