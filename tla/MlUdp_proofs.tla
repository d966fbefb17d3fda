---------------------------- MODULE MlUdp_proofs ----------------------------
(***************************************************************************)
(* Theorems about what MicroLink learns from its UDP sockets: the          *)
(* endpoint and the verdict on the NAT in MlStun, for any depth of the     *)
(* queue, retries, servers, kind of NAT, changes of the network and        *)
(* answers under way, and the paths in MlPaths, for any peers, probes,     *)
(* trust, updates and blocked paths.                                       *)
(*                                                                         *)
(* The verdict compares the last result with the one before it, whoever    *)
(* gave them. That it is sound on a cone NAT rests on every IPv4 answer    *)
(* having the one port of the present network, which the device then has   *)
(* as its public one (Sound), as long as there was no other network. The   *)
(* tables of peers agree because no key is in two slots of either          *)
(* (Agrees); what a call does beyond that is Mild, or moves one endpoint   *)
(* (Moved).                                                                *)
(***************************************************************************)
EXTENDS MlStun, MlPaths, SequenceTheorems, WellFoundedInduction, TLAPS
\* Behind a cone NAT and in the first network, every server sees this port.
OnePort == [net |-> 1, to |-> "any", by |-> "disco"]
OneNetwork == moves = 0 /\ ~Symmetric

Device ==
    [valid : BOOLEAN, valid6 : BOOLEAN, retry : 0 .. MaxRetries + 1,
     usingFallback : BOOLEAN, public : Ports, from : Servers \cup {"none"},
     has6 : BOOLEAN, natChecked : BOOLEAN, varies : BOOLEAN,
     checkedWith : Servers \cup {"none"}]

\* What the device may know, and the answers that may reach it.
Sound(s) == OneNetwork => ~s.varies /\ (s.from # "none" => s.public = OnePort)
Devices == {s \in Device : Sound(s)}
Genuine == {a \in Answers : OneNetwork => IsV6(a) \/ a.port = OnePort}

NetworkInv == moves \in 0 .. MaxMoves /\ disco \in BOOLEAN /\ (moves = 0 => disco)

IInv ==
    /\ NetworkInv
    /\ stun \in Devices /\ flight \subseteq Genuine
    /\ queue \in Seq(Genuine) /\ Len(queue) <= QueueDepth
    /\ polling \in BOOLEAN /\ quick \in BOOLEAN /\ told \in Ports

\* A result that leaves the device, and asks for answers, as they may be.
Fine(r) == r.s \in Devices /\ r.asked \subseteq Genuine

LEMMA InvariantSuffices == IInv => VerdictIsSound
  <1>1. SUFFICES ASSUME IInv PROVE VerdictIsSound
    OBVIOUS
  <1>2. Genuine \subseteq Answers
    BY DEF Genuine
  <1>3. queue \in Seq(Answers) /\ flight \subseteq Answers
    BY <1>1, <1>2 DEF IInv
  <1>4. stun \in Device /\ Sound(stun)
    BY <1>1 DEF IInv, Devices
  <1>5. TypeOK
    BY <1>1, <1>3, <1>4 DEF IInv, NetworkInv, TypeOK, Device
  <1>6. SymmetricIsReal
    BY <1>4 DEF Sound, OneNetwork, SymmetricIsReal
  <1> QED
    BY <1>5, <1>6 DEF VerdictIsSound

-----------------------------------------------------------------------------
(***************************************************************************)
(* Probes.                                                                 *)
(***************************************************************************)
LEMMA Bounds == MaxRetries \in Nat \ {0} /\ MaxMoves \in Nat /\ QueueDepth \in Nat \ {0}
                /\ Resolved \subseteq Servers
                /\ HasIPv6 \in BOOLEAN /\ Symmetric \in BOOLEAN
  BY StunAssumption

\* An answer to a probe sent now shows the port of the present network.
LEMMA PortsAreGenuine ==
  ASSUME NetworkInv
  PROVE  /\ \A server \in Servers :
              [server |-> server, port |-> Mapping(server), current |-> TRUE] \in Genuine
         /\ [server |-> "primary", port |-> Mapping6, current |-> TRUE] \in Genuine
         /\ None \in Ports
  <1>1. moves + 1 \in 0 .. MaxMoves + 1 /\ 0 \in 0 .. MaxMoves + 1
    BY Bounds DEF NetworkInv
  <1>2. ASSUME NEW server \in Servers
        PROVE  [server |-> server, port |-> Mapping(server), current |-> TRUE] \in Genuine
    <2>1. Mapping(server) \in Ports
      BY <1>1 DEF Mapping, Ports
    <2>2. OneNetwork => Mapping(server) = OnePort
      BY DEF OneNetwork, Mapping, OnePort, NetworkInv
    <2> QED
      BY <2>1, <2>2 DEF Genuine, Answers
  <1>3. [server |-> "primary", port |-> Mapping6, current |-> TRUE] \in Genuine
    <2>1. Mapping6 \in Ports /\ Mapping6.by = "stun6"
      BY <1>1 DEF Mapping6, Ports
    <2>2. "primary" \in Servers
      BY DEF Servers
    <2> QED
      BY <2>1, <2>2 DEF Genuine, Answers, IsV6
  <1>4. None \in Ports
    BY <1>1 DEF None, Ports
  <1> QED
    BY <1>2, <1>3, <1>4

\* The fields that a probe, a retry or an answer changes without a verdict.
LEMMA FieldsKeepDevice ==
  ASSUME NEW s \in Devices
  PROVE  /\ \A b \in BOOLEAN : [s EXCEPT !.valid = b] \in Devices
         /\ \A b \in BOOLEAN : [s EXCEPT !.valid6 = b] \in Devices
         /\ \A n \in 0 .. MaxRetries + 1 : [s EXCEPT !.retry = n] \in Devices
         /\ \A n \in 0 .. MaxRetries + 1, b \in BOOLEAN :
               [s EXCEPT !.retry = n, !.usingFallback = b] \in Devices
  BY DEF Devices, Device, Sound

LEMMA ProbeIsFine ==
  ASSUME NetworkInv, NEW s \in Devices, NEW server \in Servers
  PROVE  Fine(Probe(s, server))
  BY PortsAreGenuine, FieldsKeepDevice DEF Probe, Result, Fine

LEMMA NothingIsFine == ASSUME NEW s \in Devices PROVE Fine(Result(s, {}))
  BY DEF Result, Fine

LEMMA Probe6IsFine ==
  ASSUME NetworkInv, NEW s \in Devices
  PROVE  Fine(Probe6(s))
  <1>1. CASE HasIPv6
    BY <1>1, PortsAreGenuine, FieldsKeepDevice DEF Probe6, Result, Fine
  <1>2. CASE ~HasIPv6
    BY <1>2, NothingIsFine DEF Probe6
  <1> QED
    BY <1>1, <1>2

LEMMA ProbeForNatIsFine ==
  ASSUME NetworkInv, NEW s \in Devices
  PROVE  Fine(ProbeForNat(s))
  BY ProbeIsFine, NothingIsFine DEF ProbeForNat, Servers

LEMMA FreshProbeIsFine ==
  ASSUME NetworkInv, NEW s \in Devices
  PROVE  Fine(FreshProbe(s))
  <1> DEFINE server == IF "primary" \in Resolved THEN "primary" ELSE "fallback"
             fresh == [s EXCEPT !.retry = 1, !.usingFallback = server = "fallback"]
             four == Probe(fresh, server)
             six == Probe6(four.s)
  <1>1. server \in Servers /\ 1 \in 0 .. MaxRetries + 1
    BY Bounds DEF Servers
  <1>2. fresh \in Devices
    BY <1>1, FieldsKeepDevice
  <1>3. Fine(four)
    BY <1>1, <1>2, ProbeIsFine
  <1>4. Fine(six)
    BY <1>3, Probe6IsFine DEF Fine
  <1>5. FreshProbe(s) = Result(six.s, four.asked \cup six.asked)
    BY DEF FreshProbe
  <1> HIDE DEF four, six
  <1> QED
    BY <1>3, <1>4, <1>5 DEF Fine, Result

LEMMA RetryIsFine ==
  ASSUME NetworkInv, NEW s \in Devices, RetryDue(s)
  PROVE  Fine(Retry(s))
  <1> DEFINE server == IF ~ s.usingFallback /\ "primary" \in Resolved THEN "primary"
                       ELSE "fallback"
             again == [s EXCEPT !.retry = @ + 1]
             turns == again.retry > MaxRetries /\ ~ s.usingFallback
             next == IF turns THEN [again EXCEPT !.usingFallback = TRUE, !.retry = 1] ELSE again
             last == IF turns THEN "fallback" ELSE server
  <1>1. s.retry + 1 \in 0 .. MaxRetries + 1 /\ 1 \in 0 .. MaxRetries + 1
    BY Bounds DEF RetryDue
  <1>2. again \in Devices
    BY <1>1, FieldsKeepDevice
  <1>3. [again EXCEPT !.usingFallback = TRUE, !.retry = 1] \in Devices
    BY <1>1, <1>2 DEF Devices, Device, Sound
  <1>4. next \in Devices
    BY <1>2, <1>3
  <1>5. last \in Servers /\ server \in Servers
    BY DEF Servers
  <1>6. Retry(s) = IF last \in Resolved THEN Probe(next, last)
                   ELSE IF server \in Resolved THEN Probe(next, server) ELSE Result(next, {})
    BY DEF Retry
  <1> HIDE DEF next, last, server
  <1> QED
    BY <1>4, <1>5, <1>6, ProbeIsFine, NothingIsFine

-----------------------------------------------------------------------------
(***************************************************************************)
(* Answers.                                                                *)
(***************************************************************************)
\* An IPv4 result, first, second or later.
LEMMA Taken4IsFine ==
  ASSUME NetworkInv, NEW s \in Devices, NEW a \in Genuine, ~IsV6(a)
  PROVE  Fine(Taken4(s, a))
  <1>1. a.port \in Ports /\ a.server \in Servers /\ (OneNetwork => a.port = OnePort)
    BY DEF Genuine, Answers
  <1>2. 0 \in 0 .. MaxRetries + 1
    BY Bounds
  <1>3. CASE s.from = "none"
    <2>1. [s EXCEPT !.public = a.port, !.from = a.server, !.retry = 0] \in Devices
      BY <1>1, <1>2 DEF Devices, Device, Sound
    <2> QED
      BY <1>3, <2>1, ProbeForNatIsFine DEF Taken4, First
  <1>4. CASE s.from # "none" /\ ~s.natChecked
    <2>1. OneNetwork => s.public = a.port
      BY <1>1, <1>4 DEF Devices, Sound
    <2>2. [s EXCEPT !.natChecked = TRUE, !.varies = s.public # a.port,
                    !.checkedWith = a.server] \in Devices
      BY <1>1, <2>1 DEF Devices, Device, Sound
    <2>3. Taken4(s, a) = Second(s, a)
      BY <1>4 DEF Taken4
    <2> QED
      BY <2>2, <2>3, NothingIsFine DEF Second
  <1>5. CASE s.from # "none" /\ s.natChecked
    <2>1. [s EXCEPT !.public = a.port, !.retry = 0] \in Devices
      BY <1>1, <1>2 DEF Devices, Device, Sound
    <2>2. Taken4(s, a) = Later(s, a)
      BY <1>5 DEF Taken4
    <2> QED
      BY <2>1, <2>2, NothingIsFine DEF Later
  <1> QED
    BY <1>3, <1>4, <1>5 DEF Devices, Device

\* An IPv6 result stands in for the port only while there is none.
LEMMA Taken6IsFine ==
  ASSUME NetworkInv, NEW s \in Devices, NEW a \in Genuine
  PROVE  Fine(Taken6(s, a))
  <1> DEFINE public == IF s.public = None THEN a.port ELSE s.public
             taken == [s EXCEPT !.has6 = TRUE, !.retry = 0, !.public = public]
  <1>1. a.port \in Ports /\ 0 \in 0 .. MaxRetries + 1
    BY Bounds DEF Genuine, Answers
  <1>2. OneNetwork /\ s.from # "none" => public = OnePort
    BY DEF Devices, Sound, OnePort, None
  <1>3. public \in Ports
    BY <1>1 DEF Devices, Device
  <1>4. Taken6(s, a) = ProbeForNat(taken)
    BY DEF Taken6
  <1> HIDE DEF public
  <1>5. taken \in Devices
    BY <1>1, <1>2, <1>3 DEF Devices, Device, Sound
  <1> HIDE DEF taken
  <1> QED
    BY <1>4, <1>5, ProbeForNatIsFine

LEMMA TakenIsFine ==
  ASSUME NetworkInv, NEW s \in Devices, NEW a \in Genuine
  PROVE  Fine(Taken(s, a))
  <1>1. CASE ~Accepts(s, a)
    BY <1>1, NothingIsFine DEF Taken
  <1>2. CASE Accepts(s, a) /\ IsV6(a)
    <2>1. [s EXCEPT !.valid6 = FALSE] \in Devices
      BY FieldsKeepDevice
    <2> QED
      BY <1>2, <2>1, Taken6IsFine DEF Taken
  <1>3. CASE Accepts(s, a) /\ ~IsV6(a)
    <2>1. [s EXCEPT !.valid = FALSE] \in Devices
      BY FieldsKeepDevice
    <2> QED
      BY <1>3, <2>1, Taken4IsFine DEF Taken
  <1> QED
    BY <1>1, <1>2, <1>3

\* Probing makes answers stale and adds those it has asked for.
LEMMA AskKeepsGenuine ==
  ASSUME flight \subseteq Genuine, NEW q \in Seq(Genuine), Len(q) <= QueueDepth,
         NEW asked \in SUBSET Genuine, Ask(q, asked)
  PROVE  flight' \subseteq Genuine /\ queue' \in Seq(Genuine) /\ Len(queue') <= QueueDepth
  <1>1. ASSUME NEW a \in Genuine PROVE Outdate(a, asked) \in Genuine
    <2>1. a \in Answers /\ a.current \in BOOLEAN
      BY DEF Genuine, Answers
    <2> DEFINE still == a.current /\ ~ \E b \in asked : IsV6(a) = IsV6(b)
    <2>2. Outdate(a, asked) = [a EXCEPT !.current = still] /\ still \in BOOLEAN
      BY <2>1 DEF Outdate
    <2> HIDE DEF still
    <2>3. /\ [a EXCEPT !.current = still] \in Answers
          /\ [a EXCEPT !.current = still].port = a.port
      BY <2>1, <2>2 DEF Answers
    <2> QED
      BY <2>2, <2>3 DEF Genuine, IsV6
  <1>2. flight' \subseteq Genuine
    BY <1>1 DEF Ask
  <1>3. \A i \in 1 .. Len(q) : q[i] \in Genuine
    OBVIOUS
  <1>4. queue' = [i \in 1 .. Len(q) |-> Outdate(q[i], asked)]
    BY DEF Ask
  <1>5. queue' \in [1 .. Len(q) -> Genuine] /\ Len(q) \in Nat
    BY <1>1, <1>3, <1>4
  <1>6. queue' \in Seq(Genuine) /\ Len(queue') = Len(q)
    BY <1>5
  <1> QED
    BY <1>2, <1>6

-----------------------------------------------------------------------------
LEMMA InvariantInit == Init => IInv
  <1>1. SUFFICES ASSUME Init PROVE IInv
    OBVIOUS
  <1>2. NetworkInv
    BY <1>1, Bounds DEF Init, NetworkInv
  <1>3. stun \in Devices
    BY <1>1, <1>2, Bounds, PortsAreGenuine DEF Init, Devices, Device, Sound
  <1>4. queue \in Seq(Genuine) /\ Len(queue) <= QueueDepth
    <2>1. queue = <<>>
      BY <1>1 DEF Init
    <2> QED
      BY <2>1, Bounds
  <1>5. polling \in BOOLEAN /\ quick \in BOOLEAN
    BY <1>1, Zenon DEF Init
  <1>6. told \in Ports /\ flight \subseteq Genuine
    BY <1>1, <1>2, PortsAreGenuine DEF Init
  <1> QED
    BY <1>2, <1>3, <1>4, <1>5, <1>6 DEF IInv

\* Steps that leave the network as it is keep what may be known of it.
LEMMA SameNetwork ==
  ASSUME UNCHANGED moves
  PROVE  Devices' = Devices /\ Genuine' = Genuine
  BY DEF Devices, Genuine, Sound, OneNetwork

LEMMA InvariantStep == IInv /\ [Next]_vars => IInv'
  <1> SUFFICES ASSUME IInv, [Next]_vars PROVE IInv'
    OBVIOUS
  <1>a. /\ NetworkInv /\ stun \in Devices /\ flight \subseteq Genuine
        /\ queue \in Seq(Genuine) /\ Len(queue) <= QueueDepth
        /\ polling \in BOOLEAN /\ quick \in BOOLEAN /\ told \in Ports
    BY DEF IInv
  <1>b. ASSUME UNCHANGED moves, NetworkInv', stun' \in Devices, flight' \subseteq Genuine,
               queue' \in Seq(Genuine), Len(queue') <= QueueDepth,
               polling' \in BOOLEAN, quick' \in BOOLEAN, told' \in Ports
        PROVE  IInv'
    BY <1>b, SameNetwork DEF IInv
  <1>c. ASSUME NEW r, Fine(r), NEW q \in Seq(Genuine), Len(q) <= QueueDepth,
               stun' = r.s, Ask(q, r.asked), UNCHANGED <<moves, disco>>,
               polling' \in BOOLEAN, quick' \in BOOLEAN, told' \in Ports
        PROVE  IInv'
    BY <1>a, <1>b, <1>c, AskKeepsGenuine DEF Fine, NetworkInv
  <1>1. CASE StunProbe
    BY <1>1, <1>a, <1>c, FreshProbeIsFine DEF StunProbe
  <1>2. CASE ConnectionLost
    BY <1>2, <1>a, <1>b DEF ConnectionLost, NetworkInv
  <1>3. CASE TakeAnswer
    <2> DEFINE a == Head(queue)
               r == Taken(stun, a)
    <2>1. a \in Genuine /\ Tail(queue) \in Seq(Genuine) /\ Len(Tail(queue)) <= QueueDepth
      BY <1>3, <1>a, Bounds DEF TakeAnswer
    <2>2. Fine(r)
      BY <1>a, <2>1, TakenIsFine
    <2>3. r.s.public \in Ports
      BY <2>2 DEF Fine, Devices, Device
    <2>4. /\ stun' = r.s /\ Ask(Tail(queue), r.asked)
          /\ told' \in {r.s.public, told}
          /\ UNCHANGED <<polling, moves, disco, quick>>
      BY <1>3 DEF TakeAnswer
    <2> HIDE DEF r
    <2> QED
      BY <1>a, <1>c, <2>1, <2>2, <2>3, <2>4
  <1>4. CASE RetryProbe
    BY <1>4, <1>a, <1>c, RetryIsFine DEF RetryProbe
  <1>5. CASE Reprobe
    <2>1. Fine(FreshProbe(stun))
      BY <1>a, FreshProbeIsFine
    <2> QED
      BY <1>5, <1>a, <1>b, <2>1 DEF Reprobe, Fine, NetworkInv
  <1>6. CASE Deliver
    <2>1. PICK a \in flight, again \in BOOLEAN :
             /\ flight' = IF again THEN flight ELSE flight \ {a}
             /\ queue' = IF Len(queue) < QueueDepth THEN Append(queue, a) ELSE queue
             /\ UNCHANGED <<stun, polling, moves, disco, told, quick>>
      BY <1>6 DEF Deliver
    <2>2. flight' \subseteq Genuine /\ a \in Genuine
      BY <1>a, <2>1
    <2>3. queue' \in Seq(Genuine) /\ Len(queue') <= QueueDepth
      BY <1>a, <2>1, <2>2, Bounds
    <2> QED
      BY <1>a, <1>b, <2>1, <2>2, <2>3 DEF NetworkInv
  <1>7. CASE Lose
    BY <1>7, <1>a, <1>b DEF Lose, NetworkInv
  <1>8. CASE RebindCloses
    <2>1. /\ moves' = moves + 1 /\ moves < MaxMoves /\ disco' = FALSE /\ flight' = {}
          /\ UNCHANGED <<stun, queue, polling, told, quick>>
      BY <1>8 DEF RebindCloses
    <2>2. NetworkInv' /\ moves' # 0
      <3>1. moves' \in 0 .. MaxMoves /\ moves' # 0
        BY <1>a, <2>1, Bounds DEF NetworkInv
      <3>2. disco' \in BOOLEAN
        BY <2>1
      <3> QED
        BY <3>1, <3>2 DEF NetworkInv
    <2>3. Devices' = Device /\ Genuine' = Answers
      BY <2>2 DEF Devices, Genuine, Sound, OneNetwork
    <2>4. stun \in Device /\ Genuine \subseteq Answers
      BY <1>a DEF Devices, Genuine
    <2>5. queue \in Seq(Answers)
      BY <1>a, <2>4
    <2> QED
      BY <1>a, <2>1, <2>2, <2>3, <2>4, <2>5 DEF IInv
  <1>9. CASE RebindOpens
    BY <1>9, <1>a, <1>b DEF RebindOpens, NetworkInv
  <1>10. CASE NetworkIsQuick
    BY <1>10, <1>a, <1>b DEF NetworkIsQuick, NetworkInv
  <1>11. CASE UNCHANGED vars
    BY <1>11, <1>a, <1>b DEF vars, NetworkInv
  <1> QED
    BY <1>1, <1>2, <1>3, <1>4, <1>5, <1>6, <1>7, <1>8, <1>9, <1>10, <1>11 DEF Next

\* The device never takes a cone NAT for a symmetric one before its network
\* changes, however many answers are late, doubled, of IPv6 or out of order,
\* and what it keeps of them stays within its types.
THEOREM VerdictsAreSound == Spec => []VerdictIsSound
  <1>1. Spec => []IInv
    BY InvariantInit, InvariantStep, PTL DEF Spec
  <1> QED
    BY <1>1, InvariantSuffices, PTL
-----------------------------------------------------------------------------
(***************************************************************************)
(* The least element, and with it induction over the natural numbers.      *)
(***************************************************************************)
Smaller == {p \in Nat \X Nat : p[1] < p[2]}

LEMMA SmallerIsWellFounded == IsWellFoundedOn(Smaller, Nat)
  <1>1. OpToRel(<, Nat) = Smaller
    BY DEF OpToRel, Smaller
  <1> QED
    BY <1>1, NatLessThanWellFounded, Zenon

LEMMA LeastNat ==
  ASSUME NEW T, T \subseteq Nat, T # {}
  PROVE  \E n \in T : \A m \in T : n <= m
  <1>1. \E x \in T : \A y \in T : ~ (<<y, x>> \in Smaller)
    BY SmallerIsWellFounded, WFMin, Zenon
  <1>2. PICK x \in T : \A y \in T : ~ (<<y, x>> \in Smaller)
    BY <1>1
  <1>3. \A y \in T : x <= y
    <2> TAKE y \in T
    <2>1. ~ (<<y, x>> \in Smaller)
      BY <1>2
    <2> QED
      BY <2>1 DEF Smaller
  <1> QED
    BY <1>3

LEMMA MinIsIn ==
  ASSUME NEW T, T \subseteq Nat, T # {}
  PROVE  Min(T) \in T
  <1>1. \E n \in T : \A m \in T : n <= m
    BY LeastNat
  <1> QED
    BY <1>1 DEF Min
-----------------------------------------------------------------------------
(***************************************************************************)
(* The device: its tables, and what a call may do to them.                 *)
(***************************************************************************)
SlotsOfPeers == [key : Keys \cup {NoKey}, active : BOOLEAN, direct : BOOLEAN, trust : 0..Trust,
                 best : Keys \cup {NoKey}, tried : BOOLEAN, wg : {0} \cup Indices]
WgPeers == [key : Keys \cup {NoKey}, ip : Keys \cup {NoKey}, session : BOOLEAN, active : BOOLEAN]
ProbeSlots == [slot : {0} \cup Indices, to : Keys \cup {NoKey}]
ProbeAnswers == [probe : Probes, via : {"derp", "direct"}]

PathDevices == [slot : [Indices -> SlotsOfPeers], wg : [Indices -> WgPeers],
            probe : [Probes -> ProbeSlots], answers : SUBSET ProbeAnswers]

DeviceOK(d) == d \in PathDevices /\ \A a \in d.answers : d.probe[a.probe].slot # 0

\* A call that leaves the tables alone, blanks endpoints at most, and makes no
\* peer without a session active.
Mild(d, e) ==
    /\ DeviceOK(e)
    /\ \A i \in Indices : /\ e.slot[i].key = d.slot[i].key
                          /\ e.slot[i].active = d.slot[i].active
                          /\ e.slot[i].wg = d.slot[i].wg
    /\ \A j \in Indices : /\ e.wg[j].key = d.wg[j].key
                          /\ e.wg[j].session = d.wg[j].session
                          /\ e.wg[j].ip \in {d.wg[j].ip, NoKey}
                          /\ e.wg[j].active => d.wg[j].active \/ d.wg[j].session

LEMMA Constants ==
  /\ MaxPeers \in Nat /\ MaxPeers >= 1 /\ MaxProbes \in Nat /\ Trust \in Nat /\ Trust >= 1
  /\ NoKey \notin Keys /\ Indices \subseteq Nat /\ Probes \subseteq Nat /\ 0 \notin Indices
  BY PathsAssumption DEF Indices, Probes

LEMMA MildChain ==
  ASSUME NEW d, NEW e, NEW f, Mild(d, e), Mild(e, f)
  PROVE  Mild(d, f)
  BY DEF Mild

LEMMA MildSame ==
  ASSUME NEW d, DeviceOK(d)
  PROVE  Mild(d, d)
  BY DEF Mild

LEMMA RegisteredIsMild ==
  ASSUME NEW d, DeviceOK(d), NEW i \in Indices, NEW ways, ways \subseteq {"derp", "direct"}
  PROVE  Mild(d, Registered(d, i, ways))
  <1> DEFINE free == {n \in Probes : d.probe[n].slot = 0}
  <1>1. CASE free = {}
    <2>1. Registered(d, i, ways) = d
      BY <1>1 DEF Registered
    <2> QED
      BY <2>1, MildSame
  <1>2. CASE free # {}
    <2>1. PICK n : n = Min(free)
      OBVIOUS
    <2>2. n \in free
      BY <1>2, <2>1, MinIsIn, Constants
    <2>3. PICK e : e = [d EXCEPT !.probe[n] = [slot |-> i, to |-> d.slot[i].key],
                               !.answers = @ \cup {[probe |-> n, via |-> w] : w \in ways}]
      OBVIOUS
    <2>4. Registered(d, i, ways) = e
      BY <1>2, <2>1, <2>3 DEF Registered
    <2>5. /\ e.slot = d.slot /\ e.wg = d.wg
          /\ e.probe = [d.probe EXCEPT ![n] = [slot |-> i, to |-> d.slot[i].key]]
          /\ e.answers = d.answers \cup {[probe |-> n, via |-> w] : w \in ways}
          /\ e = [slot |-> e.slot, wg |-> e.wg, probe |-> e.probe, answers |-> e.answers]
      BY <2>3 DEF DeviceOK, PathDevices
    <2>6. /\ d.slot \in [Indices -> SlotsOfPeers] /\ d.wg \in [Indices -> WgPeers]
          /\ d.probe \in [Probes -> ProbeSlots] /\ d.answers \subseteq ProbeAnswers
          /\ \A a \in d.answers : d.probe[a.probe].slot # 0
      BY DEF DeviceOK, PathDevices
    <2>7. [slot |-> i, to |-> d.slot[i].key] \in ProbeSlots
      BY <2>6 DEF ProbeSlots, SlotsOfPeers
    <2>8. e.probe \in [Probes -> ProbeSlots] /\ e.answers \subseteq ProbeAnswers
      BY <2>2, <2>5, <2>6, <2>7 DEF ProbeAnswers
    <2>9. \A a \in e.answers : e.probe[a.probe].slot # 0
      <3>1. e.probe[n].slot # 0
        BY <2>2, <2>5, <2>6, Constants
      <3>2. \A a \in ProbeAnswers : a.probe \in Probes
        BY DEF ProbeAnswers
      <3>3. ASSUME NEW a \in e.answers PROVE e.probe[a.probe].slot # 0
        <4>1. CASE a.probe = n
          BY <3>1, <4>1
        <4>2. CASE a.probe # n
          BY <2>5, <2>6, <3>2, <4>2
        <4> QED
          BY <4>1, <4>2
      <3> QED
        BY <3>3
    <2>10. DeviceOK(e)
      BY <2>5, <2>6, <2>8, <2>9 DEF DeviceOK, PathDevices
    <2> QED
      BY <2>4, <2>5, <2>6, <2>10 DEF Mild, WgPeers
  <1> QED
    BY <1>1, <1>2

LEMMA PingIsMild ==
  ASSUME NEW d, DeviceOK(d), NEW i \in Indices
  PROVE  Mild(d, Ping(d, i))
  <1>1. Directly(d, i) \subseteq {"derp", "direct"}
    BY DEF Directly
  <1> QED
    BY <1>1, RegisteredIsMild DEF Ping

LEMMA FreedIsMild ==
  ASSUME NEW d, DeviceOK(d), NEW gone
  PROVE  Mild(d, Freed(d, gone))
  <1>1. PICK e : e = Freed(d, gone)
    OBVIOUS
  <1>2. /\ e.slot = d.slot /\ e.wg = d.wg
        /\ e.probe = [n \in Probes |-> IF n \in gone THEN NoProbe ELSE d.probe[n]]
        /\ e.answers = {a \in d.answers : a.probe \notin gone}
        /\ e = [slot |-> e.slot, wg |-> e.wg, probe |-> e.probe, answers |-> e.answers]
    BY <1>1 DEF Freed, DeviceOK, PathDevices
  <1>3. /\ d.slot \in [Indices -> SlotsOfPeers] /\ d.wg \in [Indices -> WgPeers]
        /\ d.probe \in [Probes -> ProbeSlots] /\ d.answers \subseteq ProbeAnswers
        /\ \A a \in d.answers : d.probe[a.probe].slot # 0
    BY DEF DeviceOK, PathDevices
  <1>4. NoProbe \in ProbeSlots
    BY DEF NoProbe, ProbeSlots
  <1>5. e.probe \in [Probes -> ProbeSlots] /\ e.answers \subseteq ProbeAnswers
    BY <1>2, <1>3, <1>4
  <1>6. \A a \in e.answers : e.probe[a.probe].slot # 0
    BY <1>2, <1>3 DEF ProbeAnswers
  <1>7. DeviceOK(e)
    BY <1>2, <1>3, <1>5, <1>6 DEF DeviceOK, PathDevices
  <1> QED
    BY <1>1, <1>2, <1>3, <1>7 DEF Mild, WgPeers

\* A blank endpoint of a peer with a session.
LEMMA BlankedIsMild ==
  ASSUME NEW d, DeviceOK(d), NEW j \in {0} \cup Indices, IsUp(d, j)
  PROVE  Mild(d, ConnectDerp(d, j))
  <1>1. j \in Indices /\ Valid(d, j) /\ d.wg[j].session
    BY DEF IsUp, Valid
  <1>2. PICK e : e = ConnectDerp(d, j)
    OBVIOUS
  <1>3. /\ d.slot \in [Indices -> SlotsOfPeers] /\ d.wg \in [Indices -> WgPeers]
        /\ d.probe \in [Probes -> ProbeSlots] /\ d.answers \subseteq ProbeAnswers
        /\ \A a \in d.answers : d.probe[a.probe].slot # 0
    BY DEF DeviceOK, PathDevices
  <1>4. e = [d EXCEPT !.wg = [d.wg EXCEPT ![j] = [d.wg[j] EXCEPT !.ip = NoKey, !.active = TRUE]]]
    BY <1>1, <1>2, <1>3 DEF ConnectDerp, DeviceOK, PathDevices, WgPeers
  <1>5. [d.wg[j] EXCEPT !.ip = NoKey, !.active = TRUE] \in WgPeers
    BY <1>1, <1>3 DEF WgPeers
  <1>6. /\ e.slot = d.slot /\ e.probe = d.probe /\ e.answers = d.answers
        /\ e.wg = [d.wg EXCEPT ![j] = [d.wg[j] EXCEPT !.ip = NoKey, !.active = TRUE]]
        /\ e \in PathDevices
    BY <1>3, <1>4, <1>5 DEF DeviceOK, PathDevices
  <1>7. DeviceOK(e)
    BY <1>3, <1>6 DEF DeviceOK
  <1>8. ASSUME NEW o \in Indices
        PROVE  /\ e.wg[o].key = d.wg[o].key /\ e.wg[o].session = d.wg[o].session
               /\ e.wg[o].ip \in {d.wg[o].ip, NoKey}
               /\ e.wg[o].active => d.wg[o].active \/ d.wg[o].session
    <2>1. CASE o = j
      <3>1. e.wg[o] = [d.wg[j] EXCEPT !.ip = NoKey, !.active = TRUE] /\ d.wg[o] \in WgPeers
        BY <1>3, <1>6, <2>1
      <3> QED
        BY <1>1, <2>1, <3>1 DEF WgPeers
    <2>2. CASE o # j
      BY <1>3, <1>6, <2>2
    <2> QED
      BY <2>1, <2>2
  <1> QED
    BY <1>2, <1>6, <1>7, <1>8 DEF Mild

\* The fields of a slot that the tables do not share.
LEMMA SlotIsMild ==
  ASSUME NEW d, DeviceOK(d), NEW i \in Indices, NEW s \in SlotsOfPeers,
         s.key = d.slot[i].key, s.active = d.slot[i].active, s.wg = d.slot[i].wg,
         NEW e, e = [d EXCEPT !.slot = [d.slot EXCEPT ![i] = s]]
  PROVE  Mild(d, e) /\ e.slot[i] = s /\ e.wg = d.wg
  <1>1. /\ d.slot \in [Indices -> SlotsOfPeers] /\ d.wg \in [Indices -> WgPeers]
        /\ d.probe \in [Probes -> ProbeSlots] /\ d.answers \subseteq ProbeAnswers
        /\ \A a \in d.answers : d.probe[a.probe].slot # 0
    BY DEF DeviceOK, PathDevices
  <1>2. /\ e.slot = [d.slot EXCEPT ![i] = s] /\ e.wg = d.wg
        /\ e.probe = d.probe /\ e.answers = d.answers /\ e \in PathDevices
    BY <1>1 DEF DeviceOK, PathDevices
  <1>3. DeviceOK(e)
    BY <1>1, <1>2 DEF DeviceOK
  <1>4. \A o \in Indices : /\ e.slot[o].key = d.slot[o].key
                           /\ e.slot[o].active = d.slot[o].active
                           /\ e.slot[o].wg = d.slot[o].wg
    BY <1>1, <1>2
  <1> QED
    BY <1>1, <1>2, <1>3, <1>4 DEF Mild, WgPeers

\* A path that is over: the flag falls, an endpoint in use is blanked, a ping.
LEMMA ExpiredIsMild ==
  ASSUME NEW d, DeviceOK(d), NEW i \in Indices
  PROVE  Mild(d, PathExpired(d, i))
  <1>1. PICK s, over : /\ s = [d.slot[i] EXCEPT !.direct = FALSE]
                       /\ over = [d EXCEPT !.slot[i].direct = FALSE]
    OBVIOUS
  <1>2. d.slot[i] \in SlotsOfPeers
    BY DEF DeviceOK, PathDevices
  <1>3. /\ s \in SlotsOfPeers /\ s.key = d.slot[i].key /\ s.active = d.slot[i].active
        /\ s.wg = d.slot[i].wg /\ s.wg \in {0} \cup Indices
    BY <1>1, <1>2 DEF SlotsOfPeers
  <1>4. over = [d EXCEPT !.slot = [d.slot EXCEPT ![i] = s]]
    BY <1>1 DEF DeviceOK, PathDevices
  <1>5. Mild(d, over) /\ over.wg = d.wg
    BY <1>3, <1>4, SlotIsMild
  <1>6. PICK blank : blank = IF IsUp(d, s.wg) THEN ConnectDerp(over, s.wg) ELSE over
    OBVIOUS
  <1>7. Mild(over, blank)
    <2>1. DeviceOK(over)
      BY <1>5 DEF Mild
    <2>2. CASE IsUp(d, s.wg)
      <3>1. IsUp(over, s.wg)
        BY <1>5, <2>2 DEF IsUp, Valid
      <3> QED
        BY <1>3, <1>6, <2>1, <2>2, <3>1, BlankedIsMild
    <2>3. CASE ~ IsUp(d, s.wg)
      BY <1>6, <2>1, <2>3, MildSame
    <2> QED
      BY <2>2, <2>3
  <1>8. Mild(blank, Ping(blank, i))
    <2>1. DeviceOK(blank)
      BY <1>7 DEF Mild
    <2> QED
      BY <2>1, PingIsMild
  <1>9. PathExpired(d, i) = Ping(blank, i)
    BY <1>1, <1>3, <1>6 DEF PathExpired
  <1>10. Mild(d, blank)
    BY <1>5, <1>7, MildChain
  <1> QED
    BY <1>8, <1>9, <1>10, MildChain

LEMMA CheckedIsMild ==
  ASSUME NEW d, DeviceOK(d), NEW i \in Indices, NEW due
  PROVE  Mild(d, Checked(d, i, due))
  <1>1. CASE ~ d.slot[i].active
    BY <1>1, MildSame DEF Checked
  <1>2. CASE d.slot[i].active /\ d.slot[i].direct /\ d.slot[i].trust = 0
    BY <1>2, ExpiredIsMild DEF Checked
  <1>3. CASE d.slot[i].active /\ d.slot[i].direct /\ d.slot[i].trust # 0
    <2>1. PICK s, e : /\ s = [d.slot[i] EXCEPT !.trust = d.slot[i].trust - 1]
                      /\ e = [d EXCEPT !.slot = [d.slot EXCEPT ![i] = s]]
      OBVIOUS
    <2>2. d.slot[i] \in SlotsOfPeers
      BY DEF DeviceOK, PathDevices
    <2>3. d.slot[i].trust - 1 \in 0..Trust
      BY <1>3, <2>2, Constants DEF SlotsOfPeers
    <2>4. /\ s \in SlotsOfPeers /\ s.key = d.slot[i].key /\ s.active = d.slot[i].active
          /\ s.wg = d.slot[i].wg
      BY <2>1, <2>2, <2>3 DEF SlotsOfPeers
    <2>5. Mild(d, e)
      BY <2>1, <2>4, SlotIsMild
    <2>6. Mild(e, Ping(e, i))
      BY <2>5, PingIsMild DEF Mild
    <2>7. [d EXCEPT !.slot[i].trust = @ - 1] = e
      BY <2>1 DEF DeviceOK, PathDevices
    <2>8. Checked(d, i, due) = Ping(e, i)
      BY <1>3, <2>7 DEF Checked
    <2> QED
      BY <2>5, <2>6, <2>8, MildChain
  <1>4. CASE d.slot[i].active /\ ~ d.slot[i].direct
    BY <1>4, MildSame, PingIsMild DEF Checked
  <1> QED
    BY <1>1, <1>2, <1>3, <1>4
-----------------------------------------------------------------------------
(***************************************************************************)
(* All peers, one after the other, in disco_periodic_probes.               *)
(***************************************************************************)
\* The devices after the first n peers; there is such a function, by induction.
AfterPeers(after, n, due) ==
    after = [i \in 0..n |-> IF i = 0 THEN dev ELSE Checked(after[i - 1], i, due)]

LEMMA AfterAllPeers ==
  ASSUME NEW due
  PROVE  \E after : AfterPeers(after, MaxPeers, due)
  <1> SUFFICES ASSUME ~ \E after : AfterPeers(after, MaxPeers, due) PROVE FALSE
    OBVIOUS
  <1> DEFINE T == {n \in 0..MaxPeers : ~ \E after : AfterPeers(after, n, due)}
  <1>1. MaxPeers \in T /\ T \subseteq Nat
    BY Constants
  <1>2. PICK n \in T : \A m \in T : n <= m
    BY <1>1, LeastNat
  <1>3. n # 0
    <2>1. [i \in 0..0 |-> dev] =
             [i \in 0..0 |-> IF i = 0 THEN dev ELSE Checked([j \in 0..0 |-> dev][i - 1], i, due)]
      OBVIOUS
    <2> QED
      BY <2>1 DEF AfterPeers
  <1>4. n - 1 \in 0..MaxPeers /\ n - 1 \notin T
    BY <1>1, <1>2, <1>3, Constants
  <1>5. PICK g : g = [i \in 0..(n - 1) |-> IF i = 0 THEN dev ELSE Checked(g[i - 1], i, due)]
    BY <1>4 DEF AfterPeers
  <1> DEFINE h == [i \in 0..n |-> IF i = n THEN Checked(g[n - 1], n, due) ELSE g[i]]
  <1>6. h = [i \in 0..n |-> IF i = 0 THEN dev ELSE Checked(h[i - 1], i, due)]
    <2> SUFFICES ASSUME NEW i \in 0..n
                 PROVE  h[i] = IF i = 0 THEN dev ELSE Checked(h[i - 1], i, due)
      OBVIOUS
    <2>1. n \in Nat /\ n >= 1
      BY <1>2, <1>3
    <2>2. CASE i = n
      BY <2>1, <2>2
    <2>3. CASE i # n
      BY <1>5, <2>1, <2>3
    <2> QED
      BY <2>2, <2>3
  <1> QED
    BY <1>2, <1>6 DEF AfterPeers

LEMMA PeriodicIsMild ==
  ASSUME DeviceOK(dev), PeriodicProbes
  PROVE  Mild(dev, dev')
  <1>1. PICK due, late :
          dev' = Freed((CHOOSE after : AfterPeers(after, MaxPeers, due))[MaxPeers], late)
    BY DEF PeriodicProbes, AfterPeers
  <1>2. PICK after : /\ after = CHOOSE f : AfterPeers(f, MaxPeers, due)
                     /\ AfterPeers(after, MaxPeers, due)
    BY AfterAllPeers
  <1>3. after[0] = dev /\ \A i \in 1..MaxPeers : after[i] = Checked(after[i - 1], i, due)
    <2>1. after = [i \in 0..MaxPeers |-> IF i = 0 THEN dev ELSE Checked(after[i - 1], i, due)]
      BY <1>2 DEF AfterPeers
    <2>2. MaxPeers \in Nat
      BY Constants
    <2> QED
      BY ONLY <2>1, <2>2
  <1>4. Mild(dev, after[MaxPeers])
    <2> SUFFICES ASSUME ~ Mild(dev, after[MaxPeers]) PROVE FALSE
      OBVIOUS
    <2> DEFINE T == {n \in 0..MaxPeers : ~ Mild(dev, after[n])}
    <2>1. MaxPeers \in T /\ T \subseteq Nat
      BY Constants
    <2>2. PICK n \in T : \A m \in T : n <= m
      BY <2>1, LeastNat
    <2>3. n # 0
      BY <1>3, <2>2, MildSame
    <2>4. n - 1 \in 0..MaxPeers /\ n - 1 \notin T /\ n \in 1..MaxPeers
      BY <2>1, <2>2, <2>3, Constants
    <2>5. Mild(dev, after[n - 1])
      BY <2>4
    <2>6. Mild(after[n - 1], after[n])
      <3>1. DeviceOK(after[n - 1]) /\ n \in Indices
        BY <2>4, <2>5 DEF Mild, Indices
      <3>2. after[n] = Checked(after[n - 1], n, due)
        BY <1>3, <2>4
      <3> QED
        BY <3>1, <3>2, CheckedIsMild
    <2>7. Mild(dev, after[n])
      BY <2>5, <2>6, MildChain
    <2> QED
      BY <2>2, <2>7
  <1>5. Mild(after[MaxPeers], dev')
    <2>1. DeviceOK(after[MaxPeers])
      BY <1>4 DEF Mild
    <2>2. dev' = Freed(after[MaxPeers], late)
      BY <1>1, <1>2
    <2> QED
      BY <2>1, <2>2, FreedIsMild
  <1> QED
    BY <1>4, <1>5, MildChain
-----------------------------------------------------------------------------
(***************************************************************************)
(* The tables, and the steps.                                              *)
(***************************************************************************)
\* No two slots hold a key, and no two peers of WireGuard have one.
Agrees(d) ==
    /\ \A i \in ActiveSlots(d) :
          /\ d.slot[i].key # NoKey
          /\ d.slot[i].wg # 0 => d.wg[d.slot[i].wg].key = d.slot[i].key
    /\ \A j \in Indices : Valid(d, j) => \E i \in ActiveSlots(d) : d.slot[i].wg = j
    /\ \A i, o \in ActiveSlots(d) : d.slot[i].key = d.slot[o].key => i = o
    /\ \A j, o \in Indices : Valid(d, j) /\ d.wg[j].key = d.wg[o].key => j = o

SameTables(d, e) ==
    /\ \A i \in Indices : /\ e.slot[i].key = d.slot[i].key
                          /\ e.slot[i].active = d.slot[i].active
                          /\ e.slot[i].wg = d.slot[i].wg
    /\ \A j \in Indices : e.wg[j].key = d.wg[j].key

LEMMA SameTablesAgree ==
  ASSUME NEW d, NEW e, DeviceOK(d), Agrees(d), SameTables(d, e)
  PROVE  Agrees(e)
  <1>1. ActiveSlots(e) = ActiveSlots(d)
    BY DEF SameTables, ActiveSlots
  <1>2. \A j \in Indices : Valid(e, j) <=> Valid(d, j)
    BY DEF SameTables, Valid
  <1>3. \A i \in ActiveSlots(d) : i \in Indices /\ d.slot[i].wg \in {0} \cup Indices
    BY DEF ActiveSlots, DeviceOK, PathDevices, SlotsOfPeers
  <1> QED
    BY <1>1, <1>2, <1>3 DEF SameTables, Agrees

PathsInv ==
    /\ DeviceOK(dev) /\ Agrees(dev)
    /\ open \subseteq Keys /\ count \in [updates : 0..MaxUpdates, blocks : 0..MaxBlocks]

\* What a step may do to the peer j of WireGuard.
Led(j) ==
    Foreign(dev'.wg[j]) /\ dev'.wg[j] # dev.wg[j] =>
        \/ Foreign(dev.wg[j]) /\ dev.wg[j].ip = dev'.wg[j].ip
        \/ \E n \in Probes : Misplaced(n)
        \/ \E i \in ActiveSlots(dev) : dev.slot[i].wg = j /\ dev.slot[i].best = dev'.wg[j].ip
Retries(j) ==
    ~dev.wg[j].active /\ dev'.wg[j].active =>
        dev.wg[j].session \/ \E k \in Keys : TriggerHandshake(k)

StepOK == PathsInv' /\ \A j \in Indices : Led(j) /\ Retries(j)

\* The counters and the network.
Around == open' \subseteq Keys /\ count' \in [updates : 0..MaxUpdates, blocks : 0..MaxBlocks]

\* A step that changes the tables, and then what a mild call may.
LEMMA TablesStep ==
  ASSUME PathsInv, NEW f, DeviceOK(f), Agrees(f),
         \A j \in Indices : \/ f.wg[j] = dev.wg[j]
                            \/ f.wg[j].ip = NoKey /\ ~f.wg[j].active /\ ~f.wg[j].session,
         Mild(f, dev'), Around
  PROVE  StepOK
  <1>1. PathsInv'
    BY SameTablesAgree DEF Mild, SameTables, PathsInv, Around
  <1>2. ASSUME NEW j \in Indices PROVE Led(j) /\ Retries(j)
    <2>1. /\ dev'.wg[j].key = f.wg[j].key /\ dev'.wg[j].ip \in {f.wg[j].ip, NoKey}
          /\ dev'.wg[j].active => f.wg[j].active \/ f.wg[j].session
      BY DEF Mild
    <2> QED
      BY <2>1 DEF Led, Retries, Foreign
  <1> QED
    BY <1>1, <1>2 DEF StepOK

LEMMA MildStep ==
  ASSUME PathsInv, Mild(dev, dev'), Around
  PROVE  StepOK
  BY TablesStep DEF PathsInv
-----------------------------------------------------------------------------
(***************************************************************************)
(* Endpoints that are moved.                                               *)
(***************************************************************************)
\* The tables stay, and the peer j of WireGuard may get the address.
Moved(d, e, j, address) ==
    /\ DeviceOK(e) /\ SameTables(d, e)
    /\ \A o \in Indices :
          e.wg[o].ip \in {d.wg[o].ip, NoKey} \/ (o = j /\ e.wg[o].ip = address)

LEMMA MovedStep ==
  ASSUME PathsInv, NEW j \in Indices, NEW address, Moved(dev, dev', j, address), Around,
         \/ address \in {NoKey, dev.wg[j].key}
         \/ \E n \in Probes : Misplaced(n)
         \/ \E i \in ActiveSlots(dev) : dev.slot[i].wg = j /\ dev.slot[i].best = address,
         \A o \in Indices : Retries(o)
  PROVE  StepOK
  <1>1. PathsInv'
    BY SameTablesAgree DEF Moved, PathsInv, Around
  <1>2. ASSUME NEW o \in Indices PROVE Led(o)
    <2>1. dev'.wg[o].key = dev.wg[o].key
      BY DEF Moved, SameTables
    <2>2. CASE dev'.wg[o].ip \in {dev.wg[o].ip, NoKey}
      BY <2>1, <2>2 DEF Led, Foreign
    <2>3. CASE o = j /\ dev'.wg[o].ip = address
      BY <2>1, <2>3 DEF Led, Foreign
    <2> QED
      BY <2>2, <2>3 DEF Moved
  <1> QED
    BY <1>1, <1>2 DEF StepOK

\* Another peer of WireGuard in the place of one.
LEMMA PeerReplaced ==
  ASSUME NEW d, DeviceOK(d), NEW j \in Indices, NEW p \in WgPeers,
         NEW e, e = [d EXCEPT !.wg = [d.wg EXCEPT ![j] = p]]
  PROVE  /\ DeviceOK(e) /\ e.slot = d.slot
         /\ e.wg \in [Indices -> WgPeers] /\ d.wg \in [Indices -> WgPeers]
         /\ e.wg[j] = p /\ \A o \in Indices : o # j => e.wg[o] = d.wg[o]
  <1>1. /\ d.slot \in [Indices -> SlotsOfPeers] /\ d.wg \in [Indices -> WgPeers]
        /\ d.probe \in [Probes -> ProbeSlots] /\ d.answers \subseteq ProbeAnswers
        /\ \A a \in d.answers : d.probe[a.probe].slot # 0
    BY DEF DeviceOK, PathDevices
  <1>2. /\ e.slot = d.slot /\ e.wg = [d.wg EXCEPT ![j] = p]
        /\ e.probe = d.probe /\ e.answers = d.answers /\ e \in PathDevices
    BY <1>1 DEF DeviceOK, PathDevices
  <1>3. DeviceOK(e)
    BY <1>1, <1>2 DEF DeviceOK
  <1> QED
    BY <1>1, <1>2, <1>3

\* What wireguardif_update_endpoint, wireguardif_connect and the derp one do.
LEMMA ConnectCases ==
  ASSUME NEW d, DeviceOK(d), NEW j \in {0} \cup Indices, NEW address \in Keys \cup {NoKey}
  PROVE  /\ ~Valid(d, j) => Connect(d, j, address) = d
         /\ Valid(d, j) => /\ j \in Indices
                           /\ [d.wg[j] EXCEPT !.ip = address, !.active = TRUE] \in WgPeers
                           /\ Connect(d, j, address) =
                                [d EXCEPT !.wg = [d.wg EXCEPT
                                   ![j] = [d.wg[j] EXCEPT !.ip = address, !.active = TRUE]]]
         /\ ConnectDerp(d, j) = Connect(d, j, NoKey)
  <1>1. ConnectDerp(d, j) = Connect(d, j, NoKey)
    BY DEF Connect, ConnectDerp
  <1>2. ~Valid(d, j) => Connect(d, j, address) = d
    BY DEF Connect
  <1>3. ASSUME Valid(d, j)
        PROVE  /\ j \in Indices
               /\ [d.wg[j] EXCEPT !.ip = address, !.active = TRUE] \in WgPeers
               /\ Connect(d, j, address) =
                    [d EXCEPT !.wg = [d.wg EXCEPT
                       ![j] = [d.wg[j] EXCEPT !.ip = address, !.active = TRUE]]]
    <2>1. j \in Indices
      BY <1>3 DEF Valid
    <2>2. d.wg \in [Indices -> WgPeers] /\ d.wg[j] \in WgPeers
      BY <2>1 DEF DeviceOK, PathDevices
    <2>3. [d.wg[j] EXCEPT !.ip = address, !.active = TRUE] \in WgPeers
      BY <2>2 DEF WgPeers
    <2>4. Connect(d, j, address) = [d EXCEPT !.wg[j].ip = address, !.wg[j].active = TRUE]
      BY <1>3 DEF Connect
    <2>5. [d EXCEPT !.wg[j].ip = address, !.wg[j].active = TRUE] =
             [d EXCEPT !.wg = [d.wg EXCEPT
                ![j] = [d.wg[j] EXCEPT !.ip = address, !.active = TRUE]]]
      BY <2>1, <2>2 DEF DeviceOK, PathDevices, WgPeers
    <2> QED
      BY <2>1, <2>3, <2>4, <2>5
  <1> QED
    BY <1>1, <1>2, <1>3
-----------------------------------------------------------------------------
(***************************************************************************)
(* The answer to a probe.                                                  *)
(***************************************************************************)
\* A path that was found: the peer of WireGuard of the slot may get the address,
\* and is active only if it was, or has a session.
Found(d, e, j, address) ==
    \/ Mild(d, e)
    \/ /\ j \in Indices /\ Moved(d, e, j, address)
       /\ \A o \in Indices : e.wg[o].active => d.wg[o].active \/ d.wg[o].session

LEMMA PathFoundCases ==
  ASSUME NEW d, DeviceOK(d), NEW i \in Indices, NEW address \in Keys \cup {NoKey}
  PROVE  Found(d, PathFound(d, i, address), d.slot[i].wg, address)
  <1>1. PICK j : j = d.slot[i].wg
    OBVIOUS
  <1>2. d.slot[i] \in SlotsOfPeers /\ j \in {0} \cup Indices
    BY <1>1 DEF DeviceOK, PathDevices, SlotsOfPeers
  <1>3. PICK s, known :
          /\ s = [d.slot[i] EXCEPT !.direct = TRUE, !.trust = Trust, !.best = address]
          /\ known = [d EXCEPT !.slot = [d.slot EXCEPT ![i] = s]]
    OBVIOUS
  <1>4. /\ s \in SlotsOfPeers /\ s.key = d.slot[i].key /\ s.active = d.slot[i].active
        /\ s.wg = d.slot[i].wg /\ s.wg = j /\ s.tried = d.slot[i].tried
    <2>1. Trust \in 0..Trust
      BY Constants
    <2>2. s \in SlotsOfPeers
      BY <1>2, <1>3, <2>1 DEF SlotsOfPeers
    <2> QED
      BY <1>1, <1>2, <1>3, <2>2 DEF SlotsOfPeers
  <1>5. Mild(d, known) /\ known.slot[i] = s /\ known.wg = d.wg
    <2>1. known = [d EXCEPT !.slot = [d.slot EXCEPT ![i] = s]]
      BY <1>3
    <2>2. /\ s \in SlotsOfPeers /\ s.key = d.slot[i].key /\ s.active = d.slot[i].active
          /\ s.wg = d.slot[i].wg
      BY <1>4
    <2>3. DeviceOK(d) /\ i \in Indices
      OBVIOUS
    <2>4. Mild(d, known)
      BY ONLY <2>1, <2>2, <2>3, SlotIsMild
    <2>5. known.slot[i] = s /\ known.wg = d.wg
      BY <2>1 DEF DeviceOK, PathDevices
    <2> QED
      BY <2>4, <2>5
  <1>6. [d EXCEPT !.slot[i].direct = TRUE, !.slot[i].trust = Trust, !.slot[i].best = address]
          = known
    BY <1>3 DEF DeviceOK, PathDevices
  <1>7. DeviceOK(known) /\ SameTables(d, known)
    BY <1>5 DEF Mild, SameTables
  <1>8. (Valid(known, j) <=> Valid(d, j)) /\ (IsUp(known, j) <=> IsUp(d, j))
    BY <1>5 DEF Valid, IsUp
  <1>9. CASE ~ IsUp(d, j) /\ (j = 0 \/ s.tried)
    <2>1. PathFound(d, i, address) = known
      BY <1>1, <1>4, <1>5, <1>6, <1>9 DEF PathFound, TriedOnce
    <2> QED
      BY <1>5, <2>1 DEF Found
  <1>10. CASE ~ IsUp(d, j) /\ j # 0 /\ ~ s.tried
    <2>1. PICK c : c = Connect(known, j, address)
      OBVIOUS
    <2>2. PathFound(d, i, address) =
             [c EXCEPT !.slot[i].tried = TRUE,
                       !.wg = IF Valid(known, j) THEN [@ EXCEPT ![j].active = FALSE] ELSE @]
      <3>1. PathFound(d, i, address) = TriedOnce(known, i, address)
        BY <1>1, <1>6, <1>10 DEF PathFound
      <3>2. known.slot[i].wg = j /\ ~ known.slot[i].tried
        BY <1>4, <1>5, <1>10
      <3> QED
        BY <2>1, <3>1, <3>2 DEF TriedOnce
    <2>3. PICK t : t = [s EXCEPT !.tried = TRUE]
      OBVIOUS
    <2>4. t \in SlotsOfPeers /\ t.key = s.key /\ t.active = s.active /\ t.wg = s.wg
      BY <1>4, <2>3 DEF SlotsOfPeers
    <2>5. CASE ~ Valid(known, j)
      <3>1. c = known
        BY <1>2, <1>7, <2>1, <2>5, ConnectCases
      <3>2. PathFound(d, i, address) = [known EXCEPT !.slot = [known.slot EXCEPT ![i] = t]]
        BY <1>5, <1>7, <2>2, <2>3, <2>5, <3>1 DEF DeviceOK, PathDevices
      <3>3. Mild(known, PathFound(d, i, address))
        BY <1>5, <1>7, <2>4, <3>2, SlotIsMild
      <3> QED
        BY <1>5, <3>3, MildChain DEF Found
    <2>6. CASE Valid(known, j)
      <3>1. PICK p : p = [known.wg[j] EXCEPT !.ip = address, !.active = TRUE]
        OBVIOUS
      <3>2. j \in Indices /\ p \in WgPeers
        BY <1>2, <1>7, <2>6, <3>1, ConnectCases
      <3>3. c = [known EXCEPT !.wg = [known.wg EXCEPT ![j] = p]]
        BY <1>2, <1>7, <2>1, <2>6, <3>1, ConnectCases
      <3>4. /\ DeviceOK(c) /\ c.slot = known.slot
            /\ c.wg \in [Indices -> WgPeers] /\ known.wg \in [Indices -> WgPeers]
            /\ c.wg[j] = p /\ \A o \in Indices : o # j => c.wg[o] = known.wg[o]
        BY <1>7, <3>2, <3>3, PeerReplaced
      <3>5. PICK q, f : /\ q = [p EXCEPT !.active = FALSE]
                        /\ f = [c EXCEPT !.wg = [c.wg EXCEPT ![j] = q]]
        OBVIOUS
      <3>6. known.wg[j] \in WgPeers
        BY <3>2, <3>4
      <3>7. /\ q \in WgPeers /\ q.key = known.wg[j].key /\ q.session = known.wg[j].session
            /\ q.ip = address /\ ~q.active
        BY <3>1, <3>5, <3>6 DEF WgPeers
      <3>8. /\ DeviceOK(f) /\ f.slot = c.slot
            /\ f.wg \in [Indices -> WgPeers] /\ c.wg \in [Indices -> WgPeers]
            /\ f.wg[j] = q /\ \A o \in Indices : o # j => f.wg[o] = c.wg[o]
        <4>1. f = [c EXCEPT !.wg = [c.wg EXCEPT ![j] = q]] /\ q \in WgPeers /\ DeviceOK(c)
          BY <3>4, <3>5, <3>7
        <4> QED
          BY <3>2, <4>1, PeerReplaced
      <3>9. f.slot[i] = s
        BY <1>5, <3>4, <3>8
      <3>10. PICK e : e = [f EXCEPT !.slot = [f.slot EXCEPT ![i] = t]]
        OBVIOUS
      <3>11. Mild(f, e) /\ e.wg = f.wg
        BY <2>4, <3>8, <3>9, <3>10, SlotIsMild
      <3>12. PathFound(d, i, address) = e
        <4>1. [c.wg EXCEPT ![j].active = FALSE] = [c.wg EXCEPT ![j] = q]
          BY <3>2, <3>4, <3>5
        <4>2. PathFound(d, i, address) =
                [c EXCEPT !.slot[i].tried = TRUE, !.wg = [c.wg EXCEPT ![j] = q]]
          BY <2>2, <2>6, <4>1, <3>4 DEF DeviceOK, PathDevices
        <4>3. c.slot[i] = s /\ c \in PathDevices
          BY <1>5, <3>4 DEF DeviceOK
        <4> QED
          BY <2>3, <3>5, <3>10, <4>2, <4>3 DEF PathDevices
      <3>13. Moved(d, e, j, address)
        <4>1. DeviceOK(e) /\ SameTables(f, e)
          BY <3>11 DEF Mild, SameTables
        <4>2. SameTables(known, f)
          BY <3>2, <3>4, <3>7, <3>8 DEF SameTables
        <4>3. \A o \in Indices : e.wg[o].ip = d.wg[o].ip \/ (o = j /\ e.wg[o].ip = address)
          BY <1>5, <3>4, <3>7, <3>8, <3>11
        <4> QED
          BY <1>7, <4>1, <4>2, <4>3 DEF Moved, SameTables
      <3>14. \A o \in Indices : e.wg[o].active => d.wg[o].active
        BY <1>5, <3>4, <3>7, <3>8, <3>11
      <3> QED
        BY <1>1, <3>2, <3>12, <3>13, <3>14 DEF Found
    <2> QED
      BY <2>5, <2>6
  <1>11. CASE IsUp(d, j) /\ d.wg[j].ip = address
    <2>1. PathFound(d, i, address) = known
      BY <1>1, <1>6, <1>11 DEF PathFound
    <2> QED
      BY <1>5, <2>1 DEF Found
  <1>12. CASE IsUp(d, j) /\ d.wg[j].ip # address
    <2>1. PICK e : e = PathFound(d, i, address)
      OBVIOUS
    <2>2. e = Connect(known, j, address)
      BY <1>1, <1>6, <1>12, <2>1 DEF PathFound
    <2>3. PICK p : p = [known.wg[j] EXCEPT !.ip = address, !.active = TRUE]
      OBVIOUS
    <2>4. Valid(known, j) /\ d.wg[j].session
      BY <1>8, <1>12 DEF IsUp
    <2>5. j \in Indices /\ p \in WgPeers
      BY <1>2, <1>7, <2>3, <2>4, ConnectCases
    <2>6. e = [known EXCEPT !.wg = [known.wg EXCEPT ![j] = p]]
      BY <1>2, <1>7, <2>2, <2>3, <2>4, ConnectCases
    <2>7. /\ DeviceOK(e) /\ e.slot = known.slot
          /\ e.wg \in [Indices -> WgPeers] /\ known.wg \in [Indices -> WgPeers]
          /\ e.wg[j] = p /\ \A o \in Indices : o # j => e.wg[o] = known.wg[o]
      BY <1>7, <2>5, <2>6, PeerReplaced
    <2>8. known.wg[j] \in WgPeers
      BY <2>5, <2>7
    <2>9. p.key = known.wg[j].key /\ p.ip = address
      BY <2>3, <2>8 DEF WgPeers
    <2>10. SameTables(known, e)
      BY <2>5, <2>7, <2>9 DEF SameTables
    <2>11. \A o \in Indices : e.wg[o].ip = d.wg[o].ip \/ (o = j /\ e.wg[o].ip = address)
      BY <1>5, <2>7, <2>9
    <2>12. Moved(d, e, j, address)
      BY <1>7, <2>7, <2>10, <2>11 DEF Moved, SameTables
    <2>13. \A o \in Indices : e.wg[o].active => d.wg[o].active \/ d.wg[o].session
      BY <1>5, <2>4, <2>7
    <2> QED
      BY <1>1, <2>1, <2>5, <2>12, <2>13 DEF Found
  <1> QED
    BY <1>9, <1>10, <1>11, <1>12

LEMMA PongStep ==
  ASSUME PathsInv, NEW a \in dev.answers, Pong(a)
  PROVE  StepOK
  <1>1. PICK n, i, rest : n = a.probe /\ i = dev.probe[n].slot /\ rest = Freed(dev, {n})
    OBVIOUS
  <1>2. /\ n \in Probes /\ i \in Indices /\ dev.probe[n].to \in Keys \cup {NoKey}
        /\ dev.slot \in [Indices -> SlotsOfPeers]
    BY <1>1 DEF PathsInv, DeviceOK, PathDevices, ProbeAnswers, ProbeSlots
  <1>3. PICK address : address = dev.probe[n].to
    OBVIOUS
  <1>4. Around
    BY DEF Pong, PathsInv, Around
  <1>5. Mild(dev, rest) /\ rest.slot = dev.slot /\ rest.wg = dev.wg
    BY <1>1, FreedIsMild DEF PathsInv, Freed, DeviceOK, PathDevices
  <1>6. CASE dev' = rest
    BY <1>4, <1>5, <1>6, MildStep
  <1>7. CASE dev' = PathFound(rest, i, address)
    <2>1. Found(rest, dev', dev.slot[i].wg, address)
      BY <1>2, <1>3, <1>5, <1>7, PathFoundCases DEF Mild
    <2>2. CASE Mild(rest, dev')
      BY <1>4, <1>5, <2>2, MildChain, MildStep
    <2>3. CASE ~ Mild(rest, dev')
      <3>1. PICK j : j = dev.slot[i].wg
        OBVIOUS
      <3>2. j \in Indices /\ Moved(rest, dev', j, address)
        BY <2>1, <2>3, <3>1 DEF Found
      <3>3. \A o \in Indices : dev'.wg[o].active => dev.wg[o].active \/ dev.wg[o].session
        BY <1>5, <2>1, <2>3 DEF Found
      <3>4. Moved(dev, dev', j, address)
        BY <1>5, <3>2 DEF Moved, SameTables
      <3>5. address = dev.wg[j].key \/ Misplaced(n)
        <4>1. CASE dev.slot[i].active /\ dev.slot[i].key = address
          <5>1. i \in ActiveSlots(dev)
            BY <1>2, <4>1 DEF ActiveSlots
          <5>2. j # 0
            BY <3>2, Constants
          <5> QED
            BY <3>1, <4>1, <5>1, <5>2 DEF PathsInv, Agrees
        <4>2. CASE ~ (dev.slot[i].active /\ dev.slot[i].key = address)
          <5>1. i # 0
            BY <1>2, Constants
          <5> QED
            BY <1>1, <1>3, <4>2, <5>1 DEF Misplaced
        <4> QED
          BY <4>1, <4>2
      <3>6. \A o \in Indices : Retries(o)
        BY <3>3 DEF Retries
      <3> QED
        BY <1>2, <1>4, <3>2, <3>4, <3>5, <3>6, MovedStep
    <2> QED
      BY <2>2, <2>3
  <1> QED
    BY <1>1, <1>3, <1>6, <1>7 DEF Pong
-----------------------------------------------------------------------------
(***************************************************************************)
(* Peers that come and go.                                                 *)
(***************************************************************************)
\* Another update.
LEMMA UpdateCounted ==
  ASSUME PathsInv, count.updates < MaxUpdates, Counted("updates"), UNCHANGED open
  PROVE  Around
  <1>1. count \in [updates : 0..MaxUpdates, blocks : 0..MaxBlocks]
    BY DEF PathsInv
  <1>2. count.updates + 1 \in 0..MaxUpdates /\ count.blocks \in 0..MaxBlocks
    <2>1. MaxUpdates \in Nat
      BY PathsAssumption
    <2> QED
      BY <1>1, <2>1
  <1>3. count' = [count EXCEPT !.updates = count.updates + 1]
    BY DEF Counted
  <1>4. count' \in [updates : 0..MaxUpdates, blocks : 0..MaxBlocks]
    BY <1>1, <1>2, <1>3
  <1>5. open' \subseteq Keys
    BY DEF PathsInv
  <1> QED
    BY <1>4, <1>5 DEF Around

\* The index of WireGuard for a key is that of its peer, or that of a free one;
\* no other peer has the key.
LEMMA WgIndexOf ==
  ASSUME NEW d, DeviceOK(d), Agrees(d), NEW k \in Keys
  PROVE  /\ WgIndex(d, k) \in {0} \cup Indices
         /\ WgIndex(d, k) # 0 => d.wg[WgIndex(d, k)].key \in {k, NoKey}
         /\ \A o \in Indices : o # WgIndex(d, k) => d.wg[o].key # k
  <1> DEFINE there == {j \in Indices : d.wg[j].key = k}
             free == {j \in Indices : d.wg[j].key = NoKey}
  <1>1. CASE there # {}
    <2>1. Min(there) \in there
      BY <1>1, MinIsIn, Constants
    <2>2. WgIndex(d, k) = Min(there)
      BY <1>1 DEF WgIndex
    <2>3. \A o \in Indices : o # Min(there) => d.wg[o].key # k
      <3>1. PICK m \in Indices : m = Min(there) /\ d.wg[m].key = k
        BY <2>1
      <3>2. Valid(d, m)
        BY <3>1, Constants DEF Valid
      <3>3. \A o \in Indices : d.wg[m].key = d.wg[o].key => m = o
        BY <3>2 DEF Agrees
      <3> QED
        BY <3>1, <3>3
    <2> QED
      BY <2>1, <2>2, <2>3
  <1>2. CASE there = {} /\ free # {}
    <2>1. Min(free) \in free
      BY <1>2, MinIsIn, Constants
    <2>2. WgIndex(d, k) = Min(free)
      BY <1>2 DEF WgIndex
    <2> QED
      BY <1>2, <2>1, <2>2
  <1>3. CASE there = {} /\ free = {}
    <2>1. WgIndex(d, k) = 0
      BY <1>3 DEF WgIndex
    <2> QED
      BY <1>3, <2>1
  <1> QED
    BY <1>1, <1>2, <1>3

\* The tables with a key in the slot i and in the peer j, or in none.
LEMMA FilledAgrees ==
  ASSUME NEW d, DeviceOK(d), Agrees(d), NEW f, DeviceOK(f), NEW k \in Keys,
         NEW i \in Indices, d.slot[i].active => d.slot[i].key = k, Holding(d, k) \subseteq {i},
         NEW j \in {0} \cup Indices, j # 0 => d.wg[j].key \in {k, NoKey},
         \A o \in Indices : o # j => d.wg[o].key # k,
         f.slot[i].key = k /\ f.slot[i].active /\ f.slot[i].wg = j,
         \A o \in Indices : o # i => f.slot[o] = d.slot[o],
         j # 0 => f.wg[j].key = k,
         \A o \in Indices : o # j => f.wg[o] = d.wg[o]
  PROVE  Agrees(f)
  <1>1. /\ \A o \in ActiveSlots(d) : o \in Indices /\ d.slot[o].wg \in {0} \cup Indices
        /\ \A o \in ActiveSlots(f) : o \in Indices /\ (o # i => o \in ActiveSlots(d))
        /\ i \in ActiveSlots(f)
        /\ \A o \in ActiveSlots(d) : o \in ActiveSlots(f)
    BY DEF ActiveSlots, DeviceOK, PathDevices, SlotsOfPeers
  <1>2. k # NoKey
    BY Constants
  <1>3. ASSUME NEW o \in ActiveSlots(f)
        PROVE  /\ f.slot[o].key # NoKey
               /\ f.slot[o].wg # 0 => f.wg[f.slot[o].wg].key = f.slot[o].key
    <2>1. CASE o = i
      BY <1>2, <2>1
    <2>2. CASE o # i
      <3>1. o \in ActiveSlots(d) /\ f.slot[o] = d.slot[o]
        BY <1>1, <2>2
      <3>2. d.slot[o].key # NoKey /\ d.slot[o].key # k
        BY <2>2, <3>1 DEF Agrees, Holding
      <3>3. PICK j2 : j2 = d.slot[o].wg
        OBVIOUS
      <3>4. j2 # 0 => d.wg[j2].key = d.slot[o].key
        BY <3>1, <3>3 DEF Agrees
      <3>5. j2 # 0 => j2 \in Indices /\ j2 # j
        BY <1>1, <3>1, <3>2, <3>3, <3>4
      <3> QED
        BY <3>1, <3>2, <3>3, <3>4, <3>5
    <2> QED
      BY <2>1, <2>2
  <1>4. ASSUME NEW o \in Indices, Valid(f, o)
        PROVE  \E i2 \in ActiveSlots(f) : f.slot[i2].wg = o
    <2>1. CASE o = j
      BY <1>1, <2>1
    <2>2. CASE o # j
      <3>1. Valid(d, o) /\ d.wg[o].key # k
        BY <1>4, <2>2 DEF Valid
      <3>2. PICK i2 \in ActiveSlots(d) : d.slot[i2].wg = o
        BY <3>1 DEF Agrees
      <3>3. d.wg[o].key = d.slot[i2].key
        BY <3>1, <3>2 DEF Agrees, Valid
      <3>4. i2 # i
        BY <3>1, <3>2, <3>3 DEF ActiveSlots
      <3> QED
        BY <1>1, <3>2, <3>4
    <2> QED
      BY <2>1, <2>2
  <1>5. ASSUME NEW o \in ActiveSlots(f), NEW p \in ActiveSlots(f), f.slot[o].key = f.slot[p].key
        PROVE  o = p
    <2>1. \A q \in ActiveSlots(f) : q # i => q \in ActiveSlots(d) /\ f.slot[q] = d.slot[q]
      BY <1>1
    <2>2. \A q \in ActiveSlots(d) : q # i => d.slot[q].key # k
      BY DEF Holding
    <2> QED
      BY <1>5, <2>1, <2>2 DEF Agrees
  <1>6. ASSUME NEW o \in Indices, NEW p \in Indices, Valid(f, o), f.wg[o].key = f.wg[p].key
        PROVE  o = p
    <2>1. CASE o # j /\ p # j
      BY <1>6, <2>1 DEF Agrees, Valid
    <2>2. CASE o = j \/ p = j
      <3>1. j # 0
        BY <2>2, Constants
      <3> QED
        BY <1>6, <2>2, <3>1
    <2> QED
      BY <2>1, <2>2
  <1> QED
    BY <1>3, <1>4, <1>5, <1>6 DEF Agrees

LEMMA AddPeerStep ==
  ASSUME PathsInv, NEW k \in Keys, AddPeer(k)
  PROVE  StepOK
  <1> DEFINE own == Holding(dev, k)
             free == Indices \ ActiveSlots(dev)
  <1>1. PICK i, j, added, s, f :
          /\ i = Min(IF own # {} THEN own ELSE free)
          /\ j = WgIndex(dev, k) /\ added = WgAdded(dev, k)
          /\ s = [FreshSlot(k) EXCEPT !.tried = added.slot[i].tried, !.wg = j]
          /\ f = [added EXCEPT !.slot = [added.slot EXCEPT ![i] = s]]
    OBVIOUS
  <1>2. i \in Indices /\ (dev.slot[i].active => dev.slot[i].key = k) /\ own \subseteq {i}
    <2>1. own \cup free # {} /\ own \subseteq Indices /\ free \subseteq Indices
      BY DEF AddPeer, Holding, ActiveSlots
    <2>2. CASE own # {}
      <3>1. i \in own
        BY <1>1, <2>1, <2>2, MinIsIn, Constants
      <3> QED
        BY <2>1, <3>1 DEF Holding, PathsInv, Agrees
    <2>3. CASE own = {}
      <3>1. i \in free
        BY <1>1, <2>1, <2>3, MinIsIn, Constants
      <3> QED
        BY <2>3, <3>1 DEF ActiveSlots
    <2> QED
      BY <2>2, <2>3
  <1>3. /\ j \in {0} \cup Indices /\ (j # 0 => dev.wg[j].key \in {k, NoKey})
        /\ \A o \in Indices : o # j => dev.wg[o].key # k
    BY <1>1, WgIndexOf DEF PathsInv
  <1>4. /\ DeviceOK(added) /\ added.slot = dev.slot
        /\ \A o \in Indices : o # j => added.wg[o] = dev.wg[o]
        /\ j # 0 => /\ added.wg[j].key = k
                    /\ added.wg[j] = dev.wg[j] \/ added.wg[j] = FreshWg(k)
    <2>1. CASE j = 0 \/ Valid(dev, j)
      <3>1. added = dev
        BY <1>1, <2>1 DEF WgAdded
      <3> QED
        BY <1>3, <2>1, <3>1 DEF PathsInv, Valid
    <2>2. CASE j # 0 /\ ~ Valid(dev, j)
      <3>1. added = [dev EXCEPT !.wg = [dev.wg EXCEPT ![j] = FreshWg(k)]]
        BY <1>1, <2>2 DEF WgAdded, PathsInv, DeviceOK, PathDevices
      <3>2. FreshWg(k) \in WgPeers /\ FreshWg(k).key = k
        BY DEF FreshWg, WgPeers
      <3>3. j \in Indices /\ DeviceOK(dev)
        BY <1>3, <2>2 DEF PathsInv
      <3>4. /\ DeviceOK(added) /\ added.slot = dev.slot
            /\ added.wg \in [Indices -> WgPeers] /\ dev.wg \in [Indices -> WgPeers]
            /\ added.wg[j] = FreshWg(k) /\ \A o \in Indices : o # j => added.wg[o] = dev.wg[o]
        BY <3>1, <3>2, <3>3, PeerReplaced
      <3> QED
        BY <3>2, <3>4
    <2> QED
      BY <2>1, <2>2
  <1>5. /\ s \in SlotsOfPeers /\ s.key = k /\ s.active /\ s.wg = j
    <2>1. added.slot[i] \in SlotsOfPeers
      BY <1>2, <1>4 DEF DeviceOK, PathDevices
    <2>2. FreshSlot(k) = [key |-> k, active |-> TRUE, direct |-> FALSE, trust |-> 0,
                          best |-> NoKey, tried |-> FALSE, wg |-> 0]
      BY Constants DEF FreshSlot
    <2>3. 0 \in 0..Trust
      BY Constants
    <2>4. PICK was, fresh : was = added.slot[i] /\ fresh = FreshSlot(k)
      OBVIOUS
    <2>5. was.tried \in BOOLEAN
      BY <2>1, <2>4 DEF SlotsOfPeers
    <2>6. s = [key |-> k, active |-> TRUE, direct |-> FALSE, trust |-> 0,
               best |-> NoKey, tried |-> was.tried, wg |-> j]
      <3>1. s = [fresh EXCEPT !.tried = was.tried, !.wg = j]
        BY <1>1, <2>4
      <3>2. fresh = [key |-> k, active |-> TRUE, direct |-> FALSE, trust |-> 0,
                     best |-> NoKey, tried |-> FALSE, wg |-> 0]
        BY <2>2, <2>4
      <3> QED
        BY ONLY <3>1, <3>2
    <2> QED
      BY <1>3, <2>3, <2>5, <2>6 DEF SlotsOfPeers
  <1>6. /\ f.slot = [added.slot EXCEPT ![i] = s] /\ f.wg = added.wg
        /\ f.probe = added.probe /\ f.answers = added.answers /\ f \in PathDevices
    BY <1>1, <1>2, <1>4, <1>5 DEF DeviceOK, PathDevices
  <1>7. DeviceOK(f)
    BY <1>4, <1>6 DEF DeviceOK
  <1>8. f.slot[i] = s /\ \A o \in Indices : o # i => f.slot[o] = dev.slot[o]
    BY <1>2, <1>4, <1>6 DEF DeviceOK, PathDevices
  <1>9. Agrees(f)
    <2>1. f.slot[i].key = k /\ f.slot[i].active /\ f.slot[i].wg = j
      BY <1>5, <1>8
    <2>2. (j # 0 => f.wg[j].key = k) /\ \A o \in Indices : o # j => f.wg[o] = dev.wg[o]
      BY <1>4, <1>6
    <2>3. Holding(dev, k) \subseteq {i}
      BY <1>2
    <2>4. DeviceOK(dev) /\ Agrees(dev)
      BY DEF PathsInv
    <2> QED
      BY <1>2, <1>3, <1>7, <1>8, <2>1, <2>2, <2>3, <2>4, FilledAgrees
  <1>10. Mild(f, dev')
    <2>1. dev' = Ping(SlotFilled(added, i, k, j), i)
      BY <1>1 DEF AddPeer
    <2>2. SlotFilled(added, i, k, j) = f
      BY <1>1, <1>4 DEF SlotFilled, DeviceOK, PathDevices
    <2> QED
      BY <1>2, <1>7, <2>1, <2>2, PingIsMild
  <1>11. \A o \in Indices : \/ f.wg[o] = dev.wg[o]
                            \/ f.wg[o].ip = NoKey /\ ~f.wg[o].active /\ ~f.wg[o].session
    <2>1. FreshWg(k).ip = NoKey /\ ~FreshWg(k).active /\ ~FreshWg(k).session
      BY DEF FreshWg
    <2> TAKE o \in Indices
    <2>2. CASE o = j
      <3>1. j # 0
        BY <2>2, Constants
      <3> QED
        BY <1>4, <1>6, <2>1, <2>2, <3>1
    <2>3. CASE o # j
      BY <1>4, <1>6, <2>3
    <2> QED
      BY <2>2, <2>3
  <1>12. Around
    BY UpdateCounted DEF AddPeer
  <1> QED
    BY <1>7, <1>9, <1>10, <1>11, <1>12, TablesStep

LEMMA RemovePeerStep ==
  ASSUME PathsInv, NEW k \in Keys, RemovePeer(k)
  PROVE  StepOK
  <1>1. PICK i \in Holding(dev, k) :
          dev' = [(IF dev.slot[i].wg = 0 THEN dev
                   ELSE [dev EXCEPT !.wg[dev.slot[i].wg] = FreshWg(NoKey)])
                    EXCEPT !.slot[i].active = FALSE]
    BY DEF RemovePeer
  <1>2. PICK j, without :
          /\ j = dev.slot[i].wg
          /\ without = IF j = 0 THEN dev ELSE [dev EXCEPT !.wg[j] = FreshWg(NoKey)]
    OBVIOUS
  <1>3. /\ i \in ActiveSlots(dev) /\ i \in Indices /\ dev.slot[i].key = k
        /\ dev.slot[i] \in SlotsOfPeers /\ j \in {0} \cup Indices
    BY <1>2 DEF Holding, ActiveSlots, PathsInv, DeviceOK, PathDevices, SlotsOfPeers
  <1>4. DeviceOK(dev) /\ Agrees(dev)
    BY DEF PathsInv
  <1>5. /\ DeviceOK(without) /\ without.slot = dev.slot
        /\ \A o \in Indices : o # j => without.wg[o] = dev.wg[o]
        /\ j # 0 => without.wg[j] = FreshWg(NoKey)
    <2>1. CASE j = 0
      BY <1>2, <1>4, <2>1
    <2>2. CASE j # 0
      <3>1. without = [dev EXCEPT !.wg = [dev.wg EXCEPT ![j] = FreshWg(NoKey)]]
        BY <1>2, <1>4, <2>2 DEF DeviceOK, PathDevices
      <3>2. FreshWg(NoKey) \in WgPeers
        BY DEF FreshWg, WgPeers
      <3>3. j \in Indices
        BY <1>3, <2>2
      <3>4. /\ DeviceOK(without) /\ without.slot = dev.slot
            /\ without.wg \in [Indices -> WgPeers] /\ dev.wg \in [Indices -> WgPeers]
            /\ without.wg[j] = FreshWg(NoKey)
            /\ \A o \in Indices : o # j => without.wg[o] = dev.wg[o]
        BY <1>4, <3>1, <3>2, <3>3, PeerReplaced
      <3> QED
        BY <3>4
    <2> QED
      BY <2>1, <2>2
  <1>6. PICK s, f : /\ s = [dev.slot[i] EXCEPT !.active = FALSE]
                    /\ f = [without EXCEPT !.slot = [without.slot EXCEPT ![i] = s]]
    OBVIOUS
  <1>7. s \in SlotsOfPeers /\ ~s.active
    BY <1>3, <1>6 DEF SlotsOfPeers
  <1>8. dev' = f
    <2>1. dev' = [without EXCEPT !.slot[i].active = FALSE]
      BY <1>1, <1>2
    <2> QED
      BY <1>5, <1>6, <2>1 DEF DeviceOK, PathDevices
  <1>9. /\ f.slot = [without.slot EXCEPT ![i] = s] /\ f.wg = without.wg
        /\ f.probe = without.probe /\ f.answers = without.answers /\ f \in PathDevices
    BY <1>3, <1>5, <1>6, <1>7 DEF DeviceOK, PathDevices
  <1>10. DeviceOK(f)
    BY <1>5, <1>9 DEF DeviceOK
  <1>11. f.slot[i] = s /\ \A o \in Indices : o # i => f.slot[o] = dev.slot[o]
    BY <1>3, <1>5, <1>9 DEF DeviceOK, PathDevices
  <1>12. Agrees(f)
    <2>1. /\ \A o \in ActiveSlots(f) : o # i /\ o \in ActiveSlots(dev) /\ o \in Indices
          /\ \A o \in ActiveSlots(dev) : o # i => o \in ActiveSlots(f)
          /\ \A o \in ActiveSlots(dev) : o \in Indices /\ dev.slot[o].wg \in {0} \cup Indices
      BY <1>4, <1>7, <1>11 DEF ActiveSlots, DeviceOK, PathDevices, SlotsOfPeers
    <2>2. j # 0 => dev.wg[j].key = k
      BY <1>2, <1>3, <1>4 DEF Agrees
    <2>3. ASSUME NEW o \in ActiveSlots(f)
          PROVE  /\ f.slot[o].key # NoKey
                 /\ f.slot[o].wg # 0 => f.wg[f.slot[o].wg].key = f.slot[o].key
      <3>1. f.slot[o] = dev.slot[o] /\ dev.slot[o].key # k /\ dev.slot[o].key # NoKey
        BY <1>3, <1>4, <1>11, <2>1, <2>3 DEF Agrees
      <3>2. PICK j2 : j2 = dev.slot[o].wg
        OBVIOUS
      <3>3. j2 # 0 => dev.wg[j2].key = dev.slot[o].key
        BY <1>4, <2>1, <2>3, <3>2 DEF Agrees
      <3>4. j2 # 0 => j2 \in Indices /\ j2 # j
        BY <2>1, <2>2, <2>3, <3>1, <3>2, <3>3
      <3> QED
        BY <1>5, <1>9, <3>1, <3>2, <3>3, <3>4
    <2>4. \A o \in Indices : Valid(f, o) => o # j /\ f.wg[o] = dev.wg[o] /\ Valid(dev, o)
      BY <1>5, <1>9 DEF Valid, FreshWg
    <2>5. ASSUME NEW o \in Indices, Valid(f, o)
          PROVE  \E i2 \in ActiveSlots(f) : f.slot[i2].wg = o
      <3>1. PICK i2 \in ActiveSlots(dev) : dev.slot[i2].wg = o
        BY <1>4, <2>4, <2>5 DEF Agrees
      <3>2. i2 # i
        BY <1>2, <2>4, <2>5, <3>1
      <3> QED
        BY <1>11, <2>1, <3>1, <3>2
    <2>6. ASSUME NEW o \in ActiveSlots(f), NEW p \in ActiveSlots(f), f.slot[o].key = f.slot[p].key
          PROVE  o = p
      BY <1>4, <1>11, <2>1, <2>6 DEF Agrees
    <2>7. ASSUME NEW o \in Indices, NEW p \in Indices, Valid(f, o), f.wg[o].key = f.wg[p].key
          PROVE  o = p
      <3>1. Valid(f, p)
        BY <2>7, Constants DEF Valid
      <3>2. dev.wg[o].key = dev.wg[p].key /\ Valid(dev, o)
        BY <2>4, <2>7, <3>1
      <3> QED
        BY <1>4, <3>2 DEF Agrees
    <2> QED
      BY <2>3, <2>5, <2>6, <2>7 DEF Agrees
  <1>13. Mild(f, dev')
    BY <1>8, <1>10, MildSame
  <1>14. \A o \in Indices : \/ f.wg[o] = dev.wg[o]
                            \/ f.wg[o].ip = NoKey /\ ~f.wg[o].active /\ ~f.wg[o].session
    <2>1. FreshWg(NoKey).ip = NoKey /\ ~FreshWg(NoKey).active /\ ~FreshWg(NoKey).session
      BY DEF FreshWg
    <2> TAKE o \in Indices
    <2>2. CASE o = j
      <3>1. j # 0
        BY <2>2, Constants
      <3> QED
        BY <1>5, <1>9, <2>1, <2>2, <3>1
    <2>3. CASE o # j
      BY <1>5, <1>9, <2>3
    <2> QED
      BY <2>2, <2>3
  <1>15. Around
    BY UpdateCounted DEF RemovePeer
  <1> QED
    BY <1>10, <1>12, <1>13, <1>14, <1>15, TablesStep
-----------------------------------------------------------------------------
(***************************************************************************)
(* The other steps, and the theorems.                                      *)
(***************************************************************************)
LEMMA CallMeMaybeStep ==
  ASSUME PathsInv, NEW k \in Keys, CallMeMaybe(k)
  PROVE  StepOK
  <1>1. PICK i \in Holding(dev, k) : dev' = Ping(Registered(dev, i, Directly(dev, i)), i)
    BY DEF CallMeMaybe
  <1>2. i \in Indices /\ DeviceOK(dev)
    BY DEF Holding, ActiveSlots, PathsInv
  <1>3. PICK d : d = Registered(dev, i, Directly(dev, i))
    OBVIOUS
  <1>4. Mild(dev, d)
    <2>1. Directly(dev, i) \subseteq {"derp", "direct"}
      BY DEF Directly
    <2> QED
      BY <1>2, <1>3, <2>1, RegisteredIsMild
  <1>5. Mild(d, dev')
    <2>1. DeviceOK(d)
      BY <1>4 DEF Mild
    <2>2. dev' = Ping(d, i)
      BY <1>1, <1>3
    <2> QED
      BY <1>2, <2>1, <2>2, PingIsMild
  <1>6. Around
    BY DEF CallMeMaybe, PathsInv, Around
  <1> QED
    BY <1>4, <1>5, <1>6, MildChain, MildStep

LEMMA PeriodicStep ==
  ASSUME PathsInv, PeriodicProbes
  PROVE  StepOK
  <1>1. Around
    BY DEF PeriodicProbes, PathsInv, Around
  <1>2. Mild(dev, dev')
    BY PeriodicIsMild DEF PathsInv
  <1> QED
    BY <1>1, <1>2, MildStep

\* One peer of WireGuard gets an address, NoKey or its own, or one left in the slot.
LEMMA ReplacedStep ==
  ASSUME PathsInv, Around, NEW j \in Indices, NEW p \in WgPeers, p.key = dev.wg[j].key,
         dev' = [dev EXCEPT !.wg = [dev.wg EXCEPT ![j] = p]],
         \/ p.ip \in {NoKey, dev.wg[j].ip, dev.wg[j].key}
         \/ \E i \in ActiveSlots(dev) : dev.slot[i].wg = j /\ dev.slot[i].best = p.ip,
         p.active => dev.wg[j].active \/ \E k \in Keys : TriggerHandshake(k)
  PROVE  StepOK
  <1>1. DeviceOK(dev)
    BY DEF PathsInv
  <1>2. PICK e : e = dev'
    OBVIOUS
  <1>3. e = [dev EXCEPT !.wg = [dev.wg EXCEPT ![j] = p]]
    BY <1>2
  <1>4. /\ DeviceOK(e) /\ e.slot = dev.slot
        /\ e.wg \in [Indices -> WgPeers] /\ dev.wg \in [Indices -> WgPeers]
        /\ e.wg[j] = p /\ \A o \in Indices : o # j => e.wg[o] = dev.wg[o]
    BY <1>1, <1>3, PeerReplaced
  <1>5. SameTables(dev, e)
    BY <1>4 DEF SameTables
  <1>6. \A o \in Indices : e.wg[o].ip = dev.wg[o].ip \/ (o = j /\ e.wg[o].ip = p.ip)
    BY <1>4
  <1>7. \A o \in Indices : Retries(o)
    BY <1>2, <1>4 DEF Retries
  <1>8. CASE p.ip = dev.wg[j].ip
    <2>1. Moved(dev, dev', j, NoKey)
      BY <1>2, <1>4, <1>5, <1>6, <1>8 DEF Moved
    <2> QED
      BY <1>7, <2>1, MovedStep
  <1>9. CASE p.ip # dev.wg[j].ip
    <2>1. Moved(dev, dev', j, p.ip)
      BY <1>2, <1>4, <1>5, <1>6 DEF Moved
    <2> QED
      BY <1>7, <1>9, <2>1, MovedStep
  <1> QED
    BY <1>8, <1>9

LEMMA TriggerStep ==
  ASSUME PathsInv, NEW k \in Keys, TriggerHandshake(k)
  PROVE  StepOK
  <1>1. PICK i \in Holding(dev, k) :
          /\ dev.slot[i].wg # 0 /\ ~IsUp(dev, dev.slot[i].wg)
          /\ dev' = IF dev.slot[i].best = NoKey THEN ConnectDerp(dev, dev.slot[i].wg)
                    ELSE Connect(ConnectDerp(dev, dev.slot[i].wg), dev.slot[i].wg,
                                 dev.slot[i].best)
    BY DEF TriggerHandshake
  <1>2. PICK j, best : j = dev.slot[i].wg /\ best = dev.slot[i].best
    OBVIOUS
  <1>3. DeviceOK(dev) /\ dev.wg \in [Indices -> WgPeers]
    BY DEF PathsInv, DeviceOK, PathDevices
  <1>4. /\ i \in ActiveSlots(dev) /\ j \in {0} \cup Indices /\ best \in Keys \cup {NoKey}
        /\ NoKey \in Keys \cup {NoKey}
    BY <1>2, <1>3 DEF Holding, ActiveSlots, DeviceOK, PathDevices, SlotsOfPeers
  <1>5. PICK c : c = ConnectDerp(dev, j)
    OBVIOUS
  <1>6. dev' = IF best = NoKey THEN c ELSE Connect(c, j, best)
    BY <1>1, <1>2, <1>5
  <1>7. Around
    BY DEF TriggerHandshake, PathsInv, Around
  <1>8. CASE ~ Valid(dev, j)
    <2>1. c = dev
      BY <1>5, <1>8 DEF ConnectDerp
    <2>2. Connect(c, j, best) = dev
      BY <1>8, <2>1 DEF Connect
    <2>3. dev' = dev
      BY <1>6, <2>1, <2>2
    <2> QED
      BY <1>3, <1>7, <2>3, MildSame, MildStep
  <1>9. CASE Valid(dev, j)
    <2>1. PICK p : p = [dev.wg[j] EXCEPT !.ip = NoKey, !.active = TRUE]
      OBVIOUS
    <2>2. /\ j \in Indices /\ p \in WgPeers
          /\ c = [dev EXCEPT !.wg = [dev.wg EXCEPT ![j] = p]]
      <3>1. c = Connect(dev, j, NoKey)
        BY <1>5 DEF Connect, ConnectDerp
      <3> QED
        BY <1>3, <1>4, <1>9, <2>1, <3>1, ConnectCases
    <2>3. dev.wg[j] \in WgPeers
      BY <1>3, <2>2
    <2>4. p.key = dev.wg[j].key /\ p.ip = NoKey
      BY <2>1, <2>3 DEF WgPeers
    <2>5. CASE best = NoKey
      <3>1. dev' = [dev EXCEPT !.wg = [dev.wg EXCEPT ![j] = p]]
        BY <1>6, <2>2, <2>5
      <3> QED
        BY <1>7, <2>2, <2>4, <3>1, ReplacedStep
    <2>6. CASE best # NoKey
      <3>1. /\ DeviceOK(c) /\ c.slot = dev.slot
            /\ c.wg \in [Indices -> WgPeers] /\ dev.wg \in [Indices -> WgPeers]
            /\ c.wg[j] = p /\ \A o \in Indices : o # j => c.wg[o] = dev.wg[o]
        BY <1>3, <2>2, PeerReplaced
      <3>2. PICK q : q = [p EXCEPT !.ip = best, !.active = TRUE]
        OBVIOUS
      <3>3. Valid(c, j)
        BY <1>9, <2>4, <3>1 DEF Valid
      <3>4. /\ q \in WgPeers
            /\ Connect(c, j, best) = [c EXCEPT !.wg = [c.wg EXCEPT ![j] = q]]
        <4>1. q = [c.wg[j] EXCEPT !.ip = best, !.active = TRUE]
          BY <3>1, <3>2
        <4> QED
          BY <1>4, <3>1, <3>3, <4>1, ConnectCases
      <3>5. q.key = dev.wg[j].key /\ q.ip = best
        BY <2>2, <2>4, <3>2 DEF WgPeers
      <3>6. dev' = [dev EXCEPT !.wg = [dev.wg EXCEPT ![j] = q]]
        <4>1. dev' = [c EXCEPT !.wg = [c.wg EXCEPT ![j] = q]]
          BY <1>6, <2>6, <3>4
        <4> QED
          BY <1>3, <2>2, <3>1, <4>1 DEF DeviceOK, PathDevices
      <3>7. dev.slot[i].wg = j /\ dev.slot[i].best = q.ip
        BY <1>2, <3>5
      <3> QED
        BY <1>4, <1>7, <2>2, <3>4, <3>5, <3>6, <3>7, ReplacedStep
    <2> QED
      BY <2>5, <2>6
  <1> QED
    BY <1>8, <1>9

LEMMA AuthenticatedStep ==
  ASSUME PathsInv, NEW j \in Indices, Authenticated(j)
  PROVE  StepOK
  <1>1. PICK ip \in {dev.wg[j].ip} \cup ({dev.wg[j].key} \cap open) :
          dev' = [dev EXCEPT !.wg[j].session = TRUE, !.wg[j].ip = ip]
    BY DEF Authenticated
  <1>2. DeviceOK(dev) /\ dev.wg \in [Indices -> WgPeers] /\ dev.wg[j] \in WgPeers
    BY DEF PathsInv, DeviceOK, PathDevices
  <1>3. PICK p : p = [dev.wg[j] EXCEPT !.session = TRUE, !.ip = ip]
    OBVIOUS
  <1>4. ip \in Keys \cup {NoKey} /\ ip \in {dev.wg[j].ip, dev.wg[j].key}
    BY <1>2 DEF WgPeers
  <1>5. /\ p \in WgPeers /\ p.key = dev.wg[j].key /\ p.ip = ip
        /\ p.active = dev.wg[j].active
    BY <1>2, <1>3, <1>4 DEF WgPeers
  <1>6. dev' = [dev EXCEPT !.wg = [dev.wg EXCEPT ![j] = p]]
    BY <1>1, <1>2, <1>3 DEF DeviceOK, PathDevices
  <1>7. Around
    BY DEF Authenticated, PathsInv, Around
  <1> QED
    BY <1>4, <1>5, <1>6, <1>7, ReplacedStep

LEMMA SessionEndsStep ==
  ASSUME PathsInv, NEW j \in Indices, SessionEnds(j)
  PROVE  StepOK
  <1>1. dev' = [dev EXCEPT !.wg[j].session = FALSE]
    BY DEF SessionEnds
  <1>2. DeviceOK(dev) /\ dev.wg \in [Indices -> WgPeers] /\ dev.wg[j] \in WgPeers
    BY DEF PathsInv, DeviceOK, PathDevices
  <1>3. PICK p : p = [dev.wg[j] EXCEPT !.session = FALSE]
    OBVIOUS
  <1>4. /\ p \in WgPeers /\ p.key = dev.wg[j].key /\ p.ip = dev.wg[j].ip
        /\ p.active = dev.wg[j].active
    BY <1>2, <1>3 DEF WgPeers
  <1>5. dev' = [dev EXCEPT !.wg = [dev.wg EXCEPT ![j] = p]]
    BY <1>1, <1>2, <1>3 DEF DeviceOK, PathDevices
  <1>6. Around
    BY DEF SessionEnds, PathsInv, Around
  <1> QED
    BY <1>4, <1>5, <1>6, ReplacedStep

LEMMA BlockedStep ==
  ASSUME PathsInv, NEW k \in Keys, Blocked(k)
  PROVE  StepOK
  <1>1. Around
    <2>1. count \in [updates : 0..MaxUpdates, blocks : 0..MaxBlocks] /\ open' \subseteq Keys
      BY DEF PathsInv, Blocked
    <2>2. count.blocks + 1 \in 0..MaxBlocks
      <3>1. MaxBlocks \in Nat /\ count.blocks < MaxBlocks
        BY PathsAssumption DEF Blocked
      <3> QED
        BY <2>1, <3>1
    <2>3. count' = [count EXCEPT !.blocks = count.blocks + 1]
      BY DEF Blocked, Counted
    <2>4. count' \in [updates : 0..MaxUpdates, blocks : 0..MaxBlocks]
      BY <2>1, <2>2, <2>3
    <2> QED
      BY <2>1, <2>4 DEF Around
  <1>2. PICK e : e = dev'
    OBVIOUS
  <1>3. /\ dev.slot \in [Indices -> SlotsOfPeers] /\ dev.wg \in [Indices -> WgPeers]
        /\ dev.probe \in [Probes -> ProbeSlots] /\ dev.answers \subseteq ProbeAnswers
        /\ \A a \in dev.answers : dev.probe[a.probe].slot # 0
        /\ dev \in PathDevices
    BY DEF PathsInv, DeviceOK, PathDevices
  <1>4. PICK answers : /\ answers \subseteq dev.answers
                       /\ e = [dev EXCEPT !.answers = answers]
    BY <1>2 DEF Blocked
  <1>5. /\ e.slot = dev.slot /\ e.wg = dev.wg /\ e.probe = dev.probe /\ e.answers = answers
        /\ e \in PathDevices
    BY <1>3, <1>4 DEF PathDevices
  <1>6. DeviceOK(e)
    BY <1>3, <1>4, <1>5 DEF DeviceOK
  <1>7. Mild(dev, e)
    BY <1>3, <1>5, <1>6 DEF Mild, WgPeers
  <1> QED
    BY <1>1, <1>2, <1>7, MildStep

LEMMA PathsInitially ==
  ASSUME PathsInit
  PROVE  PathsInv
  <1>1. PICK n \in 0..MaxPeers : \E cached \in [1..n -> Keys] :
          /\ \A i, j \in 1..n : cached[i] = cached[j] => i = j
          /\ dev = [slot |-> [i \in Indices |-> FreshSlot(IF i <= n THEN cached[i] ELSE NoKey)],
                    wg |-> [j \in Indices |-> FreshWg(NoKey)],
                    probe |-> [n2 \in Probes |-> NoProbe],
                    answers |-> {}]
    BY DEF PathsInit
  <1>2. PICK cached \in [1..n -> Keys] :
          /\ \A i, j \in 1..n : cached[i] = cached[j] => i = j
          /\ dev = [slot |-> [i \in Indices |-> FreshSlot(IF i <= n THEN cached[i] ELSE NoKey)],
                    wg |-> [j \in Indices |-> FreshWg(NoKey)],
                    probe |-> [n2 \in Probes |-> NoProbe],
                    answers |-> {}]
    BY <1>1
  <1>3. \A i \in Indices : (i <= n => i \in 1..n /\ cached[i] \in Keys) /\ i \in Nat
    BY <1>2, Constants DEF Indices
  <1>4. \A k \in Keys \cup {NoKey} :
          /\ FreshSlot(k) \in SlotsOfPeers /\ FreshSlot(k).key = k /\ FreshSlot(k).wg = 0
          /\ FreshSlot(k).active <=> k # NoKey
    <2> TAKE k \in Keys \cup {NoKey}
    <2>1. (k # NoKey) \in BOOLEAN
      BY Zenon
    <2>2. 0 \in 0..Trust
      BY Constants
    <2> QED
      BY <2>1, <2>2 DEF FreshSlot, SlotsOfPeers
  <1>5. FreshWg(NoKey) \in WgPeers /\ FreshWg(NoKey).key = NoKey /\ NoProbe \in ProbeSlots
    BY DEF FreshWg, WgPeers, NoProbe, ProbeSlots
  <1>6. \A i \in Indices : (IF i <= n THEN cached[i] ELSE NoKey) \in Keys \cup {NoKey}
    BY <1>3
  <1>7. /\ dev.slot \in [Indices -> SlotsOfPeers] /\ dev.wg \in [Indices -> WgPeers]
        /\ dev.probe \in [Probes -> ProbeSlots] /\ dev.answers = {} /\ dev \in PathDevices
        /\ \A i \in Indices : dev.slot[i] = FreshSlot(IF i <= n THEN cached[i] ELSE NoKey)
        /\ \A j \in Indices : dev.wg[j] = FreshWg(NoKey)
    BY <1>2, <1>4, <1>5, <1>6 DEF PathDevices
  <1>8. DeviceOK(dev)
    BY <1>7 DEF DeviceOK
  <1>9. \A i \in Indices : /\ dev.slot[i].wg = 0
                           /\ dev.slot[i].active => i \in 1..n /\ dev.slot[i].key = cached[i]
                                                    /\ cached[i] # NoKey
    <2> TAKE i \in Indices
    <2>1. PICK k \in Keys \cup {NoKey} : k = IF i <= n THEN cached[i] ELSE NoKey
      BY <1>6
    <2>2. dev.slot[i] = FreshSlot(k)
      BY <1>7, <2>1
    <2>3. dev.slot[i].wg = 0 /\ (dev.slot[i].active => k # NoKey) /\ dev.slot[i].key = k
      BY <1>4, <2>2
    <2>4. k # NoKey => i <= n /\ k = cached[i]
      BY <2>1
    <2> QED
      BY <1>3, <2>3, <2>4
  <1>10. Agrees(dev)
    BY <1>2, <1>5, <1>7, <1>9 DEF Agrees, ActiveSlots, Valid
  <1>11. open \subseteq Keys /\ count \in [updates : 0..MaxUpdates, blocks : 0..MaxBlocks]
    BY PathsAssumption DEF PathsInit
  <1> QED
    BY <1>8, <1>10, <1>11 DEF PathsInv

LEMMA PathsSteps ==
  ASSUME PathsInv, [PathsNext]_pathsVars
  PROVE  StepOK
  <1>1. CASE UNCHANGED pathsVars
    <2>1. dev' = dev /\ Around
      BY <1>1 DEF pathsVars, Around, PathsInv
    <2>2. Mild(dev, dev')
      BY <2>1, MildSame DEF PathsInv
    <2> QED
      BY <2>1, <2>2, MildStep
  <1>2. CASE PathsNext
    BY <1>2, PeriodicStep, PongStep, AddPeerStep, RemovePeerStep, CallMeMaybeStep, TriggerStep,
       BlockedStep, AuthenticatedStep, SessionEndsStep
    DEF PathsNext, WgMgr
  <1> QED
    BY <1>1, <1>2

\* The inductive invariant.
THEOREM PathsKept == PathsSpec => []PathsInv
  <1>1. PathsInv /\ [PathsNext]_pathsVars => PathsInv'
    BY PathsSteps DEF StepOK
  <1> QED
    BY <1>1, PathsInitially, PTL DEF PathsSpec

\* The slots of ml->peers and the peers of WireGuard name the same nodes.
THEOREM PathsTablesAgree == PathsSpec => []PeersAgree
  <1>1. ASSUME PathsInv PROVE PeersAgree
    <2>1. /\ dev.slot \in [Indices -> SlotsOfPeers] /\ dev.wg \in [Indices -> WgPeers]
          /\ dev.probe \in [Probes -> ProbeSlots] /\ dev.answers \subseteq ProbeAnswers
          /\ \A a \in dev.answers : dev.probe[a.probe].slot # 0
      BY <1>1 DEF PathsInv, DeviceOK, PathDevices
    <2>2. dev.answers \subseteq
            [probe : {n \in Probes : dev.probe[n].slot # 0}, via : {"derp", "direct"}]
      BY <2>1 DEF ProbeAnswers
    <2>3. PathsTypeOK
      BY <1>1, <2>1, <2>2 DEF PathsTypeOK, PathsInv, SlotsOfPeers, WgPeers, ProbeSlots
    <2>4. TablesAgree
      BY <1>1 DEF TablesAgree, PathsInv, Agrees
    <2> QED
      BY <2>3, <2>4 DEF PeersAgree
  <1> QED
    BY <1>1, PathsKept, PTL

\* No peer gets the address of another unless a probe is out whose slot was
\* reused, or the answer to one has left its path in the slot.
THEOREM PathsMisledByReuse == PathsSpec => OnlyReuseMisleads
  <1>1. ASSUME PathsInv, [PathsNext]_pathsVars, ~ UNCHANGED pathsVars
        PROVE  \A j \in Indices : Foreign(dev'.wg[j]) /\ dev'.wg[j] # dev.wg[j] =>
                 \/ Foreign(dev.wg[j]) /\ dev.wg[j].ip = dev'.wg[j].ip
                 \/ \E n \in Probes : Misplaced(n)
                 \/ \E i \in ActiveSlots(dev) :
                      dev.slot[i].wg = j /\ dev.slot[i].best = dev'.wg[j].ip
    BY <1>1, PathsSteps DEF StepOK, Led
  <1> QED
    BY <1>1, PathsKept, PTL DEF PathsSpec, OnlyReuseMisleads

\* No peer without a session is left retrying, unless the application asked.
THEOREM PathsRetryForASession == PathsSpec => NoEndlessRetries
  <1>1. ASSUME PathsInv, [PathsNext]_pathsVars, ~ UNCHANGED pathsVars
        PROVE  \A j \in Indices : ~dev.wg[j].active /\ dev'.wg[j].active =>
                 dev.wg[j].session \/ \E k \in Keys : TriggerHandshake(k)
    BY <1>1, PathsSteps DEF StepOK, Retries
  <1> QED
    BY <1>1, PathsKept, PTL DEF PathsSpec, NoEndlessRetries
=============================================================================
