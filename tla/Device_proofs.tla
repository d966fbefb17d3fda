--------------------------- MODULE Device_proofs ----------------------------
(***************************************************************************)
(* Theorems about the device around the protocols: the way from the Wi-Fi  *)
(* to MicroLink in MlLink, for any networks, limits and lengths of the     *)
(* queues, and any number of losses and faults, and the gesture of the     *)
(* record buttons in RecordGesture, for any grace.                         *)
(*                                                                         *)
(* RebindIsOwed says nothing of a device without the Wi-Fi, and nothing    *)
(* of the order in which the loss and the address come; the invariant      *)
(* does. What is not yet handled always ends with what the driver did      *)
(* last (OrderInv), so a loss leaves a mark until a later address is       *)
(* taken, and what MicroLink has of an earlier association is marked       *)
(* (StaleInv). A lift ends a gesture only after the grace because its      *)
(* timer is due no earlier (GraceIsKept), however often the touch          *)
(* jitters.                                                                *)
(***************************************************************************)
EXTENDS MlLink, RecordGesture, SequenceTheorems, TLAPS
Starting == {"open", "create", "destroy"}

\* What the driver has posted follows from its state.
DriverInv ==
    /\ wifi.driver = "trying" => events = <<>>
    /\ wifi.driver = "up" => events \in {<<>>, <<"GOT_IP">>}
    /\ wifi.driver = "down" => events \notin {<<>>, <<"GOT_IP">>}
    /\ wifi.driver # "up" => wifi.assoc <= MaxLosses
    /\ events = <<"START">> => wifi.assoc = 0

\* Before the first address MicroLink is not touched.
FirstInv ==
    wifi.assoc = 0 =>
        /\ wifi.driver # "up" /\ ~ml.handle /\ link.at = "wait"
        /\ events \notin {<<"GOT_IP">>, <<"GOT_IP", "DISCONNECTED">>}
        /\ \A n \in 1..Len(queue) : ~queue[n].got

\* The handle of MicroLink and the step of the link task, through its start.
StartInv ==
    /\ link.at = "init" => ~ml.handle
    /\ link.at \in Starting => ml.handle /\ ~ml.wifiUp
    /\ link.at \in {"close", "signal", "reopen"} => ml.handle
    /\ link.at \notin Starting /\ ml.handle => ml.wifiUp
    /\ link.at = "destroy" => forgone # {}

\* CONNECT is the first command, and nothing connects before it.
CommandInv ==
    /\ ~ml.wifiUp => ml.cmds = <<>> /\ ~ml.asked
    /\ ~ml.asked => ml.coord = 0 /\ ml.derp = 0
    /\ ml.asked => \A n \in 1..Len(ml.cmds) : ml.cmds[n] = "FORCE_RECONNECT"
    /\ \A n \in 2..Len(ml.cmds) : ml.cmds[n] = "FORCE_RECONNECT"

\* The last of what is not yet handled is what the driver did last.
OrderInv ==
    forgone = {} /\ wifi.assoc > 0 /\ events = <<>> =>
        IF wifi.driver = "up"
        THEN \/ queue # <<>> /\ queue[Len(queue)].got
             \/ queue = <<>> /\ (~link.pending \/ link.at \in {"init", "open", "create"})
        ELSE \/ queue # <<>> /\ ~queue[Len(queue)].got
             \/ queue = <<>> /\ link.pending /\ link.at = "wait"

LossIsQueued ==
    \/ \E n \in 1..Len(events) : events[n] = "DISCONNECTED"
    \/ \E n \in 1..Len(queue) : ~queue[n].got

\* What MicroLink has of an earlier association is marked to be replaced.
SockMarked == ml.sock = wifi.assoc \/ LossComes \/ link.at \in {"close", "signal", "reopen"}
CoordMarked ==
    \/ ml.coord = wifi.assoc \/ LossComes \/ link.at \in {"close", "signal"}
    \/ ml.coord = 0 \/ ml.cmds # <<>>
DerpMarked ==
    \/ ml.derp = wifi.assoc \/ LossComes \/ link.at \in {"close", "signal"}
    \/ ml.derp = 0 \/ ml.derpBit

StaleInv ==
    ml.handle /\ forgone = {} /\ wifi.driver = "up" =>
        /\ link.at \notin {"open", "create"} => SockMarked /\ CoordMarked /\ DerpMarked
        /\ link.at = "create" => ml.sock = wifi.assoc \/ LossIsQueued

IInv ==
    /\ TypeOK /\ DriverInv /\ FirstInv /\ StartInv /\ CommandInv /\ OrderInv /\ StaleInv
-----------------------------------------------------------------------------
(***************************************************************************)
(* Events and messages.                                                    *)
(***************************************************************************)
Messages == [got : BOOLEAN, net : Configured]
Shapes == {<<>>, <<"START">>, <<"DISCONNECTED">>, <<"GOT_IP">>, <<"GOT_IP", "DISCONNECTED">>}

\* The few lists of events there are, and what posting and handling make of them.
LEMMA EventShapes ==
    /\ \A e : Append(<<>>, e) = <<e>>
    /\ Append(<<"GOT_IP">>, "DISCONNECTED") = <<"GOT_IP", "DISCONNECTED">>
    /\ \A e : <<e>> # <<>> /\ Head(<<e>>) = e /\ Tail(<<e>>) = <<>>
    /\ <<"GOT_IP", "DISCONNECTED">> # <<>> /\ Head(<<"GOT_IP", "DISCONNECTED">>) = "GOT_IP"
    /\ Tail(<<"GOT_IP", "DISCONNECTED">>) = <<"DISCONNECTED">>
    /\ <<"START">> \notin {<<"DISCONNECTED">>, <<"GOT_IP">>, <<"GOT_IP", "DISCONNECTED">>}
    /\ <<"DISCONNECTED">> \notin {<<"GOT_IP">>, <<"GOT_IP", "DISCONNECTED">>}
    /\ <<"GOT_IP">> # <<"GOT_IP", "DISCONNECTED">>
  <1>1. \A e : <<e>> # <<>> /\ Head(<<e>>) = e /\ Tail(<<e>>) = <<>>
    OBVIOUS
  <1>2. \A e : Append(<<>>, e) = <<e>>
    OBVIOUS
  <1>6. Append(<<"GOT_IP">>, "DISCONNECTED") = <<"GOT_IP", "DISCONNECTED">>
    <2> DEFINE s == Append(<<"GOT_IP">>, "DISCONNECTED")
               t == <<"GOT_IP", "DISCONNECTED">>
               Two == {"GOT_IP", "DISCONNECTED"}
    <2>a. <<"GOT_IP">> \in Seq(Two) /\ Len(<<"GOT_IP">>) = 1 /\ <<"GOT_IP">>[1] = "GOT_IP"
      OBVIOUS
    <2>b. t \in Seq(Two)
      OBVIOUS
    <2>c. Len(t) = 2 /\ t[1] = "GOT_IP" /\ t[2] = "DISCONNECTED"
      OBVIOUS
    <2>1. "DISCONNECTED" \in Two
      OBVIOUS
    <2>2. s \in Seq(Two) /\ Len(s) = 2 /\ s[1] = "GOT_IP" /\ s[2] = "DISCONNECTED"
      <3> HIDE DEF Two
      <3> QED
        BY <2>a, <2>1, AppendProperties
    <2> HIDE DEF s, t, Two
    <2>3. \A i \in 1..Len(s) : s[i] = t[i]
      BY <2>c, <2>2
    <2>4. s = t
      BY <2>b, <2>c, <2>2, <2>3, SeqEqual
    <2> QED
      BY <2>4 DEF s, t
  <1>3. Tail(<<"GOT_IP", "DISCONNECTED">>) = <<"DISCONNECTED">>
    OBVIOUS
  <1>4. <<"GOT_IP", "DISCONNECTED">> # <<>> /\ Head(<<"GOT_IP", "DISCONNECTED">>) = "GOT_IP"
    OBVIOUS
  <1>5. /\ <<"START">> \notin {<<"DISCONNECTED">>, <<"GOT_IP">>, <<"GOT_IP", "DISCONNECTED">>}
        /\ <<"DISCONNECTED">> \notin {<<"GOT_IP">>, <<"GOT_IP", "DISCONNECTED">>}
        /\ <<"GOT_IP">> # <<"GOT_IP", "DISCONNECTED">>
    OBVIOUS
  <1> QED
    BY <1>1, <1>2, <1>3, <1>4, <1>5, <1>6, Zenon

LEMMA Appended ==
  ASSUME NEW S, NEW q \in Seq(S), NEW m \in S
  PROVE  /\ Append(q, m) \in Seq(S) /\ Append(q, m) # <<>>
         /\ Len(q) \in Nat /\ Len(Append(q, m)) = Len(q) + 1
         /\ Append(q, m)[Len(Append(q, m))] = m
         /\ \A n \in 1..Len(q) : Append(q, m)[n] = q[n]
  BY AppendProperties, LenProperties

LEMMA Taken ==
  ASSUME NEW S, NEW q \in Seq(S), q # <<>>
  PROVE  /\ Head(q) \in S /\ Tail(q) \in Seq(S)
         /\ Len(q) \in Nat \ {0} /\ Len(Tail(q)) = Len(q) - 1 /\ Head(q) = q[1]
         /\ \A n \in 1..Len(q) - 1 : Tail(q)[n] = q[n + 1]
         /\ Tail(q) = <<>> => Len(q) = 1
         /\ Tail(q) # <<>> => Len(q) > 1 /\ Tail(q)[Len(Tail(q))] = q[Len(q)]
  <1>1. Len(q) \in Nat \ {0} /\ Len(<<>>) = 0
    BY EmptySeq
  <1>2. /\ Head(q) \in S /\ Tail(q) \in Seq(S) /\ Len(Tail(q)) = Len(q) - 1
        /\ \A n \in 1..Len(Tail(q)) : Tail(q)[n] = q[n + 1]
    BY HeadTailProperties
  <1>3. Head(q) = q[1]
    OBVIOUS
  <1>4. Tail(q) # <<>> => Len(Tail(q)) \in Nat \ {0}
    BY <1>2, EmptySeq
  <1>5. Tail(q) = <<>> => Len(Tail(q)) = 0
    BY <1>1
  <1>6. Tail(q) # <<>> => Len(q) > 1 /\ Tail(q)[Len(Tail(q))] = q[Len(q)]
    <2> SUFFICES ASSUME Tail(q) # <<>> PROVE Len(q) > 1 /\ Tail(q)[Len(Tail(q))] = q[Len(q)]
      OBVIOUS
    <2>1. Len(Tail(q)) \in 1..Len(Tail(q)) /\ Len(Tail(q)) + 1 = Len(q) /\ Len(q) > 1
      BY <1>1, <1>2, <1>4
    <2> QED
      BY <1>2, <2>1
  <1>7. Tail(q) = <<>> => Len(q) = 1
    BY <1>1, <1>2, <1>5
  <1> QED
    BY <1>1, <1>2, <1>3, <1>6, <1>7

LEMMA FourTasks == Len(Tasks) = 4 /\ \A n \in 1..4 : Tasks[n] \in Range(Tasks)
  BY DEF Tasks, Range

LEMMA Numbers ==
    /\ Configured \subseteq {0, 1} /\ Configured # {}
    /\ RetryLimit \in Nat \ {0} /\ QueueDepth \in Nat \ {0} /\ CmdDepth \in Nat \ {0}
    /\ Modulus \in Nat \ {0} /\ MaxLosses \in Nat /\ MaxFaults \in Nat
  BY LinkAssumption

\* The driver and the event loop, spelt out.
LEMMA DriverSteps ==
  ASSUME TypeOK, DriverInv, Driver
  PROVE  /\ UNCHANGED <<queue, link, ml, forgone, faults>>
         /\ \/ /\ wifi.driver = "trying" /\ events = <<>> /\ events' = <<"GOT_IP">>
               /\ wifi' = [wifi EXCEPT !.driver = "up", !.assoc = @ + 1]
            \/ /\ wifi.driver = "trying" /\ events = <<>> /\ events' = <<"DISCONNECTED">>
               /\ wifi' = [wifi EXCEPT !.driver = "down"]
            \/ /\ wifi.driver = "up" /\ wifi.assoc <= MaxLosses
               /\ \/ events = <<>> /\ events' = <<"DISCONNECTED">>
                  \/ events = <<"GOT_IP">> /\ events' = <<"GOT_IP", "DISCONNECTED">>
               /\ wifi' = [wifi EXCEPT !.driver = "down"]
            \/ /\ wifi.driver = "up" /\ events = <<>> /\ events' = <<"GOT_IP">> /\ wifi' = wifi
  BY EventShapes DEF DriverInv, Driver, Obtains, Fails, Loses, Renews, Posts

LEMMA LoopSteps ==
  ASSUME TypeOK, DriverInv, EventLoop
  PROVE  /\ UNCHANGED <<link, ml>> /\ forgone \subseteq forgone'
         /\ wifi'.assoc = wifi.assoc /\ wifi' \in [driver : {"down", "trying", "up"},
                index : Configured, failures : 0 .. Modulus - 1, assoc : 0 .. MaxLosses + 1]
         /\ \/ /\ events = <<"START">> /\ events' = <<>> /\ wifi'.driver = "trying"
               /\ UNCHANGED <<queue, forgone, faults>>
            \/ /\ events = <<"DISCONNECTED">> /\ events' = <<>> /\ wifi'.driver = "trying"
               /\ Notify(FALSE) /\ faults' \in 0 .. MaxFaults
            \/ /\ events = <<"GOT_IP">> /\ events' = <<>> /\ wifi'.driver = wifi.driver
               /\ Notify(TRUE) /\ faults' = faults
            \/ /\ events = <<"GOT_IP", "DISCONNECTED">> /\ events' = <<"DISCONNECTED">>
               /\ wifi'.driver = wifi.driver /\ Notify(TRUE) /\ faults' = faults
  <1> DEFINE Wifis == [driver : {"down", "trying", "up"}, index : Configured,
                       failures : 0 .. Modulus - 1, assoc : 0 .. MaxLosses + 1]
  <1>t. wifi \in Wifis /\ faults \in 0 .. MaxFaults /\ events \in Shapes
    BY DEF TypeOK, Shapes
  <1>0. 0 \in 0 .. Modulus - 1
    BY Numbers
  <1>1. CASE OnStart
    <2>1. events = <<"START">> /\ events' = <<>>
      BY <1>t, <1>1, EventShapes DEF OnStart, Handles, Shapes
    <2> QED
      BY <1>t, <1>1, <2>1 DEF OnStart, Handles
  <1>2. CASE OnDisconnected
    <2>1. events = <<"DISCONNECTED">> /\ events' = <<>>
      BY <1>t, <1>2, EventShapes DEF OnDisconnected, Handles, Shapes
    <2> DEFINE tries == (wifi.failures + 1) % Modulus
    <2>2. tries \in 0 .. Modulus - 1
      BY <1>t, Numbers
    <2>4. faults' \in 0 .. MaxFaults
      BY <1>t, <1>2, Numbers DEF OnDisconnected, Fault, NoFault
    <2>5. \/ wifi' = [Applied(wifi, tries) EXCEPT !.driver = "trying"]
          \/ wifi' = [wifi EXCEPT !.failures = tries, !.driver = "trying"]
      BY <1>2 DEF OnDisconnected
    <2> HIDE DEF tries
    <2>6. Applied(wifi, tries) \in Wifis /\ Applied(wifi, tries).assoc = wifi.assoc
      BY <1>t, <1>0, <2>2 DEF Applied
    <2>7. wifi' \in Wifis /\ wifi'.assoc = wifi.assoc /\ wifi'.driver = "trying"
      <3> DEFINE a == Applied(wifi, tries)
      <3>1. a \in Wifis /\ a.assoc = wifi.assoc
            /\ (wifi' = [a EXCEPT !.driver = "trying"]
                \/ wifi' = [wifi EXCEPT !.failures = tries, !.driver = "trying"])
        BY <2>5, <2>6
      <3> HIDE DEF a
      <3> QED
        BY <1>t, <2>2, <3>1
    <2> QED
      BY <1>2, <2>1, <2>4, <2>7 DEF OnDisconnected, Handles, Notify
  <1>3. CASE OnGotIp
    <2>1. \/ events = <<"GOT_IP">> /\ events' = <<>>
          \/ events = <<"GOT_IP", "DISCONNECTED">> /\ events' = <<"DISCONNECTED">>
      BY <1>t, <1>3, EventShapes DEF OnGotIp, Handles, Shapes
    <2>2. wifi' \in Wifis /\ wifi'.assoc = wifi.assoc /\ wifi'.driver = wifi.driver
      BY <1>t, <1>0, <1>3 DEF OnGotIp
    <2> QED
      BY <1>3, <2>1, <2>2 DEF OnGotIp, Handles, Notify
  <1> QED
    BY <1>1, <1>2, <1>3 DEF EventLoop
-----------------------------------------------------------------------------
(***************************************************************************)
(* Types.                                                                  *)
(***************************************************************************)
Mls(assoc) ==
    [handle : BOOLEAN, tasks : 0 .. Len(Tasks), left : SUBSET Range(Tasks),
     stop : BOOLEAN, wifiUp : BOOLEAN, cmds : Seq({"CONNECT", "FORCE_RECONNECT"}),
     asked : BOOLEAN, derpBit : BOOLEAN, sock : 0 .. assoc, coord : 0 .. assoc, derp : 0 .. assoc]
Links ==
    [at : {"wait", "init", "open", "create", "destroy", "close", "signal", "reopen"},
     net : {0, 1}, pending : BOOLEAN, active : {0, 1}]
Lost == {"event", "start", "socket", "command"}

LEMMA Typed ==
  ASSUME TypeOK
  PROVE  /\ wifi.assoc \in Nat /\ wifi.driver \in {"down", "trying", "up"} /\ events \in Shapes
         /\ queue \in Seq(Messages) /\ Len(queue) \in Nat /\ Len(queue) <= QueueDepth
         /\ link \in Links /\ ml \in Mls(wifi.assoc)
         /\ ml.cmds \in Seq({"CONNECT", "FORCE_RECONNECT"}) /\ Len(ml.cmds) \in Nat
  <1>1. queue \in Seq(Messages) /\ ml.cmds \in Seq({"CONNECT", "FORCE_RECONNECT"})
    BY DEF TypeOK, Messages
  <1>2. Len(queue) \in Nat /\ Len(ml.cmds) \in Nat
    BY <1>1, LenProperties
  <1>3. wifi.assoc \in 0 .. MaxLosses + 1 /\ MaxLosses \in Nat
    BY Numbers DEF TypeOK
  <1> QED
    BY <1>1, <1>2, <1>3 DEF TypeOK, Shapes, Links, Mls

LEMMA NotifyTyped ==
  ASSUME TypeOK, NEW got \in BOOLEAN, Notify(got)
  PROVE  queue' \in Seq(Messages) /\ Len(queue') <= QueueDepth /\ forgone' \subseteq Lost
  <1> DEFINE message == [got |-> got, net |-> wifi.index]
  <1>1. message \in Messages /\ queue \in Seq(Messages) /\ forgone \subseteq Lost
        /\ Len(queue) \in Nat /\ Len(queue) <= QueueDepth
    BY Typed DEF TypeOK, Messages, Lost
  <1>2. \/ Len(queue) < QueueDepth /\ queue' = Append(queue, message) /\ forgone' = forgone
        \/ queue' = queue /\ forgone' = forgone \cup {"event"}
    BY DEF Notify
  <1> HIDE DEF message
  <1>3. CASE Len(queue) < QueueDepth /\ queue' = Append(queue, message) /\ forgone' = forgone
    <2>1. queue' \in Seq(Messages) /\ Len(queue') = Len(queue) + 1
      BY <1>1, <1>3, Appended
    <2> QED
      BY <1>1, <1>3, <2>1, Numbers
  <1>4. CASE queue' = queue /\ forgone' = forgone \cup {"event"}
    BY <1>1, <1>4 DEF Lost
  <1> QED
    BY <1>2, <1>3, <1>4

\* Where the link task is, and what becomes of MicroLink's record, is well typed.
LEMMA LinkTyped ==
  ASSUME TypeOK, StartInv, CommandInv, Link
  PROVE  /\ UNCHANGED <<wifi, events>> /\ link' \in Links /\ ml' \in Mls(wifi.assoc)
         /\ queue' \in Seq(Messages) /\ Len(queue') <= QueueDepth
         /\ Len(ml'.cmds) <= CmdDepth /\ forgone' \subseteq Lost /\ faults' \in 0 .. MaxFaults
  <1>t. /\ link \in Links /\ ml \in Mls(wifi.assoc) /\ wifi.assoc \in Nat
        /\ queue \in Seq(Messages) /\ Len(queue) <= QueueDepth /\ Len(ml.cmds) <= CmdDepth
        /\ forgone \subseteq Lost /\ faults \in 0 .. MaxFaults
    BY Typed DEF TypeOK, Lost
  <1>z. 0 \in 0 .. wifi.assoc /\ wifi.assoc \in 0 .. wifi.assoc /\ 0 \in 0 .. Len(Tasks)
    BY <1>t, FourTasks
  <1>f. Fault \/ NoFault => faults' \in 0 .. MaxFaults
    BY <1>t, Numbers DEF Fault, NoFault
  <1>a. UNCHANGED <<wifi, events>>
    BY DEF Link, LinkTask, MicrolinkInit, OpenSocket, CreateTask, Started, Destroyed, RebindClose,
           RebindSignal, Apart
  <1>1. CASE LinkTask
    <2>1. /\ Head(queue) \in Messages /\ Tail(queue) \in Seq(Messages)
          /\ Len(Tail(queue)) <= QueueDepth
      <3>1. queue # <<>>
        BY <1>1 DEF LinkTask
      <3> QED
        BY <1>t, <3>1, Taken, Numbers
    <2>2. Head(queue).net \in {0, 1}
      BY <2>1, Numbers DEF Messages
    <2>3. \/ link' = [link EXCEPT !.pending = TRUE]
          \/ link' = [link EXCEPT !.at = "init", !.net = Head(queue).net]
          \/ link' = [link EXCEPT !.at = "close", !.pending = FALSE, !.active = Head(queue).net]
          \/ link' = link
      BY <1>1 DEF LinkTask
    <2>4. link' \in Links
      BY <1>t, <2>2, <2>3 DEF Links
    <2> QED
      BY <1>t, <1>a, <1>1, <2>1, <2>4 DEF LinkTask
  <1>2. CASE MicrolinkInit
    <2>1. link' \in Links
      BY <1>t, <1>2 DEF MicrolinkInit, At, Links
    <2>2. NoMicrolink \in Mls(wifi.assoc) /\ Len(NoMicrolink.cmds) = 0
      BY <1>z DEF NoMicrolink, Mls
    <2>3. \/ ml' = [NoMicrolink EXCEPT !.handle = TRUE]
          \/ ml' = ml
      BY <1>2 DEF MicrolinkInit
    <2>4. ml' \in Mls(wifi.assoc) /\ (ml'.cmds = NoMicrolink.cmds \/ ml'.cmds = ml.cmds)
      <3> DEFINE n == NoMicrolink
      <3>1. n \in Mls(wifi.assoc) /\ (ml' = [n EXCEPT !.handle = TRUE] \/ ml' = ml)
        BY <2>2, <2>3
      <3> HIDE DEF n
      <3>2. ml' \in Mls(wifi.assoc) /\ (ml'.cmds = n.cmds \/ ml'.cmds = ml.cmds)
        BY <1>t, <3>1 DEF Mls
      <3> QED
        BY <3>2 DEF n
    <2> QED
      BY <1>t, <1>a, <1>f, <1>2, <2>1, <2>2, <2>4, Numbers DEF MicrolinkInit, Lost
  <1>3. CASE OpenSocket("open", "create") \/ OpenSocket("reopen", "wait")
    BY SMTT(20), <1>t, <1>z, <1>a, <1>f, <1>3 DEF OpenSocket, At, Links, Mls, Lost
  <1>4. CASE CreateTask
    <2>1. ml.tasks < Len(Tasks) => ml.tasks + 1 \in 0 .. Len(Tasks)
      BY <1>t, FourTasks DEF Mls
    <2> QED
      BY ZenonT(30), <1>t, <1>a, <1>f, <1>4, <2>1 DEF CreateTask, At, Links, Mls, Lost
  <1>5. CASE Started
    <2>1. link' \in Links
      BY <1>t, <1>5 DEF Started, Links
    <2>2. CASE Len(ml.cmds) < CmdDepth
      <3> DEFINE c == Append(ml.cmds, "CONNECT")
      <3>1. c \in Seq({"CONNECT", "FORCE_RECONNECT"}) /\ Len(c) = Len(ml.cmds) + 1
        BY Typed, Appended
      <3>2. ml' = [ml EXCEPT !.wifiUp = TRUE, !.cmds = c]
        BY <1>5 DEF Started
      <3> HIDE DEF c
      <3>3. ml' \in Mls(wifi.assoc) /\ ml'.cmds = c
        BY <1>t, <3>1, <3>2 DEF Mls
      <3>4. Len(ml'.cmds) <= CmdDepth
        BY <2>2, <3>1, <3>3, Typed, Numbers
      <3> QED
        BY <1>t, <1>a, <1>5, <2>1, <3>3, <3>4 DEF Started
    <2>3. Len(ml.cmds) < CmdDepth
      <3>1. ml.cmds = <<>>
        BY <1>5 DEF Started, StartInv, CommandInv, Starting
      <3> QED
        BY <3>1, EmptySeq, Numbers
    <2> QED
      BY <2>2, <2>3
  <1>6. CASE Destroyed
    BY <1>t, <1>a, <1>6 DEF Destroyed, At, Links, Mls
  <1>7. CASE RebindClose
    BY <1>t, <1>z, <1>a, <1>7 DEF RebindClose, At, Links, Mls
  <1>8. CASE RebindSignal
    <2> DEFINE c == Append(ml.cmds, "FORCE_RECONNECT")
    <2>1. c \in Seq({"CONNECT", "FORCE_RECONNECT"}) /\ Len(c) = Len(ml.cmds) + 1
      BY Typed, Appended
    <2>2. \/ /\ Len(ml.cmds) < CmdDepth /\ forgone' = forgone
             /\ ml' = [ml EXCEPT !.cmds = c, !.derpBit = TRUE]
          \/ ml' = [ml EXCEPT !.derpBit = TRUE] /\ forgone' = forgone \cup {"command"}
      BY <1>8 DEF RebindSignal
    <2> HIDE DEF c
    <2>3. ml' \in Mls(wifi.assoc) /\ forgone' \subseteq Lost
      BY <1>t, <2>1, <2>2 DEF Mls, Lost
    <2>4. \/ Len(ml.cmds) < CmdDepth /\ ml'.cmds = c
          \/ ml'.cmds = ml.cmds
      BY <1>t, <2>2 DEF Mls
    <2>5. Len(ml'.cmds) <= CmdDepth
      BY <1>t, <2>1, <2>4, Typed, Numbers
    <2>6. link' \in Links
      BY <1>t, <1>8 DEF RebindSignal, At, Links
    <2> QED
      BY <1>t, <1>a, <1>8, <2>3, <2>5, <2>6 DEF RebindSignal
  <1> QED
    BY <1>1, <1>2, <1>3, <1>4, <1>5, <1>6, <1>7, <1>8 DEF Link

LEMMA MicrolinkTyped ==
  ASSUME TypeOK, Microlink
  PROVE  /\ UNCHANGED <<wifi, events, queue, link, forgone, faults>>
         /\ ml' \in Mls(wifi.assoc) /\ Len(ml'.cmds) <= CmdDepth
  <1>t. ml \in Mls(wifi.assoc) /\ wifi.assoc \in Nat /\ Len(ml.cmds) <= CmdDepth
    BY Typed DEF TypeOK
  <1>z. 0 \in 0 .. wifi.assoc /\ wifi.assoc \in 0 .. wifi.assoc
    BY <1>t
  <1>a. UNCHANGED <<wifi, events, queue, link, forgone, faults>>
    BY DEF Microlink, Coord, CoordConnects, Derp, DerpConnects, TaskExits, Inside
  <1>1. CASE Coord
    <2> DEFINE c == Tail(ml.cmds)
               coord == IF Head(ml.cmds) = "FORCE_RECONNECT" THEN 0 ELSE ml.coord
    <2>1. c \in Seq({"CONNECT", "FORCE_RECONNECT"}) /\ Len(c) = Len(ml.cmds) - 1
          /\ Len(ml.cmds) \in Nat \ {0}
      BY <1>1, Typed, Taken DEF Coord
    <2>2. coord \in 0 .. wifi.assoc
      BY <1>t, <1>z DEF Mls
    <2>3. ml' = [ml EXCEPT !.cmds = c, !.asked = TRUE, !.coord = coord]
      BY <1>t, <1>1 DEF Coord, Mls
    <2> HIDE DEF c, coord
    <2>4. ml' \in Mls(wifi.assoc) /\ ml'.cmds = c
      BY <1>t, <2>1, <2>2, <2>3 DEF Mls
    <2> QED
      BY <1>t, <1>a, <2>1, <2>4, Numbers
  <1>2. CASE CoordConnects \/ Derp \/ DerpConnects
    BY <1>t, <1>z, <1>a, <1>2 DEF CoordConnects, Derp, DerpConnects, Mls
  <1>3. ASSUME NEW t \in Range(Tasks), TaskExits(t)
        PROVE  ml' \in Mls(wifi.assoc) /\ ml'.cmds = ml.cmds
    BY <1>t, <1>3 DEF TaskExits, Mls
  <1> QED
    BY <1>t, <1>a, <1>1, <1>2, <1>3 DEF Microlink

LEMMA MlsGrow ==
  ASSUME NEW n \in Nat, NEW m \in Nat, n <= m
  PROVE  Mls(n) \subseteq Mls(m)
  <1>1. 0 .. n \subseteq 0 .. m
    OBVIOUS
  <1> QED
    BY <1>1 DEF Mls

LEMMA NextTypeOK ==
  ASSUME TypeOK, DriverInv, StartInv, CommandInv, [Next]_vars
  PROVE  TypeOK'
  <1>t. wifi \in [driver : {"down", "trying", "up"}, index : Configured,
                  failures : 0 .. Modulus - 1, assoc : 0 .. MaxLosses + 1]
    BY DEF TypeOK
  <1>1. CASE Driver
    <2>1. wifi' \in [driver : {"down", "trying", "up"}, index : Configured,
                     failures : 0 .. Modulus - 1, assoc : 0 .. MaxLosses + 1]
      <3>1. wifi.driver = "trying" => wifi.assoc + 1 \in 0 .. MaxLosses + 1
        <4>1. wifi.assoc \in 0 .. MaxLosses + 1
          BY <1>t
        <4> QED
          BY <4>1, Numbers DEF DriverInv
      <3> QED
        BY <1>t, <1>1, <3>1, DriverSteps
    <2>2. events' \in Shapes
      BY <1>1, DriverSteps DEF Shapes
    <2>3. ml \in Mls(wifi'.assoc)
      <3>1. wifi'.assoc \in Nat /\ wifi.assoc <= wifi'.assoc
        <4>1. wifi'.assoc \in {wifi.assoc, wifi.assoc + 1}
          BY <1>t, <1>1, DriverSteps
        <4> QED
          BY <4>1, Typed
      <3> QED
        BY <3>1, Typed, MlsGrow
    <2>4. UNCHANGED <<queue, link, ml, forgone, faults>>
      BY <1>1, DriverSteps
    <2> QED
      BY <2>1, <2>2, <2>3, <2>4 DEF TypeOK, Shapes, Mls
  <1>2. CASE EventLoop
    <2>1. queue' \in Seq(Messages) /\ Len(queue') <= QueueDepth /\ forgone' \subseteq Lost
      BY <1>2, LoopSteps, NotifyTyped, Typed DEF TypeOK, Lost
    <2>2. faults' \in 0 .. MaxFaults /\ events' \in Shapes
      BY <1>2, LoopSteps DEF TypeOK, Shapes
    <2>3. /\ UNCHANGED <<link, ml>> /\ wifi'.assoc = wifi.assoc
          /\ wifi' \in [driver : {"down", "trying", "up"}, index : Configured,
                       failures : 0 .. Modulus - 1, assoc : 0 .. MaxLosses + 1]
      BY <1>2, LoopSteps
    <2>4. link' \in Links /\ ml' \in Mls(wifi'.assoc) /\ Len(ml'.cmds) <= CmdDepth
      BY <2>3, Typed DEF TypeOK
    <2> QED
      BY <2>1, <2>2, <2>3, <2>4 DEF TypeOK, Shapes, Messages, Lost, Links, Mls
  <1>3. CASE Link
    BY <1>3, LinkTyped DEF TypeOK, Messages, Links, Mls, Lost
  <1>4. CASE Microlink
    BY <1>4, MicrolinkTyped DEF TypeOK, Mls
  <1>5. CASE UNCHANGED vars
    BY <1>5 DEF vars, TypeOK
  <1> QED
    BY <1>1, <1>2, <1>3, <1>4, <1>5 DEF Next
-----------------------------------------------------------------------------
(***************************************************************************)
(* Each part of the invariant.                                             *)
(***************************************************************************)
LEMMA NextDriverInv ==
  ASSUME TypeOK, DriverInv, StartInv, CommandInv, [Next]_vars
  PROVE  DriverInv'
  <1>t. wifi.assoc \in Nat /\ wifi.driver \in {"down", "trying", "up"} /\ events \in Shapes
        /\ wifi \in [driver : {"down", "trying", "up"}, index : Configured,
                     failures : 0 .. Modulus - 1, assoc : 0 .. MaxLosses + 1]
    BY Typed DEF TypeOK
  <1>1. CASE Driver
    <2> USE EventShapes DEF DriverInv
    <2>1. CASE /\ wifi.driver = "trying" /\ events = <<>> /\ events' = <<"GOT_IP">>
               /\ wifi' = [wifi EXCEPT !.driver = "up", !.assoc = @ + 1]
      BY <1>t, <2>1
    <2>2. CASE /\ wifi.driver = "trying" /\ events = <<>> /\ events' = <<"DISCONNECTED">>
               /\ wifi' = [wifi EXCEPT !.driver = "down"]
      BY <1>t, <2>2
    <2>3. CASE /\ wifi.driver = "up" /\ wifi.assoc <= MaxLosses
               /\ \/ events = <<>> /\ events' = <<"DISCONNECTED">>
                  \/ events = <<"GOT_IP">> /\ events' = <<"GOT_IP", "DISCONNECTED">>
               /\ wifi' = [wifi EXCEPT !.driver = "down"]
      BY <1>t, <2>3
    <2>4. CASE wifi.driver = "up" /\ events = <<>> /\ events' = <<"GOT_IP">> /\ wifi' = wifi
      BY <1>t, <2>4
    <2> QED
      BY <1>1, <2>1, <2>2, <2>3, <2>4, DriverSteps
  <1>2. CASE EventLoop
    <2> USE EventShapes DEF DriverInv
    <2>1. wifi'.assoc = wifi.assoc
      BY <1>2, LoopSteps
    <2>2. CASE events = <<"START">> /\ events' = <<>> /\ wifi'.driver = "trying"
      BY <2>1, <2>2
    <2>3. CASE events = <<"DISCONNECTED">> /\ events' = <<>> /\ wifi'.driver = "trying"
      BY <2>1, <2>3
    <2>4. CASE events = <<"GOT_IP">> /\ events' = <<>> /\ wifi'.driver = wifi.driver
      BY <1>t, <2>1, <2>4
    <2>5. CASE events = <<"GOT_IP", "DISCONNECTED">> /\ events' = <<"DISCONNECTED">>
               /\ wifi'.driver = wifi.driver
      BY <1>t, <2>1, <2>5
    <2> QED
      BY <1>2, <2>2, <2>3, <2>4, <2>5, LoopSteps
  <1>3. CASE Link \/ Microlink
    BY <1>3, LinkTyped, MicrolinkTyped DEF DriverInv
  <1>4. CASE UNCHANGED vars
    BY <1>4 DEF vars, DriverInv
  <1> QED
    BY <1>1, <1>2, <1>3, <1>4 DEF Next

LEMMA NextStartInv ==
  ASSUME TypeOK, DriverInv, StartInv, CommandInv, [Next]_vars
  PROVE  StartInv'
  <1>t. ml \in Mls(wifi.assoc) /\ link \in Links
    BY Typed
  <1>1. CASE Driver \/ EventLoop
    <2>1. UNCHANGED <<link, ml>> /\ forgone \subseteq forgone'
      BY <1>1, DriverSteps, LoopSteps
    <2> QED
      BY <2>1 DEF StartInv
  <1>2. CASE Link
    <2> USE <1>t DEF StartInv, Starting, Links, Mls
    <2>1. CASE LinkTask
      BY <2>1 DEF LinkTask, Running
    <2>2. CASE MicrolinkInit
      <3> DEFINE n == [NoMicrolink EXCEPT !.handle = TRUE]
      <3>1. n.handle = TRUE /\ n.wifiUp = FALSE
        BY DEF NoMicrolink
      <3>2. \/ ml' = n /\ link'.at = "open"
            \/ ml' = ml /\ link.at = "init" /\ link'.at = "wait"
        BY <2>2 DEF MicrolinkInit, At
      <3> HIDE DEF n
      <3> QED
        BY <3>1, <3>2 DEF Running
    <2>3. CASE OpenSocket("open", "create") \/ OpenSocket("reopen", "wait")
      BY <2>3 DEF OpenSocket, At, Running
    <2>4. CASE CreateTask
      BY <2>4 DEF CreateTask, At
    <2>5. CASE Started
      BY <2>5 DEF Started
    <2>6. CASE Destroyed
      BY <2>6 DEF Destroyed, At, Running, Busy
    <2>7. CASE RebindClose \/ RebindSignal
      <3>1. CASE RebindClose
        BY <3>1 DEF RebindClose, At, Running
      <3>2. CASE RebindSignal
        BY <3>2 DEF RebindSignal, At, Running
      <3> QED
        BY <2>7, <3>1, <3>2
    <2> QED
      BY <1>2, <2>1, <2>2, <2>3, <2>4, <2>5, <2>6, <2>7 DEF Link
  <1>3. CASE Microlink
    <2>1. UNCHANGED <<link, forgone>>
      BY <1>3, MicrolinkTyped
    <2>2. CASE Coord \/ CoordConnects \/ Derp \/ DerpConnects
      <3>1. UNCHANGED <<ml.handle, ml.tasks, ml.left, ml.wifiUp>>
        BY <1>t, <2>2 DEF Coord, CoordConnects, Derp, DerpConnects, Mls
      <3> QED
        BY <2>1, <3>1 DEF StartInv
    <2>3. ASSUME NEW t \in Range(Tasks), TaskExits(t)
          PROVE  StartInv'
      <3>1. UNCHANGED <<ml.handle, ml.tasks, ml.wifiUp>> /\ ml'.left = ml.left \cup {t}
        BY <1>t, <2>3 DEF TaskExits, Mls
      <3> QED
        BY <2>1, <3>1 DEF StartInv
    <2> QED
      BY <1>3, <2>2, <2>3 DEF Microlink
  <1>4. CASE UNCHANGED vars
    BY <1>4 DEF vars, StartInv, Running
  <1> QED
    BY <1>1, <1>2, <1>3, <1>4 DEF Next

LEMMA NextCommandInv ==
  ASSUME TypeOK, DriverInv, StartInv, CommandInv, [Next]_vars
  PROVE  CommandInv'
  <1>t. /\ ml \in Mls(wifi.assoc) /\ Len(ml.cmds) \in Nat
        /\ ml.cmds \in Seq({"CONNECT", "FORCE_RECONNECT"}) /\ Len(<<>>) = 0
    BY Typed, EmptySeq
  <1>0. ASSUME UNCHANGED <<ml.cmds, ml.wifiUp, ml.asked, ml.coord, ml.derp>>
        PROVE  CommandInv'
    BY <1>0 DEF CommandInv
  <1>1. CASE Driver \/ EventLoop
    BY <1>0, <1>1, DriverSteps, LoopSteps
  <1>2. CASE LinkTask \/ OpenSocket("open", "create") \/ OpenSocket("reopen", "wait")
             \/ CreateTask \/ Destroyed \/ RebindClose
    BY <1>0, <1>2, <1>t DEF LinkTask, OpenSocket, CreateTask, Destroyed, RebindClose, Mls
  <1>3. CASE MicrolinkInit
    <2>1. CASE ml' = ml
      BY <1>0, <2>1
    <2>2. CASE ml' = [NoMicrolink EXCEPT !.handle = TRUE]
      <3>1. ml'.cmds = <<>> /\ ~ml'.asked /\ ml'.coord = 0 /\ ml'.derp = 0
        BY <2>2 DEF NoMicrolink
      <3>2. 2..Len(ml'.cmds) = {}
        BY <1>t, <3>1
      <3> QED
        BY <3>1, <3>2 DEF CommandInv
    <2> QED
      BY <1>3, <2>1, <2>2 DEF MicrolinkInit
  <1>4. CASE Started
    <2>1. ml.cmds = <<>> /\ ~ml.asked
      BY <1>4 DEF Started, StartInv, CommandInv, Starting
    <2>2. /\ ml'.cmds = Append(ml.cmds, "CONNECT") /\ ml'.wifiUp
          /\ UNCHANGED <<ml.asked, ml.coord, ml.derp>>
      BY <1>t, <1>4 DEF Started, Mls
    <2>3. Len(ml'.cmds) = 1
      BY <1>t, <2>1, <2>2, Appended
    <2> QED
      BY <2>1, <2>2, <2>3 DEF CommandInv
  <1>5. CASE RebindSignal
    <2> DEFINE c == Append(ml.cmds, "FORCE_RECONNECT")
    <2>1. /\ Len(c) = Len(ml.cmds) + 1 /\ c[Len(c)] = "FORCE_RECONNECT"
          /\ \A n \in 1..Len(ml.cmds) : c[n] = ml.cmds[n]
      BY <1>t, Appended
    <2>2. /\ ml'.cmds \in {ml.cmds, c}
          /\ UNCHANGED <<ml.asked, ml.coord, ml.derp, ml.wifiUp>>
      BY <1>5, <1>t DEF RebindSignal, Mls
    <2> HIDE DEF c
    <2>3. ml.wifiUp
      BY <1>5 DEF RebindSignal, At, StartInv, Starting
    <2> QED
      BY <1>t, <2>1, <2>2, <2>3 DEF CommandInv
  <1>6. CASE Coord
    <2>1. /\ ml.cmds # <<>> /\ ml'.cmds = Tail(ml.cmds) /\ ml'.asked
          /\ ml.wifiUp /\ ml'.wifiUp
      BY <1>t, <1>6 DEF Coord, Mls
    <2>2. /\ Len(ml'.cmds) = Len(ml.cmds) - 1
          /\ \A n \in 1..Len(ml.cmds) - 1 : ml'.cmds[n] = ml.cmds[n + 1]
      BY <1>t, <2>1, Taken
    <2>3. \A n \in 1..Len(ml'.cmds) : ml'.cmds[n] = "FORCE_RECONNECT"
      BY <1>t, <2>2 DEF CommandInv
    <2>4. \A n \in 2..Len(ml'.cmds) : n \in 1..Len(ml'.cmds)
      BY <1>t, <2>2
    <2> QED
      BY <2>1, <2>3, <2>4 DEF CommandInv
  <1>7. CASE CoordConnects \/ Derp \/ DerpConnects
    <2>1. /\ UNCHANGED <<ml.cmds, ml.wifiUp, ml.asked>>
          /\ ml.asked \/ (ml'.coord = ml.coord /\ ml'.derp \in {0, ml.derp})
      BY <1>t, <1>7 DEF CoordConnects, Derp, DerpConnects, Mls
    <2> QED
      BY <2>1 DEF CommandInv
  <1>8. ASSUME NEW t \in Range(Tasks), TaskExits(t)
        PROVE  CommandInv'
    BY <1>0, <1>8, <1>t DEF TaskExits, Mls
  <1>9. CASE UNCHANGED vars
    BY <1>0, <1>9 DEF vars
  <1> QED
    BY <1>1, <1>2, <1>3, <1>4, <1>5, <1>6, <1>7, <1>8, <1>9 DEF Next, Link, Microlink

\* What the event loop makes of the queue while nothing is dropped.
LEMMA Notified ==
  ASSUME TypeOK, NEW got \in BOOLEAN, Notify(got), forgone' = {}
  PROVE  /\ forgone = {} /\ queue' # <<>> /\ Len(queue) \in Nat /\ Len(queue') = Len(queue) + 1
         /\ queue'[Len(queue')].got = got
         /\ \A n \in 1..Len(queue) : queue'[n] = queue[n]
  <1> DEFINE message == [got |-> got, net |-> wifi.index]
  <1>1. message \in Messages /\ message.got = got /\ queue \in Seq(Messages)
    BY Typed DEF TypeOK, Messages
  <1>2. queue' = Append(queue, message) /\ forgone' = forgone
    BY DEF Notify
  <1> HIDE DEF message
  <1> QED
    BY <1>1, <1>2, Appended

LEMMA ForgoneGrows ==
  ASSUME TypeOK, DriverInv, StartInv, CommandInv, [Next]_vars
  PROVE  forgone \subseteq forgone'
  <1>1. CASE Driver \/ EventLoop \/ Microlink
    BY <1>1, DriverSteps, LoopSteps, MicrolinkTyped
  <1>2. CASE Link
    BY <1>2 DEF Link, LinkTask, MicrolinkInit, OpenSocket, CreateTask, Started, Destroyed,
                RebindClose, RebindSignal
  <1> QED
    BY <1>1, <1>2 DEF Next, vars

LEMMA NextFirstInv ==
  ASSUME TypeOK, DriverInv, FirstInv, StartInv, CommandInv, [Next]_vars
  PROVE  FirstInv'
  <1>t. /\ wifi.assoc \in Nat /\ queue \in Seq(Messages) /\ Len(queue) \in Nat
        /\ link \in Links /\ ml \in Mls(wifi.assoc)
        /\ wifi \in [driver : {"down", "trying", "up"}, index : Configured,
                     failures : 0 .. Modulus - 1, assoc : 0 .. MaxLosses + 1]
    BY Typed DEF TypeOK
  <1>1. CASE Driver
    <2>1. wifi.assoc + 1 # 0
      BY <1>t
    <2> QED
      BY <1>t, <1>1, <2>1, DriverSteps, EventShapes DEF FirstInv
  <1>2. CASE EventLoop
    <2> SUFFICES ASSUME wifi.assoc = 0 PROVE FirstInv'
      BY <1>2, LoopSteps DEF FirstInv
    <2>1. \/ events = <<"START">> /\ UNCHANGED queue
          \/ events = <<"DISCONNECTED">> /\ Notify(FALSE)
      BY <1>2, LoopSteps DEF FirstInv
    <2>2. events' = <<>> /\ wifi'.driver # "up" /\ UNCHANGED <<link, ml>>
      BY <1>2, <2>1, LoopSteps, EventShapes DEF FirstInv
    <2>3. \A n \in 1..Len(queue') : ~queue'[n].got
      <3> DEFINE message == [got |-> FALSE, net |-> wifi.index]
      <3>1. message \in Messages /\ ~message.got
        BY <1>t DEF Messages
      <3>2. queue' \in {queue, Append(queue, message)}
        BY <2>1 DEF Notify
      <3> HIDE DEF message
      <3>3. CASE queue' = Append(queue, message)
        <4>1. /\ Len(queue') = Len(queue) + 1 /\ queue'[Len(queue')] = message
              /\ \A n \in 1..Len(queue) : queue'[n] = queue[n]
          BY <1>t, <3>1, <3>3, Appended
        <4> QED
          BY <1>t, <3>1, <4>1 DEF FirstInv
      <3> QED
        BY <3>2, <3>3 DEF FirstInv
    <2> QED
      BY <2>2, <2>3, EventShapes DEF FirstInv
  <1>3. CASE Link
    <2> SUFFICES ASSUME wifi.assoc = 0 PROVE FirstInv'
      BY <1>3, LinkTyped DEF FirstInv
    <2>1. LinkTask
      BY <1>3 DEF FirstInv, Link, MicrolinkInit, OpenSocket, CreateTask, Started, Destroyed,
                  RebindClose, RebindSignal, At
    <2>2. /\ queue # <<>> /\ queue' = Tail(queue) /\ UNCHANGED <<ml, wifi, events>>
      BY <2>1 DEF LinkTask, Apart
    <2>3. /\ Head(queue) = queue[1] /\ 1 \in 1..Len(queue)
          /\ \A n \in 1..Len(queue') : n + 1 \in 1..Len(queue) /\ queue'[n] = queue[n + 1]
      BY <1>t, <2>2, Taken
    <2>4. link'.at = "wait"
      BY <1>t, <2>1, <2>3 DEF LinkTask, FirstInv, Links
    <2> QED
      BY <2>2, <2>3, <2>4 DEF FirstInv
  <1>4. CASE Microlink
    <2>1. ml'.handle = ml.handle
      BY <1>t, <1>4 DEF Microlink, Coord, CoordConnects, Derp, DerpConnects, TaskExits, Mls
    <2> QED
      BY <1>4, <2>1, MicrolinkTyped DEF FirstInv
  <1>5. CASE UNCHANGED vars
    BY <1>5 DEF vars, FirstInv
  <1> QED
    BY <1>1, <1>2, <1>3, <1>4, <1>5 DEF Next

LEMMA NextOrderInv ==
  ASSUME TypeOK, DriverInv, FirstInv, StartInv, CommandInv, OrderInv, [Next]_vars
  PROVE  OrderInv'
  <1> SUFFICES ASSUME forgone' = {}, wifi'.assoc > 0, events' = <<>>
               PROVE  OrderInv'
    BY DEF OrderInv
  <1>t. /\ queue \in Seq(Messages) /\ link \in Links /\ wifi.driver \in {"down", "trying", "up"}
        /\ forgone = {}
    BY Typed, ForgoneGrows
  <1>1. CASE Driver
    BY <1>1, DriverSteps, EventShapes
  <1>2. CASE EventLoop
    <2>1. CASE events = <<"START">>
      BY <1>2, <2>1, LoopSteps, Typed DEF DriverInv
    <2>2. CASE events = <<"DISCONNECTED">> /\ wifi'.driver = "trying" /\ Notify(FALSE)
      BY <2>2, Notified DEF OrderInv
    <2>3. CASE events = <<"GOT_IP">> /\ wifi'.driver = wifi.driver /\ Notify(TRUE)
      <3>1. wifi.driver = "up"
        BY <1>t, <2>3, EventShapes DEF DriverInv
      <3> QED
        BY <2>3, <3>1, Notified DEF OrderInv
    <2> QED
      BY <1>2, <2>1, <2>2, <2>3, LoopSteps, EventShapes
  <1>3. CASE LinkTask
    <2>1. /\ queue # <<>> /\ queue' = Tail(queue) /\ UNCHANGED <<wifi, events>>
          /\ link.at = "wait"
      BY <1>3 DEF LinkTask, Apart
    <2>2. /\ Head(queue) = queue[1] /\ queue[1].got \in BOOLEAN
          /\ Tail(queue) = <<>> => Len(queue) = 1
          /\ Tail(queue) # <<>> => Tail(queue)[Len(Tail(queue))] = queue[Len(queue)]
      <3>1. /\ Head(queue) = queue[1] /\ Head(queue) \in Messages
            /\ Tail(queue) = <<>> => Len(queue) = 1
            /\ Tail(queue) # <<>> => Tail(queue)[Len(Tail(queue))] = queue[Len(queue)]
        BY <1>t, <2>1, Taken
      <3>2. Head(queue).got \in BOOLEAN
        BY <3>1 DEF Messages
      <3> QED
        BY <3>1, <3>2
    <2>3. CASE queue' # <<>>
      <3>1. queue'[Len(queue')] = queue[Len(queue)] /\ events = <<>> /\ wifi' = wifi
        BY <2>1, <2>2, <2>3
      <3>2. IF wifi.driver = "up" THEN queue[Len(queue)].got ELSE ~queue[Len(queue)].got
        BY <1>t, <2>1, <3>1 DEF OrderInv
      <3> QED
        BY <2>3, <3>1, <3>2 DEF OrderInv
    <2>4. CASE queue' = <<>>
      <3>1. Head(queue).got <=> wifi.driver = "up"
        BY <1>t, <2>1, <2>2, <2>4 DEF OrderInv
      <3>2. /\ ~Head(queue).got => link'.pending /\ link'.at = "wait"
            /\ Head(queue).got => ~link'.pending \/ link'.at = "init"
        BY <1>3, <1>t DEF LinkTask, Moved, Links
      <3> QED
        BY <2>1, <2>4, <3>1, <3>2 DEF OrderInv
    <2> QED
      BY <2>3, <2>4
  <1>4. CASE Link /\ ~LinkTask
    <2>1. UNCHANGED <<wifi, events, queue>> /\ link.at # "wait"
      BY <1>4 DEF Link, MicrolinkInit, OpenSocket, CreateTask, Started, Destroyed, RebindClose,
                  RebindSignal, At, Apart
    <2>2. \/ ~link'.pending
          \/ /\ link'.pending = link.pending
             /\ link.at \in {"init", "open", "create"} => link'.at \in {"open", "create"}
      <3>1. CASE MicrolinkInit
        BY <1>t, <3>1 DEF MicrolinkInit, At, Links
      <3>2. CASE OpenSocket("open", "create") \/ OpenSocket("reopen", "wait")
        BY <1>t, <3>2 DEF OpenSocket, At, Links
      <3>3. CASE CreateTask
        BY <1>t, <3>3 DEF CreateTask, At, Links
      <3>4. CASE Started
        BY <1>t, <3>4 DEF Started, Links
      <3>5. CASE Destroyed \/ RebindClose \/ RebindSignal
        BY <1>t, <3>5 DEF Destroyed, RebindClose, RebindSignal, At, Links
      <3> QED
        BY <1>4, <3>1, <3>2, <3>3, <3>4, <3>5 DEF Link
    <2> QED
      BY <1>t, <2>1, <2>2 DEF OrderInv
  <1>5. CASE Microlink
    BY <1>5, MicrolinkTyped DEF OrderInv
  <1>6. CASE UNCHANGED vars
    BY <1>6 DEF vars, OrderInv
  <1> QED
    BY <1>1, <1>2, <1>3, <1>4, <1>5, <1>6 DEF Next

\* While nothing is dropped, a loss stays on its way to the link task.
LEMMA LossStays ==
  ASSUME TypeOK, DriverInv, Driver \/ EventLoop, forgone' = {}
  PROVE  (LossIsQueued => LossIsQueued') /\ (LossComes => LossComes')
  <1>t. wifi.driver \in {"down", "trying", "up"} /\ events \in Shapes /\ Len(queue) \in Nat
    BY Typed
  <1>s. Len(<<>>) = 0 /\ Len(<<"GOT_IP">>) = 1 /\ <<"GOT_IP">>[1] = "GOT_IP"
    OBVIOUS
  <1>l. /\ <<"DISCONNECTED">>[1] = "DISCONNECTED" /\ 1 \in 1..Len(<<"DISCONNECTED">>)
    OBVIOUS
  <1>1. CASE Driver
    <2>1. ~\E n \in 1..Len(events) : events[n] = "DISCONNECTED"
      BY <1>s, <1>1, DriverSteps
    <2>2. UNCHANGED <<queue, link>>
      BY <1>1, DriverSteps
    <2> QED
      BY <2>1, <2>2 DEF LossIsQueued, LossComes
  <1>2. CASE EventLoop
    <2>1. UNCHANGED link
      BY <1>2, LoopSteps
    <2>2. CASE events = <<"START">> /\ UNCHANGED queue
      <3>1. <<"START">>[1] = "START" /\ Len(<<"START">>) = 1
        OBVIOUS
      <3>2. ~\E n \in 1..Len(events) : events[n] = "DISCONNECTED"
        BY <2>2, <3>1
      <3> QED
        BY <2>1, <2>2, <3>2 DEF LossIsQueued, LossComes
    <2>3. CASE events = <<"DISCONNECTED">> /\ Notify(FALSE)
      <3>0. Len(queue') = Len(queue) + 1 /\ queue'[Len(queue')].got = FALSE
        BY <2>3, Notified, Zenon
      <3>1. Len(queue') \in 1..Len(queue') /\ ~queue'[Len(queue')].got
        BY <1>t, <3>0
      <3> QED
        BY <3>1 DEF LossIsQueued, LossComes
    <2>4. CASE events = <<"GOT_IP">> /\ Notify(TRUE)
      <3>0. Len(queue') = Len(queue) + 1 /\ \A n \in 1..Len(queue) : queue'[n] = queue[n]
        BY <2>4, Notified, Zenon
      <3>1. \A n \in 1..Len(queue) : n \in 1..Len(queue') /\ queue'[n] = queue[n]
        BY <1>t, <3>0
      <3>2. ~\E n \in 1..Len(events) : events[n] = "DISCONNECTED"
        BY <1>s, <2>4
      <3> QED
        BY <2>1, <3>1, <3>2 DEF LossIsQueued, LossComes
    <2>5. CASE events' = <<"DISCONNECTED">>
      BY <1>l, <2>5 DEF LossIsQueued, LossComes
    <2> QED
      BY <1>2, <2>2, <2>3, <2>4, <2>5, LoopSteps
  <1> QED
    BY <1>1, <1>2

LEMMA NextStaleInv ==
  ASSUME IInv, [Next]_vars
  PROVE  StaleInv'
  <1> USE DEF IInv
  <1> SUFFICES ASSUME ml'.handle, forgone' = {}, wifi'.driver = "up"
               PROVE  StaleInv'
    BY DEF StaleInv
  <1> DEFINE Marked == SockMarked /\ CoordMarked /\ DerpMarked
  <1>t. /\ wifi.assoc \in Nat /\ queue \in Seq(Messages) /\ Len(queue) \in Nat
        /\ link \in Links /\ ml \in Mls(wifi.assoc) /\ wifi.driver \in {"down", "trying", "up"}
        /\ ml.cmds \in Seq({"CONNECT", "FORCE_RECONNECT"})
        /\ wifi \in [driver : {"down", "trying", "up"}, index : Configured,
                     failures : 0 .. Modulus - 1, assoc : 0 .. MaxLosses + 1]
    BY Typed DEF TypeOK
  <1>f. forgone = {}
    BY ForgoneGrows
  <1>1. CASE Driver
    <2>0. UNCHANGED <<link, ml, queue>>
      BY <1>1, DriverSteps
    <2>1. CASE wifi.driver = "trying" /\ events = <<>>
      <3>1. wifi.assoc > 0
        BY <1>t, <2>0 DEF FirstInv
      <3>2. \/ queue # <<>> /\ ~queue[Len(queue)].got
            \/ link.pending /\ link.at = "wait"
        BY <1>f, <2>1, <3>1 DEF OrderInv
      <3>3. queue # <<>> => Len(queue) \in 1..Len(queue)
        BY <1>t, EmptySeq
      <3>4. LossComes /\ (link.at # "wait" => LossIsQueued)
        BY <3>2, <3>3 DEF LossComes, LossIsQueued
      <3>5. LossComes' /\ (link'.at # "wait" => LossIsQueued')
        BY <1>1, <2>0, <3>4, LossStays
      <3> QED
        BY <3>5 DEF StaleInv, SockMarked, CoordMarked, DerpMarked
    <2>2. CASE wifi.driver = "up" /\ wifi' = wifi
      <3>1. (LossIsQueued => LossIsQueued') /\ (LossComes => LossComes')
        BY <1>1, LossStays
      <3> QED
        BY <1>f, <2>0, <2>2, <3>1 DEF StaleInv, SockMarked, CoordMarked, DerpMarked
    <2>3. CASE wifi' = [wifi EXCEPT !.driver = "down"]
      BY <1>t, <2>3
    <2> QED
      BY <1>1, <2>1, <2>2, <2>3, DriverSteps
  <1>2. CASE EventLoop
    <2>1. (LossIsQueued => LossIsQueued') /\ (LossComes => LossComes')
      BY <1>2, LossStays
    <2>2. UNCHANGED <<link, ml>> /\ wifi'.assoc = wifi.assoc /\ wifi.driver = "up"
      BY <1>2, LoopSteps
    <2> QED
      BY <1>f, <2>1, <2>2 DEF StaleInv, SockMarked, CoordMarked, DerpMarked
  <1>3. CASE LinkTask
    <2>1. /\ queue # <<>> /\ queue' = Tail(queue) /\ UNCHANGED <<wifi, events, ml>>
          /\ link.at = "wait"
      BY <1>3 DEF LinkTask, Apart
    <2>2. Marked
      BY <1>f, <2>1 DEF StaleInv
    <2>3. link'.at \in {"wait", "close"}
      BY <1>t, <1>3, <2>1 DEF LinkTask, Links
    <2>4. CASE link'.at = "close"
      BY <2>4 DEF StaleInv, SockMarked, CoordMarked, DerpMarked
    <2>5. CASE link'.at = "wait"
      <3>1. LossComes => LossComes'
        <4> SUFFICES ASSUME LossComes PROVE LossComes'
          OBVIOUS
        <4>1. CASE ~Head(queue).got
          BY <1>t, <1>3, <4>1 DEF LinkTask, Links, LossComes
        <4>2. CASE Head(queue).got
          <5>1. link' = link /\ ~link.pending
            BY <1>t, <1>3, <2>1, <2>5, <4>2 DEF LinkTask, Moved, Links
          <5>2. /\ Head(queue) = queue[1]
                /\ \A n \in 1..Len(queue) : n = 1 \/ (n - 1 \in 1..Len(queue') /\ queue'[n - 1] = queue[n])
            <6>1. /\ Head(queue) = queue[1] /\ Len(queue') = Len(queue) - 1
                  /\ \A n \in 1..Len(queue) - 1 : queue'[n] = queue[n + 1]
              BY <1>t, <2>1, Taken
            <6>2. \A n \in 1..Len(queue) : n = 1 \/ (n - 1 \in 1..Len(queue) - 1 /\ (n - 1) + 1 = n)
              BY <1>t
            <6> QED
              BY <6>1, <6>2
          <5> QED
            BY <2>1, <4>2, <5>1, <5>2 DEF LossComes
        <4> QED
          BY <4>1, <4>2
      <3> QED
        BY <2>1, <2>2, <2>5, <3>1 DEF StaleInv, SockMarked, CoordMarked, DerpMarked
    <2> QED
      BY <2>3, <2>4, <2>5
  <1>4. CASE Link /\ ~LinkTask
    <2>1. UNCHANGED <<wifi, events, queue>> /\ wifi.driver = "up"
      BY <1>4 DEF Link, MicrolinkInit, OpenSocket, CreateTask, Started, Destroyed, RebindClose,
                  RebindSignal, Apart
    <2>2. UNCHANGED LossIsQueued
      BY <2>1 DEF LossIsQueued
    <2>3. CASE MicrolinkInit
      BY <1>t, <2>3 DEF MicrolinkInit, At, Links, StaleInv
    <2>4. CASE OpenSocket("open", "create")
      BY <1>t, <2>1, <2>4 DEF OpenSocket, At, Links, Mls, StaleInv
    <2>5. CASE CreateTask
      <3>1. link.at = "create" /\ link'.at = "create" /\ ml'.sock = ml.sock /\ ml.handle
        BY <1>t, <2>5 DEF CreateTask, At, Links, Mls
      <3> QED
        BY <1>f, <2>1, <2>2, <3>1 DEF StaleInv
    <2>6. CASE Started
      <3>1. /\ link.at = "create" /\ ml'.sock = ml.sock /\ ml'.coord = 0 /\ ml'.derp = 0 /\ ml.handle
        BY <1>t, <2>6 DEF Started, Mls, StartInv, CommandInv, Starting
      <3>2. ml.sock = wifi.assoc \/ LossIsQueued'
        BY <1>f, <2>1, <2>2, <3>1 DEF StaleInv
      <3>3. LossIsQueued' => LossComes'
        BY DEF LossIsQueued, LossComes
      <3>4. link'.at = "wait"
        BY <1>t, <2>6 DEF Started, Links
      <3> QED
        BY <2>1, <3>1, <3>2, <3>3, <3>4 DEF StaleInv, SockMarked, CoordMarked, DerpMarked
    <2>7. CASE Destroyed
      BY <1>t, <2>7 DEF Destroyed, Mls
    <2>8. CASE RebindClose
      BY <1>t, <2>8 DEF RebindClose, At, Links, StaleInv, SockMarked, CoordMarked, DerpMarked
    <2>9. CASE RebindSignal
      <3>1. ml'.cmds # <<>> /\ ml'.derpBit /\ link'.at = "reopen"
        <4>1. Append(ml.cmds, "FORCE_RECONNECT") # <<>>
          BY <1>t, Appended
        <4> QED
          BY <1>t, <2>9, <4>1 DEF RebindSignal, At, Links, Mls
      <3> QED
        BY <3>1 DEF StaleInv, SockMarked, CoordMarked, DerpMarked
    <2>10. CASE OpenSocket("reopen", "wait")
      <3>1. /\ link.at = "reopen" /\ link'.at = "wait" /\ link'.pending = link.pending
            /\ ml' = [ml EXCEPT !.sock = wifi.assoc]
        BY <1>t, <2>10 DEF OpenSocket, At, Links
      <3>2. /\ ml'.sock = wifi.assoc
            /\ UNCHANGED <<ml.handle, ml.coord, ml.derp, ml.cmds, ml.derpBit>>
        BY <1>t, <3>1 DEF Mls
      <3>3. LossComes => LossComes'
        BY <2>1, <3>1 DEF LossComes
      <3>4. CoordMarked /\ DerpMarked
        BY <1>f, <2>1, <3>1, <3>2 DEF StaleInv
      <3> QED
        BY <2>1, <3>1, <3>2, <3>3, <3>4 DEF StaleInv, SockMarked, CoordMarked, DerpMarked
    <2> QED
      BY <1>4, <2>3, <2>4, <2>5, <2>6, <2>7, <2>8, <2>9, <2>10 DEF Link
  <1>5. CASE Microlink
    <2>1. UNCHANGED <<wifi, events, queue, link, forgone, faults>>
      BY <1>5, MicrolinkTyped
    <2>2. UNCHANGED <<LossIsQueued, LossComes>>
      BY <2>1 DEF LossIsQueued, LossComes
    <2>3. /\ UNCHANGED <<ml.handle, ml.sock>>
          /\ \/ UNCHANGED <<ml.coord, ml.cmds>>
             \/ ml'.coord \in {0, wifi.assoc}
          /\ \/ UNCHANGED <<ml.derp, ml.derpBit>>
             \/ ml'.derp \in {0, wifi.assoc}
      <3>1. CASE Coord
        <4>1. ml.cmds # <<>> => Head(ml.cmds) = ml.cmds[1] /\ 1 \in 1..Len(ml.cmds)
          BY <1>t, Taken
        <4>2. ml'.coord = 0
          BY <1>t, <3>1, <4>1 DEF Coord, Mls, CommandInv
        <4> QED
          BY <1>t, <3>1, <4>2 DEF Coord, Mls
      <3>2. CASE CoordConnects \/ Derp \/ DerpConnects
        BY <1>t, <3>2 DEF CoordConnects, Derp, DerpConnects, Mls
      <3>3. ASSUME NEW t \in Range(Tasks), TaskExits(t)
            PROVE  UNCHANGED <<ml.handle, ml.sock, ml.coord, ml.cmds, ml.derp, ml.derpBit>>
        BY <1>t, <3>3 DEF TaskExits, Mls
      <3> QED
        BY <1>5, <3>1, <3>2, <3>3 DEF Microlink
    <2> QED
      BY <1>f, <2>1, <2>2, <2>3 DEF StaleInv, SockMarked, CoordMarked, DerpMarked
  <1>6. CASE UNCHANGED vars
    <2>1. UNCHANGED <<LossIsQueued, LossComes>>
      BY <1>6 DEF vars, LossIsQueued, LossComes
    <2> QED
      BY <1>6, <2>1 DEF vars, StaleInv, SockMarked, CoordMarked, DerpMarked
  <1> QED
    BY <1>1, <1>2, <1>3, <1>4, <1>5, <1>6 DEF Next
-----------------------------------------------------------------------------
(***************************************************************************)
(* The theorems.                                                           *)
(***************************************************************************)
LEMMA InitIInv == Init => IInv
  <1> SUFFICES ASSUME Init PROVE IInv
    OBVIOUS
  <1>1. wifi \in [driver : {"down", "trying", "up"}, index : Configured,
                  failures : 0 .. Modulus - 1, assoc : 0 .. MaxLosses + 1]
    <2>1. 0 \in 0 .. Modulus - 1 /\ 0 \in 0 .. MaxLosses + 1
      BY Numbers
    <2>2. (IF 0 \in Configured THEN 0 ELSE 1) \in Configured
      BY Numbers
    <2> QED
      BY <2>1, <2>2 DEF Init
  <1>2. queue \in Seq(Messages) /\ Len(queue) = 0 /\ Len(queue) <= QueueDepth
    <2>1. <<>> \in Seq(Messages) /\ Len(<<>>) = 0 /\ 0 <= QueueDepth
      BY EmptySeq, Numbers
    <2> QED
      BY <2>1, Zenon DEF Init
  <1>3. ml \in Mls(0) /\ Len(ml.cmds) = 0 /\ Len(ml.cmds) <= CmdDepth
    <2>1. <<>> \in Seq({"CONNECT", "FORCE_RECONNECT"}) /\ Len(<<>>) = 0 /\ 0 <= CmdDepth
      BY EmptySeq, Numbers
    <2>2. ml.cmds = <<>>
      BY DEF Init, NoMicrolink
    <2>3. ml \in Mls(0)
      BY <2>1, FourTasks DEF Init, NoMicrolink, Mls
    <2> QED
      BY <2>1, <2>2, <2>3
  <1>4. link \in Links /\ wifi.assoc = 0 /\ events \in Shapes /\ faults \in 0 .. MaxFaults
    BY Numbers DEF Init, Links, Shapes
  <1>5. TypeOK
    BY <1>1, <1>2, <1>3, <1>4 DEF TypeOK, Init, Messages, Links, Shapes, Mls
  <1>6. DriverInv /\ FirstInv
    BY <1>2, <1>4, Numbers, EventShapes DEF Init, DriverInv, FirstInv, NoMicrolink
  <1>7. StartInv /\ CommandInv
    <2>1. 2..Len(ml.cmds) = {}
      BY <1>3
    <2> QED
      BY <2>1 DEF Init, StartInv, CommandInv, NoMicrolink, Starting
  <1>8. OrderInv /\ StaleInv
    BY DEF Init, OrderInv, StaleInv, NoMicrolink
  <1> QED
    BY <1>5, <1>6, <1>7, <1>8 DEF IInv

LEMMA NextIInv ==
  ASSUME IInv, [Next]_vars
  PROVE  IInv'
  BY NextTypeOK, NextDriverInv, NextFirstInv, NextStartInv, NextCommandInv, NextOrderInv,
     NextStaleInv DEF IInv

\* The address that follows a marked loss is on its way: what is not handled
\* ends with what the driver did last.
LEMMA OwedWhenMarked ==
  ASSUME IInv
  PROVE  RebindIsOwed
  <1> SUFFICES ASSUME ml.handle, link.at \notin Starting, wifi.driver = "up", forgone = {}
               PROVE  \A part \in {"sock", "coord", "derp"} : ml[part] # wifi.assoc => Owed(part)
    BY DEF RebindIsOwed, Starting
  <1>t. wifi.assoc \in Nat /\ Len(queue) \in Nat /\ queue \in Seq(Messages)
    BY Typed DEF IInv
  <1>1. SockMarked /\ CoordMarked /\ DerpMarked
    BY DEF IInv, StaleInv, Starting
  <1>2. LossComes => AddressComes
    <2>1. CASE events = <<"GOT_IP">>
      <3>1. 1 \in 1..Len(<<"GOT_IP">>) /\ <<"GOT_IP">>[1] = "GOT_IP"
        OBVIOUS
      <3> QED
        BY <2>1, <3>1 DEF AddressComes
    <2>2. CASE events = <<>>
      <3>1. wifi.assoc > 0 /\ link.at \notin {"init", "open", "create"}
        BY <1>t DEF IInv, FirstInv, StartInv, Starting
      <3>2. \/ queue # <<>> /\ queue[Len(queue)].got
            \/ queue = <<>> /\ ~link.pending
        BY <2>2, <3>1 DEF IInv, OrderInv
      <3>3. CASE queue # <<>> /\ queue[Len(queue)].got
        <4>1. Len(queue) \in 1..Len(queue)
          BY <1>t, <3>3, EmptySeq
        <4> QED
          BY <3>3, <4>1 DEF AddressComes
      <3>4. CASE queue = <<>> /\ ~link.pending
        <4>1. Len(queue) = 0 /\ Len(events) = 0
          BY <2>2, <3>4, EmptySeq
        <4> QED
          BY <3>4, <4>1 DEF LossComes
      <3> QED
        BY <3>2, <3>3, <3>4
    <2> QED
      BY <2>1, <2>2 DEF IInv, DriverInv
  <1> QED
    BY <1>1, <1>2 DEF SockMarked, CoordMarked, DerpMarked, Owed

LEMMA IInvIsKept == Spec => []IInv
  <1>1. Init => IInv
    BY InitIInv
  <1>2. IInv /\ [Next]_vars => IInv'
    BY NextIInv
  <1> QED
    BY <1>1, <1>2, PTL DEF Spec

\* tailscale_link.c and microlink.c: an address obtained after a loss leads to a
\* rebind of whatever MicroLink still has of an earlier association.
THEOREM LinkIsConsistent == Spec => []LinkConsistent
  <1>1. IInv => LinkConsistent
    BY OwedWhenMarked DEF IInv, LinkConsistent
  <1> QED
    BY <1>1, IInvIsKept, PTL
-----------------------------------------------------------------------------
(***************************************************************************)
(* The gesture of the record buttons.                                      *)
(***************************************************************************)
\* A gesture knows its button, a release that is owed has no finger the handler
\* was told of, and its timer is not due before the grace is over.
KnowsItsButton == active => began = (IF fromNew THEN "new" ELSE "main")
OwedIsLifted == requested => active /\ ~ felt
GraceIsKept == timer # NoTimer => elapsed + timer >= RELEASE_GRACE

FlagsOK ==
    /\ active \in BOOLEAN /\ requested \in BOOLEAN /\ fromNew \in BOOLEAN
    /\ felt \in BOOLEAN /\ failed \in BOOLEAN
ClocksOK == timer \in 0 .. NoTimer /\ elapsed \in 0 .. RELEASE_GRACE
PlacesOK ==
    /\ shown.buttons \subseteq Buttons /\ shown.enabled \in BOOLEAN
    /\ screen \in Screens \cup {"idle"}
    /\ touch \in Buttons \cup {"none"} /\ began \in Buttons \cup {"none"}

GestureInv ==
    /\ FlagsOK /\ ClocksOK /\ PlacesOK
    /\ TimerOwesRelease /\ HeldButtonStays
    /\ KnowsItsButton /\ OwedIsLifted /\ GraceIsKept

LEMMA Grace == RELEASE_GRACE \in Nat /\ RELEASE_GRACE >= 1
  BY GraceAssumption

LEMMA DelayIsGrace ==
  ASSUME ClocksOK
  PROVE  Delay \in 1 .. RELEASE_GRACE /\ elapsed + Delay >= RELEASE_GRACE
  BY Grace DEF ClocksOK, Delay

LEMMA PressStep ==
  ASSUME GestureInv, NEW b \in Buttons, Press(b)
  PROVE  GestureInv' /\ ~ Ends
  <1> USE Grace DEF GestureInv, gestureVars
  <1>1. /\ touch' = b /\ felt' = shown.enabled /\ b \in {"main", "new"}
        /\ IF ~ shown.enabled THEN UNCHANGED <<gestureVars, shown, screen, began, failed>>
           ELSE IF active THEN Return ELSE Begin(b)
    BY DEF Press, Buttons
  <1>2. CASE ~ shown.enabled
    <2>1. felt' = FALSE /\ UNCHANGED <<gestureVars, shown, screen, began, failed>>
      BY <1>1, <1>2 DEF PlacesOK
    <2>2. FlagsOK' /\ ClocksOK' /\ PlacesOK'
      BY <1>1, <2>1 DEF FlagsOK, ClocksOK, PlacesOK
    <2> QED
      BY <2>1, <2>2 DEF TimerOwesRelease, HeldButtonStays, KnowsItsButton, OwedIsLifted,
                        GraceIsKept, Ends
  <1>3. CASE shown.enabled /\ active
    <2>1. Return /\ felt' \in BOOLEAN
      BY <1>1, <1>3 DEF PlacesOK
    <2>2. FlagsOK' /\ ClocksOK' /\ PlacesOK'
      <3>1. FlagsOK'
        BY <1>1, <2>1 DEF Return, FlagsOK
      <3>2. ClocksOK'
        BY <1>1, <2>1 DEF Return, FlagsOK, ClocksOK, NoTimer
      <3>3. PlacesOK'
        BY <1>1, <2>1 DEF Return, PlacesOK
      <3> QED
        BY <3>1, <3>2, <3>3
    <2>3. TimerOwesRelease' /\ GraceIsKept'
      BY <1>3, <2>1 DEF Return, FlagsOK, ClocksOK, TimerOwesRelease, GraceIsKept, NoTimer
    <2> QED
      BY <2>1, <2>2, <2>3, <1>3 DEF Return, HeldButtonStays, KnowsItsButton, OwedIsLifted, Ends
  <1>4. CASE shown.enabled /\ ~ active
    <2>1. Begin(b) /\ felt' \in BOOLEAN
      BY <1>1, <1>4 DEF PlacesOK
    <2>2. FlagsOK' /\ ClocksOK'
      <3>1. FlagsOK'
        BY <2>1 DEF Begin, FlagsOK
      <3>2. ClocksOK'
        BY <2>1 DEF Begin, FlagsOK, ClocksOK, NoTimer
      <3> QED
        BY <3>1, <3>2
    <2>3. shown'.buttons = {b} /\ shown'.enabled = TRUE /\ screen' = "recording" /\ began' = b
      BY <1>1, <2>1 DEF Begin, RecordingLayout, Layout
    <2>4. PlacesOK'
      BY <1>1, <2>3 DEF PlacesOK, Buttons, Screens
    <2>5. KnowsItsButton'
      BY <1>1, <2>1 DEF Begin, KnowsItsButton
    <2> QED
      BY <1>4, <2>1, <2>2, <2>3, <2>4, <2>5
      DEF Begin, TimerOwesRelease, HeldButtonStays, OwedIsLifted, GraceIsKept, Ends
  <1> QED
    BY <1>2, <1>3, <1>4 DEF PlacesOK

LEMMA LeaveStep ==
  ASSUME GestureInv, Leave
  PROVE  GestureInv' /\ (Ends => ~ felt' /\ failed')
  <1> USE Grace DEF GestureInv, gestureVars
  <1>1. /\ touch' = "none" /\ felt' = FALSE /\ UNCHANGED <<elapsed, shown, screen, began>>
        /\ IF shown.enabled /\ active THEN ScheduleRelease
           ELSE UNCHANGED <<active, requested, timer, fromNew, failed>>
    BY DEF Leave
  <1>2. PlacesOK'
    BY <1>1 DEF PlacesOK
  <1>3. CASE shown.enabled /\ active /\ NoMemory
    <2>1. /\ active' = FALSE /\ requested' = FALSE /\ timer' = NoTimer
          /\ fromNew' = FALSE /\ failed' = TRUE
      BY <1>3 DEF NoMemory
    <2>2. FlagsOK' /\ ClocksOK'
      <3>1. FlagsOK'
        BY <1>1, <2>1 DEF FlagsOK
      <3>2. ClocksOK'
        BY <1>1, <2>1 DEF FlagsOK, ClocksOK, NoTimer
      <3> QED
        BY <3>1, <3>2
    <2> QED
      BY <1>1, <1>2, <2>1, <2>2
      DEF TimerOwesRelease, HeldButtonStays, KnowsItsButton, OwedIsLifted, GraceIsKept
  <1>4. CASE shown.enabled /\ active /\ ~ NoMemory
    <2>1. requested' = TRUE /\ timer' = Delay /\ UNCHANGED <<active, fromNew, failed>>
      BY <1>1, <1>4 DEF ScheduleRelease
    <2>2. Delay \in 1 .. RELEASE_GRACE /\ elapsed + Delay >= RELEASE_GRACE
      BY DelayIsGrace
    <2>3. FlagsOK' /\ ClocksOK' /\ timer' # NoTimer
      <3>1. FlagsOK'
        BY <1>1, <2>1, <2>2 DEF FlagsOK
      <3>2. ClocksOK'
        BY <1>1, <2>1, <2>2 DEF FlagsOK, ClocksOK, NoTimer
      <3>3. timer' # NoTimer
        BY <1>1, <2>1, <2>2 DEF FlagsOK, ClocksOK, NoTimer
      <3> QED
        BY <3>1, <3>2, <3>3
    <2> QED
      BY <1>1, <1>2, <1>4, <2>1, <2>2, <2>3
      DEF TimerOwesRelease, HeldButtonStays, KnowsItsButton, OwedIsLifted, GraceIsKept, Ends
  <1>5. CASE ~ (shown.enabled /\ active)
    <2>1. UNCHANGED <<active, requested, timer, fromNew, failed>>
      BY <1>1, <1>5
    <2>2. FlagsOK' /\ ClocksOK'
      BY <1>1, <2>1 DEF FlagsOK, ClocksOK
    <2> QED
      BY <1>1, <1>2, <2>1, <2>2
      DEF TimerOwesRelease, HeldButtonStays, KnowsItsButton, OwedIsLifted, GraceIsKept, Ends
  <1> QED
    BY <1>3, <1>4, <1>5

\* The timer is due: its release is owed, no finger is felt, the grace is over.
LEMMA TimerStep ==
  ASSUME GestureInv, TimerFires
  PROVE  GestureInv' /\ ~ felt' /\ elapsed = RELEASE_GRACE
  <1> USE Grace DEF GestureInv, gestureVars
  <1>1. timer = 0 /\ timer # NoTimer /\ elapsed = RELEASE_GRACE
    BY DEF TimerFires, NoTimer, GraceIsKept, ClocksOK
  <1>2. active /\ requested /\ ~ felt
    BY <1>1 DEF TimerOwesRelease, OwedIsLifted
  <1>3. /\ active' = FALSE /\ requested' = FALSE /\ fromNew' = FALSE /\ timer' = NoTimer
        /\ UNCHANGED <<elapsed, shown, screen, touch, felt, began, failed>>
    BY <1>2 DEF TimerFires, Finish
  <1>4. FlagsOK' /\ ClocksOK' /\ PlacesOK'
    <2>1. FlagsOK'
      BY <1>3 DEF FlagsOK
    <2>2. ClocksOK'
      BY <1>3 DEF FlagsOK, ClocksOK, NoTimer
    <2>3. PlacesOK'
      BY <1>3 DEF PlacesOK
    <2> QED
      BY <2>1, <2>2, <2>3
  <1> QED
    BY <1>1, <1>2, <1>3, <1>4
    DEF TimerOwesRelease, HeldButtonStays, KnowsItsButton, OwedIsLifted, GraceIsKept

\* A screen does not end the gesture, but for the idle one.
LEMMA ScreenStep ==
  ASSUME GestureInv, ShowIdle \/ \E next \in Screens : Show(next)
  PROVE  GestureInv' /\ ~ Ends
  <1> USE Grace DEF GestureInv, gestureVars
  <1>1. CASE ShowIdle
    <2>1. FlagsOK' /\ ClocksOK'
      <3>1. FlagsOK'
        BY <1>1 DEF ShowIdle, FlagsOK
      <3>2. ClocksOK'
        BY <1>1 DEF ShowIdle, FlagsOK, ClocksOK, NoTimer
      <3> QED
        BY <3>1, <3>2
    <2>2. PlacesOK'
      BY <1>1 DEF ShowIdle, LayoutOf, Layout, PlacesOK, Buttons
    <2> QED
      BY <1>1, <2>1, <2>2 DEF ShowIdle, TimerOwesRelease, HeldButtonStays, KnowsItsButton,
                              OwedIsLifted, GraceIsKept, Ends
  <1>2. ASSUME NEW next \in Screens, Show(next) PROVE GestureInv' /\ ~ Ends
    <2>1. PlacesOK'
      BY <1>2 DEF Show, LayoutOf, RecordingLayout, Layout, PlacesOK, Buttons, Screens
    <2>2. FlagsOK' /\ ClocksOK'
      BY <1>2 DEF Show, FlagsOK, ClocksOK
    <2>3. HeldButtonStays'
      <3>1. CASE next = "recording"
        <4>1. shown'.buttons = (IF fromNew THEN {"new"} ELSE {"main"}) /\ shown'.enabled = TRUE
          BY <1>2, <3>1 DEF Show, LayoutOf, RecordingLayout, Layout
        <4>2. active' = active /\ began' = began
          BY <1>2 DEF Show
        <4> QED
          BY <4>1, <4>2 DEF HeldButtonStays, KnowsItsButton
      <3>2. CASE next # "recording"
        BY <1>2, <3>2 DEF Show, HeldButtonStays
      <3> QED
        BY <3>1, <3>2
    <2> QED
      BY <1>2, <2>1, <2>2, <2>3
      DEF Show, TimerOwesRelease, KnowsItsButton, OwedIsLifted, GraceIsKept, Ends
  <1> QED
    BY <1>1, <1>2

LEMMA TimeStep ==
  ASSUME GestureInv, Tick
  PROVE  GestureInv' /\ ~ Ends
  <1> USE Grace DEF GestureInv, gestureVars
  <1>1. UNCHANGED <<active, requested, fromNew, shown, screen, touch, felt, began, failed>>
    BY DEF Tick
  <1>2. ClocksOK' /\ (timer # NoTimer <=> timer' # NoTimer) /\ GraceIsKept'
    BY DEF Tick, ClocksOK, NoTimer, GraceIsKept
  <1>3. FlagsOK' /\ PlacesOK'
    BY <1>1 DEF FlagsOK, PlacesOK
  <1> QED
    BY <1>1, <1>2, <1>3
    DEF TimerOwesRelease, HeldButtonStays, KnowsItsButton, OwedIsLifted, Ends

LEMMA GestureStep ==
  ASSUME GestureInv, [GestureNext]_uiVars
  PROVE  GestureInv' /\ (Ends => ~ felt' /\ (elapsed = RELEASE_GRACE \/ failed'))
  <1>1. CASE Sample
    <2>1. /\ felt' = TRUE /\ shown.enabled
          /\ IF active THEN Return
             ELSE UNCHANGED <<gestureVars, shown, screen, began, failed>>
          /\ UNCHANGED touch
      BY <1>1 DEF Sample
    <2>2. FlagsOK' /\ ClocksOK' /\ PlacesOK'
      <3>1. FlagsOK'
        BY <2>1, Grace DEF GestureInv, Return, FlagsOK, gestureVars
      <3>2. ClocksOK'
        BY <2>1, Grace DEF GestureInv, Return, FlagsOK, ClocksOK, NoTimer, gestureVars
      <3>3. PlacesOK'
        BY <2>1, Grace DEF GestureInv, Return, PlacesOK, gestureVars
      <3> QED
        BY <3>1, <3>2, <3>3
    <2>3. TimerOwesRelease' /\ GraceIsKept'
      BY <2>1, Grace DEF GestureInv, Return, FlagsOK, ClocksOK, TimerOwesRelease, GraceIsKept,
                         NoTimer, gestureVars
    <2> QED
      BY <2>1, <2>2, <2>3 DEF GestureInv, Return, HeldButtonStays, KnowsItsButton,
                              OwedIsLifted, Ends, gestureVars
  <1>2. CASE UNCHANGED uiVars
    <2>1. FlagsOK' /\ ClocksOK' /\ PlacesOK'
      BY <1>2 DEF uiVars, gestureVars, GestureInv, FlagsOK, ClocksOK, PlacesOK
    <2> QED
      BY <1>2, <2>1 DEF uiVars, gestureVars, GestureInv, TimerOwesRelease, HeldButtonStays,
                        KnowsItsButton, OwedIsLifted, GraceIsKept, Ends
  <1> QED
    BY <1>1, <1>2, PressStep, LeaveStep, TimerStep, ScreenStep, TimeStep DEF GestureNext

LEMMA GestureInvariance == GestureSpec => []GestureInv
  <1>1. GestureInit => GestureInv
    <2> SUFFICES ASSUME GestureInit PROVE GestureInv
      OBVIOUS
    <2>1. FlagsOK /\ ClocksOK
      <3>1. FlagsOK
        BY Grace DEF GestureInit, FlagsOK
      <3>2. ClocksOK
        BY Grace DEF GestureInit, FlagsOK, ClocksOK, NoTimer
      <3> QED
        BY <3>1, <3>2
    <2>2. PlacesOK
      BY DEF GestureInit, PlacesOK, Layout, Buttons
    <2> QED
      BY <2>1, <2>2 DEF GestureInit, GestureInv, TimerOwesRelease, HeldButtonStays,
                        KnowsItsButton, OwedIsLifted, GraceIsKept
  <1> QED
    BY <1>1, GestureStep, PTL DEF GestureSpec

\* The gesture, its timer and its button belong together, for any grace: a
\* release that is owed has its timer, no timer outlives its release, and the
\* recording screen shows the button the gesture began on (record_event).
THEOREM GesturesHoldTogether == GestureSpec => []GestureHoldsTogether
  <1>1. GestureInv => GestureHoldsTogether
    BY DEF GestureInv, GestureHoldsTogether, GestureTypeOK, FlagsOK, ClocksOK, PlacesOK
  <1> QED
    BY <1>1, GestureInvariance, PTL

\* No jitter of the panel ends a recording: a gesture ends under no finger the
\* handler was told of, and after the grace, unless memory for a timer lacked.
THEOREM NoJitterEnds == GestureSpec => JitterEndsNothing
  <1>1. GestureInv /\ [GestureNext]_uiVars =>
           [Ends => ~ felt' /\ (elapsed = RELEASE_GRACE \/ failed')]_uiVars
    BY GestureStep
  <1> QED
    BY <1>1, GestureInvariance, PTL DEF GestureSpec, JitterEndsNothing
=============================================================================
