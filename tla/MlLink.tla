-------------------------------- MODULE MlLink ------------------------------
(***************************************************************************)
(* The way from the Wi-Fi to MicroLink: wifi_manager.c, which keeps        *)
(* connecting to one of two networks; tailscale_link.c, whose task takes   *)
(* the events of the manager from a short queue and starts or rebinds      *)
(* MicroLink; and the start, rebind and destruction in microlink.c.  What  *)
(* the coordination and the relay do between two rebinds is in MlCoord and *)
(* MlDerp; here each has a connection or has none.                         *)
(*                                                                         *)
(* Every address the device obtains opens a new association.  A socket or  *)
(* a connection is the number of the association it was made in, 0 if      *)
(* there is none: one of an earlier association leads nowhere.             *)
(***************************************************************************)
EXTENDS Naturals, Sequences, SequencesExt

CONSTANTS Configured,   \* the networks with an SSID: 0 is the primary, 1 the fallback
          Good,         \* those that let the device in when it tries for long enough
          RetryLimit,   \* WIFI_RETRY_LIMIT (3)
          Modulus,      \* s_failures is an uint8_t (256)
          QueueDepth,   \* TAILSCALE_LINK_QUEUE_DEPTH (4)
          CmdDepth,     \* ML_COORD_CMD_QUEUE_DEPTH (4)
          MaxLosses,    \* bound: connections lost
          MaxFaults     \* bound: calls of the system that fail

ASSUME LinkAssumption ==
    /\ Configured \subseteq {0, 1} /\ Configured # {} /\ Good \subseteq Configured
    /\ {RetryLimit, QueueDepth, CmdDepth} \subseteq Nat \ {0}
    /\ {Modulus, MaxLosses, MaxFaults} \subseteq Nat /\ RetryLimit < Modulus

VARIABLES wifi,   \* the driver, and s_network_index and s_failures of the manager
          events, \* what the driver has posted and the event loop not yet handled
          queue,  \* s_events of tailscale_link.c
          link,   \* its task: where it is, and s_wifi_rebind_pending, s_active_wifi
          ml,     \* MicroLink: its handle, tasks, sockets, signals
          forgone, \* what was given up and is not retried
          faults  \* failed calls so far

vars == <<wifi, events, queue, link, ml, forgone, faults>>

Tasks == <<"net_io", "derp_tx", "coord", "wg_mgr">>
NoMicrolink ==
    [handle |-> FALSE, tasks |-> 0, left |-> {}, stop |-> FALSE,
     wifiUp |-> FALSE, cmds |-> <<>>, asked |-> FALSE, derpBit |-> FALSE,
     sock |-> 0, coord |-> 0, derp |-> 0]
Running(m) == {Tasks[n] : n \in 1..m.tasks} \ m.left

\* wifi_manager_start, after tailscale_link_init.
Init ==
    /\ wifi = [driver |-> "down", index |-> IF 0 \in Configured THEN 0 ELSE 1,
               failures |-> 0, assoc |-> 0]
    /\ events = <<"START">> /\ queue = <<>>
    /\ link = [at |-> "wait", net |-> 0, pending |-> FALSE, active |-> 0]
    /\ ml = NoMicrolink
    /\ forgone = {} /\ faults = 0

Fault == faults < MaxFaults /\ faults' = faults + 1
NoFault == UNCHANGED faults
-----------------------------------------------------------------------------
(***************************************************************************)
(* The driver: after esp_wifi_connect it obtains an address or reports a   *)
(* disconnection, and an address may be renewed or lost.                   *)
(***************************************************************************)
Posts(e) == events' = Append(events, e) /\ UNCHANGED <<queue, link, ml, forgone, faults>>

Obtains ==
    /\ wifi.driver = "trying" /\ wifi.index \in Good
    /\ wifi' = [wifi EXCEPT !.driver = "up", !.assoc = @ + 1] /\ Posts("GOT_IP")

Fails ==
    /\ wifi.driver = "trying"
    /\ wifi' = [wifi EXCEPT !.driver = "down"] /\ Posts("DISCONNECTED")

Loses ==
    /\ wifi.driver = "up" /\ wifi.assoc <= MaxLosses
    /\ wifi' = [wifi EXCEPT !.driver = "down"] /\ Posts("DISCONNECTED")

Renews ==
    /\ wifi.driver = "up" /\ events = <<>> /\ Posts("GOT_IP") /\ UNCHANGED wifi

Driver == Obtains \/ Fails \/ Loses \/ Renews
-----------------------------------------------------------------------------
(***************************************************************************)
(* The event loop: wifi_event_handler, which never waits.                  *)
(***************************************************************************)
\* wifi_manager_event and tailscale_link_on_wifi_event: a full queue drops it.
Notify(got) ==
    LET message == [got |-> got, net |-> wifi.index]
    IN  IF Len(queue) < QueueDepth
        THEN queue' = Append(queue, message) /\ UNCHANGED forgone
        ELSE forgone' = forgone \cup {"event"} /\ UNCHANGED queue

Handles(e) == events # <<>> /\ Head(events) = e /\ events' = Tail(events) /\ UNCHANGED <<link, ml>>

OnStart ==
    /\ Handles("START") /\ wifi' = [wifi EXCEPT !.driver = "trying"]
    /\ UNCHANGED <<queue, forgone, faults>>

\* try_next_network and apply_network: what follows `tries' failures.
OtherNetwork(w) == 1 - w.index
\* Mutant of Applied: the count starts over at each disconnection.
Applied_Forgets(w, tries) ==
    IF tries < RetryLimit THEN [w EXCEPT !.failures = 0]
    ELSE IF OtherNetwork(w) \in Configured THEN [w EXCEPT !.index = OtherNetwork(w), !.failures = 0]
    ELSE [w EXCEPT !.failures = 0]
Applied(w, tries) ==
    IF tries < RetryLimit THEN [w EXCEPT !.failures = tries]
    ELSE IF OtherNetwork(w) \in Configured THEN [w EXCEPT !.index = OtherNetwork(w), !.failures = 0]
    ELSE [w EXCEPT !.failures = 0]

OnDisconnected ==
    /\ Handles("DISCONNECTED") /\ Notify(FALSE)
    /\ LET tries == (wifi.failures + 1) % Modulus
       IN  \/ /\ wifi' = [Applied(wifi, tries) EXCEPT !.driver = "trying"] /\ NoFault
           \* esp_wifi_set_config fails: the network and the count stay.
           \/ /\ tries >= RetryLimit /\ OtherNetwork(wifi) \in Configured /\ Fault
              /\ wifi' = [wifi EXCEPT !.failures = tries, !.driver = "trying"]

OnGotIp ==
    /\ Handles("GOT_IP") /\ Notify(TRUE)
    /\ wifi' = [wifi EXCEPT !.failures = 0] /\ UNCHANGED faults

EventLoop == OnStart \/ OnDisconnected \/ OnGotIp
-----------------------------------------------------------------------------
(***************************************************************************)
(* link_task and start_after_ip.                                           *)
(***************************************************************************)
At(here, there) == link.at = here /\ link' = [link EXCEPT !.at = there]
Apart == UNCHANGED <<wifi, events>>

\* Mutant of Moved: only another network is a new association.
Moved_OtherIndex(m) == m.net # link.active
\* A GOT_IP after any LOST_IP, or of another network.
Moved(m) == link.pending \/ m.net # link.active

LinkTask ==
    /\ link.at = "wait" /\ queue # <<>>
    /\ queue' = Tail(queue) /\ UNCHANGED <<ml, forgone, faults>> /\ Apart
    /\ LET m == Head(queue)
       IN  link' =
             IF ~m.got THEN [link EXCEPT !.pending = TRUE]
             ELSE IF ~ml.handle THEN [link EXCEPT !.at = "init", !.net = m.net]
             ELSE IF Moved(m) THEN [link EXCEPT !.at = "close", !.pending = FALSE, !.active = m.net]
             ELSE link

\* microlink_init.
MicrolinkInit ==
    /\ UNCHANGED queue /\ Apart
    /\ \/ /\ At("init", "open") /\ NoFault /\ UNCHANGED forgone
          /\ ml' = [NoMicrolink EXCEPT !.handle = TRUE]
       \/ /\ At("init", "wait") /\ Fault /\ UNCHANGED ml
          /\ forgone' = forgone \cup {"start"}

\* The socket for DISCO; without one MicroLink goes on.
OpenSocket(here, there) ==
    /\ At(here, there) /\ UNCHANGED queue /\ Apart
    /\ \/ ml' = [ml EXCEPT !.sock = wifi.assoc] /\ NoFault /\ UNCHANGED forgone
       \/ Fault /\ forgone' = forgone \cup {"socket"} /\ UNCHANGED ml

\* microlink_start: one task after the other, then the two signals.
CreateTask ==
    /\ ml.tasks < Len(Tasks) /\ UNCHANGED queue /\ Apart
    /\ \/ /\ At("create", "create") /\ NoFault /\ UNCHANGED forgone
          /\ ml' = [ml EXCEPT !.tasks = @ + 1]
       \/ /\ At("create", "destroy") /\ Fault
          /\ ml' = [ml EXCEPT !.stop = TRUE]
          /\ forgone' = forgone \cup {"start"}

Started ==
    /\ link.at = "create" /\ ml.tasks = Len(Tasks)
    /\ link' = [link EXCEPT !.at = "wait", !.active = link.net, !.pending = FALSE]
    /\ ml' = [ml EXCEPT !.wifiUp = TRUE, !.cmds = Append(@, "CONNECT")]
    /\ UNCHANGED <<queue, forgone, faults>> /\ Apart

\* microlink_stop waits for a fixed three seconds.  An assumption on the times,
\* and no guard of the code: a task that only waits or polls has left by then;
\* coord may be in a call that lasts longer once it was told of the Wi-Fi.
Busy(m) == IF m.wifiUp THEN {"coord"} ELSE {}

Destroyed ==
    /\ At("destroy", "wait") /\ Running(ml) \subseteq Busy(ml)
    /\ ml' = [ml EXCEPT !.handle = FALSE]
    /\ UNCHANGED <<queue, forgone, faults>> /\ Apart

\* microlink_rebind: close, tell the tasks, open again.
RebindClose ==
    /\ At("close", "signal") /\ ml' = [ml EXCEPT !.sock = 0]
    /\ UNCHANGED <<queue, forgone, faults>> /\ Apart

\* Mutant of RebindSignal: waits for the coordination to be closed first.
RebindSignal_Waits ==
    /\ At("signal", "reopen") /\ ml.coord = 0 /\ UNCHANGED <<queue, faults>> /\ Apart
    /\ \/ /\ Len(ml.cmds) < CmdDepth /\ UNCHANGED forgone
          /\ ml' = [ml EXCEPT !.cmds = Append(@, "FORCE_RECONNECT"), !.derpBit = TRUE]
       \/ /\ Len(ml.cmds) = CmdDepth /\ forgone' = forgone \cup {"command"}
          /\ ml' = [ml EXCEPT !.derpBit = TRUE]
RebindSignal ==
    /\ At("signal", "reopen") /\ UNCHANGED <<queue, faults>> /\ Apart
    /\ \/ /\ Len(ml.cmds) < CmdDepth /\ UNCHANGED forgone
          /\ ml' = [ml EXCEPT !.cmds = Append(@, "FORCE_RECONNECT"), !.derpBit = TRUE]
       \/ /\ Len(ml.cmds) = CmdDepth /\ forgone' = forgone \cup {"command"}
          /\ ml' = [ml EXCEPT !.derpBit = TRUE]

Link ==
    \/ LinkTask \/ MicrolinkInit \/ OpenSocket("open", "create") \/ CreateTask \/ Started
    \/ Destroyed \/ RebindClose \/ RebindSignal \/ OpenSocket("reopen", "wait")
-----------------------------------------------------------------------------
(***************************************************************************)
(* The tasks of MicroLink, as far as the link is concerned.                *)
(***************************************************************************)
Inside == UNCHANGED <<wifi, events, queue, link, forgone, faults>>
Alive(t) == t \in Running(ml) /\ ~ml.stop

\* ml_coord_task: CONNECT starts it when idle, FORCE_RECONNECT starts it over.
Coord ==
    /\ Alive("coord") /\ ml.wifiUp /\ ml.cmds # <<>> /\ Inside
    /\ ml' = [ml EXCEPT !.cmds = Tail(@), !.asked = TRUE,
                        !.coord = IF Head(ml.cmds) = "FORCE_RECONNECT" THEN 0 ELSE @]

CoordConnects ==
    /\ Alive("coord") /\ ml.asked /\ ml.coord = 0 /\ wifi.driver = "up" /\ Inside
    /\ ml' = [ml EXCEPT !.coord = wifi.assoc]

\* ml_derp_tx_task: DERP_RECONNECT closes the connection.
Derp ==
    /\ Alive("derp_tx") /\ ml.derpBit /\ Inside
    /\ ml' = [ml EXCEPT !.derpBit = FALSE, !.derp = 0]

DerpConnects ==
    /\ Alive("derp_tx") /\ ml.asked /\ ml.derp = 0 /\ wifi.driver = "up" /\ Inside
    /\ ml' = [ml EXCEPT !.derp = wifi.assoc]

\* The loops end at SHUTDOWN_REQUEST.
TaskExits(t) ==
    /\ t \in Running(ml) /\ ml.stop /\ Inside
    /\ ml' = [ml EXCEPT !.left = @ \cup {t}]

Microlink ==
    \/ Coord \/ CoordConnects \/ Derp \/ DerpConnects
    \/ \E t \in Range(Tasks) : TaskExits(t)

Next == Driver \/ EventLoop \/ Link \/ Microlink

Spec == Init /\ [][Next]_vars

\* The scheduler runs every task and the event loop; an attempt to connect
\* ends, and a good network lets the device in if it tries again and again.
FairSpec ==
    /\ Spec /\ WF_vars(EventLoop) /\ WF_vars(Link)
    /\ WF_vars(Coord) /\ WF_vars(CoordConnects) /\ WF_vars(Derp) /\ WF_vars(DerpConnects)
    /\ \A t \in Range(Tasks) : WF_vars(TaskExits(t))
    /\ WF_vars(Obtains \/ Fails) /\ SF_vars(Obtains)
-----------------------------------------------------------------------------
\* Types and bounds.
TypeOK ==
    /\ wifi \in [driver : {"down", "trying", "up"}, index : Configured,
                 failures : 0 .. Modulus - 1, assoc : 0 .. MaxLosses + 1]
    /\ events \in {<<>>, <<"START">>, <<"DISCONNECTED">>, <<"GOT_IP">>, <<"GOT_IP", "DISCONNECTED">>}
    /\ queue \in Seq([got : BOOLEAN, net : Configured]) /\ Len(queue) <= QueueDepth
    /\ link \in [at : {"wait", "init", "open", "create", "destroy", "close", "signal", "reopen"},
                 net : {0, 1}, pending : BOOLEAN, active : {0, 1}]
    /\ ml \in [handle : BOOLEAN, tasks : 0 .. Len(Tasks),
               left : SUBSET Range(Tasks), stop : BOOLEAN, wifiUp : BOOLEAN,
               cmds : Seq({"CONNECT", "FORCE_RECONNECT"}), asked : BOOLEAN, derpBit : BOOLEAN,
               sock : 0 .. wifi.assoc, coord : 0 .. wifi.assoc, derp : 0 .. wifi.assoc]
    /\ Len(ml.cmds) <= CmdDepth
    /\ forgone \subseteq {"event", "start", "socket", "command"} /\ faults \in 0 .. MaxFaults

\* What MicroLink has is of the current association, or a rebind is still owed:
\* the loss and the address after it are on their way, or the steps of the
\* rebind, or a signal.  It is lost only where something was dropped or failed.
LossComes ==
    \/ link.pending \/ \E n \in 1..Len(events) : events[n] = "DISCONNECTED"
    \/ \E n \in 1..Len(queue) : ~queue[n].got
AddressComes ==
    \/ \E n \in 1..Len(events) : events[n] = "GOT_IP"
    \/ \E n \in 1..Len(queue) : queue[n].got
Owed(part) ==
    \/ LossComes /\ AddressComes
    \/ link.at \in {"close", "signal"}
    \/ part = "sock" /\ link.at = "reopen"
    \/ part = "coord" /\ (ml.coord = 0 \/ ml.cmds # <<>>)
    \/ part = "derp" /\ (ml.derp = 0 \/ ml.derpBit)
RebindIsOwed ==
    ml.handle /\ link.at \notin {"open", "create", "destroy"} /\ wifi.driver = "up"
        /\ forgone = {} =>
        \A part \in {"sock", "coord", "derp"} : ml[part] # wifi.assoc => Owed(part)

LinkConsistent == TypeOK /\ RebindIsOwed

\* A device with a good network is connected again and again: failures on one
\* network, switches and failed switches never leave it on a bad one.
Connects == Good # {} => []<>(wifi.driver = "up")

\* While nothing was dropped and the Wi-Fi stays, MicroLink ends up on the
\* association that stays, with its socket, its coordination and its relay.
Bound(part) == ml[part] = wifi.assoc
FollowsWifi ==
    [](forgone = {}) /\ <>[](wifi.driver = "up")
        => <>[](ml.handle /\ Bound("sock") /\ Bound("coord") /\ Bound("derp"))
=============================================================================
