------------------------------- MODULE MlPaths ------------------------------
(***************************************************************************)
(* Which way packets go to a peer: the DISCO probes and answers of the     *)
(* task wg_mgr (ml_wg_mgr.c), the direct path they find, and the endpoint  *)
(* they set in the peers of wireguardif.c, whose packets go to the relay   *)
(* when the endpoint is blank.  Updates of the table come from MlPeers,    *)
(* sessions from WgSession; here they are the environment.                 *)
(*                                                                         *)
(* A peer has one direct address, named by its key.  A probe is a slot of  *)
(* pending_probes; the answers it can still get travel by the relay or     *)
(* directly, and any may be lost.  An answer whose probe has been freed    *)
(* changes nothing and is left out.  Time is the number of periodic calls  *)
(* a path is still trusted.  The limits on the rate of pings only make     *)
(* some of them not happen: which peers are pinged is left open.           *)
(***************************************************************************)
EXTENDS Naturals, FiniteSets, FiniteSetsExt

CONSTANTS Keys, NoKey,
          MaxPeers,   \* ML_MAX_PEERS (8); wireguard-lwip has at least as many
          MaxProbes,  \* MAX_PENDING_PROBES (32)
          Trust,      \* periodic calls a path is trusted (15 s of 1 s calls)
          MaxUpdates, \* bound: additions and removals of peers
          MaxBlocks   \* bound: direct paths that stop working

ASSUME PathsAssumption ==
    /\ NoKey \notin Keys
    /\ {MaxPeers, MaxProbes, Trust} \subseteq Nat \ {0} /\ {MaxUpdates, MaxBlocks} \subseteq Nat

VARIABLES dev,   \* the slots of ml->peers, the peers of WireGuard, the probes
          open,  \* the keys whose direct address can be reached
          count  \* updates and blocked paths so far

pathsVars == <<dev, open, count>>

Indices == 1..MaxPeers
Probes == 1..MaxProbes

FreshSlot(k) ==
    [key |-> k, active |-> k # NoKey, direct |-> FALSE, trust |-> 0, best |-> NoKey,
     tried |-> FALSE, wg |-> 0]
FreshWg(k) == [key |-> k, ip |-> NoKey, session |-> FALSE, active |-> FALSE]
NoProbe == [slot |-> 0, to |-> NoKey]

ActiveSlots(d) == {i \in Indices : d.slot[i].active}
Holding(d, k) == {i \in ActiveSlots(d) : d.slot[i].key = k}
\* wireguardif_lookup_peer: the index is one, and the peer is valid.
Valid(d, j) == j # 0 /\ d.wg[j].key # NoKey

\* The slots hold the peers of the cache, which have no peer of WireGuard.
PathsInit ==
    /\ \E n \in 0..MaxPeers : \E cached \in [1..n -> Keys] :
        /\ \A i, j \in 1..n : cached[i] = cached[j] => i = j
        /\ dev = [slot |-> [i \in Indices |-> FreshSlot(IF i <= n THEN cached[i] ELSE NoKey)],
                  wg |-> [j \in Indices |-> FreshWg(NoKey)],
                  probe |-> [n2 \in Probes |-> NoProbe],
                  answers |-> {}]
    /\ open \in SUBSET Keys
    /\ count = [updates |-> 0, blocks |-> 0]
-----------------------------------------------------------------------------
(***************************************************************************)
(* Probes.                                                                 *)
(***************************************************************************)
\* disco_build_ping: the first free probe; if there is none, the ping is sent
\* and its answer will not be known.
Registered(d, i, ways) ==
    LET free == {n \in Probes : d.probe[n].slot = 0}
        n == Min(free)
    IN  IF free = {} THEN d
        ELSE [d EXCEPT !.probe[n] = [slot |-> i, to |-> d.slot[i].key],
                       !.answers = @ \cup {[probe |-> n, via |-> w] : w \in ways}]

\* Directly the ping reaches the peer if its address does.
Directly(d, i) == IF d.slot[i].key \in open THEN {"direct"} ELSE {}

\* disco_send_ping_to_peer: to the path and the endpoints, and by the relay
\* unless there is a path.
Ping(d, i) ==
    Registered(d, i, Directly(d, i) \cup (IF d.slot[i].direct THEN {} ELSE {"derp"}))

\* The probes are freed, and with them the answers they could get.
Freed(d, gone) ==
    [d EXCEPT !.probe = [n \in Probes |-> IF n \in gone THEN NoProbe ELSE d.probe[n]],
              !.answers = {a \in @ : a.probe \notin gone}]
-----------------------------------------------------------------------------
(***************************************************************************)
(* The calls into wireguardif.c.                                           *)
(***************************************************************************)
\* wireguardif_update_endpoint and wireguardif_connect.
Connect(d, j, address) ==
    IF Valid(d, j) THEN [d EXCEPT !.wg[j].ip = address, !.wg[j].active = TRUE] ELSE d

\* wireguardif_connect_derp: the endpoint is blanked.
ConnectDerp(d, j) ==
    IF Valid(d, j) THEN [d EXCEPT !.wg[j].ip = NoKey, !.wg[j].active = TRUE] ELSE d

\* wireguardif_peer_is_up.
IsUp(d, j) == Valid(d, j) /\ d.wg[j].session

\* wireguardif_add_peer: a peer that is there already stays as it is.
WgIndex(d, k) ==
    LET there == {j \in Indices : d.wg[j].key = k}
        free == {j \in Indices : d.wg[j].key = NoKey}
    IN  IF there # {} THEN Min(there) ELSE IF free # {} THEN Min(free) ELSE 0

WgAdded(d, k) ==
    LET j == WgIndex(d, k)
    IN  IF j = 0 \/ Valid(d, j) THEN d ELSE [d EXCEPT !.wg[j] = FreshWg(k)]
-----------------------------------------------------------------------------
(***************************************************************************)
(* The task wg_mgr.                                                        *)
(***************************************************************************)
Counted(field) == count' = [count EXCEPT ![field] = @ + 1]

\* add_peer fills its slot or the first free one; tried_initial_handshake is
\* not among the fields it sets.  A ping follows.
\* In a full table the eviction of MlPeers, a removal, comes before.
SlotFilled(d, i, k, j) ==
    [d EXCEPT !.slot[i] = [FreshSlot(k) EXCEPT !.tried = d.slot[i].tried, !.wg = j]]

AddPeer(k) ==
    /\ count.updates < MaxUpdates /\ Counted("updates")
    /\ LET own == Holding(dev, k)
           free == Indices \ ActiveSlots(dev)
           i == Min(IF own # {} THEN own ELSE free)
       IN  /\ own \cup free # {}
           /\ dev' = Ping(SlotFilled(WgAdded(dev, k), i, k, WgIndex(dev, k)), i)
    /\ UNCHANGED open

\* Mutant: WireGuard keeps the peer that the table has dropped.
RemovePeer_TableOnly(k) ==
    /\ count.updates < MaxUpdates /\ Counted("updates")
    /\ \E i \in Holding(dev, k) : dev' = [dev EXCEPT !.slot[i].active = FALSE]
    /\ UNCHANGED open

\* remove_peer: the slot keeps its other fields, and the probes its number.
RemovePeer(k) ==
    /\ count.updates < MaxUpdates /\ Counted("updates")
    /\ \E i \in Holding(dev, k) :
        LET j == dev.slot[i].wg
            without == IF j = 0 THEN dev ELSE [dev EXCEPT !.wg[j] = FreshWg(NoKey)]
        IN  dev' = [without EXCEPT !.slot[i].active = FALSE]
    /\ UNCHANGED open

\* Without a session one handshake is tried, and the peer not left active, for
\* it may not know of us.
\* Mutant: it is left active.
TriedOnce_LeftActive(d, i, address) ==
    IF d.slot[i].tried THEN d
    ELSE [Connect(d, d.slot[i].wg, address) EXCEPT !.slot[i].tried = TRUE]

TriedOnce(d, i, address) ==
    LET j == d.slot[i].wg
        connected == Connect(d, j, address)
    IN  IF d.slot[i].tried THEN d
        ELSE [connected EXCEPT !.slot[i].tried = TRUE,
                               !.wg = IF Valid(d, j) THEN [@ EXCEPT ![j].active = FALSE] ELSE @]

\* Mutant: the endpoint is set in the peer of WireGuard with the slot's number,
\* if that peer is up.
PathFound_SlotNumber(d, i, address) ==
    LET known == [d EXCEPT !.slot[i].direct = TRUE, !.slot[i].trust = Trust,
                           !.slot[i].best = address]
    IN  IF IsUp(d, i) THEN Connect(known, i, address) ELSE known

\* A direct answer: the path is trusted, and WireGuard switched to it.
PathFound(d, i, address) ==
    LET known == [d EXCEPT !.slot[i].direct = TRUE, !.slot[i].trust = Trust,
                           !.slot[i].best = address]
        j == d.slot[i].wg
    IN  IF ~IsUp(d, j) THEN (IF j = 0 THEN known ELSE TriedOnce(known, i, address))
        ELSE IF d.wg[j].ip # address THEN Connect(known, j, address)
        ELSE known

\* process_disco_pong: the answer is known by its transaction id alone.  An
\* index beyond peer_count is the only one that is not used.
Pong(a) ==
    /\ a \in dev.answers
    /\ LET n == a.probe
           i == dev.probe[n].slot
           rest == Freed(dev, {n})
       IN  dev' = IF a.via = "derp" \/ \A i2 \in ActiveSlots(dev) : i2 < i
                  THEN rest ELSE PathFound(rest, i, dev.probe[n].to)
    /\ UNCHANGED <<open, count>>

\* CallMeMaybe of a peer: its endpoint is pinged, then it is pinged as ever.
CallMeMaybe(k) ==
    /\ \E i \in Holding(dev, k) : dev' = Ping(Registered(dev, i, Directly(dev, i)), i)
    /\ UNCHANGED <<open, count>>

\* One peer of disco_periodic_probes: the path expires, or its heartbeat is
\* sent, or the peer is due for a ping that may find one.
PathExpired(d, i) ==
    LET over == [d EXCEPT !.slot[i].direct = FALSE]
        j == d.slot[i].wg
    IN  Ping(IF IsUp(d, j) THEN ConnectDerp(over, j) ELSE over, i)

Checked(d, i, due) ==
    IF ~d.slot[i].active THEN d
    ELSE IF d.slot[i].direct /\ d.slot[i].trust = 0 THEN PathExpired(d, i)
    ELSE IF d.slot[i].direct THEN Ping([d EXCEPT !.slot[i].trust = @ - 1], i)
    ELSE IF i \in due THEN Ping(d, i) ELSE d

\* disco_periodic_probes: all peers, then the probes that got no answer in time.
PeriodicProbes ==
    /\ \E due \in SUBSET Indices, late \in SUBSET {n \in Probes : dev.probe[n].slot # 0} :
        LET after[i \in 0..MaxPeers] == IF i = 0 THEN dev ELSE Checked(after[i - 1], i, due)
        IN  dev' = Freed(after[MaxPeers], late)
    /\ UNCHANGED <<open, count>>

(***************************************************************************)
(* ml_wg_mgr_trigger_handshake, in the task of the caller.                 *)
(***************************************************************************)
TriggerHandshake(k) ==
    /\ \E i \in Holding(dev, k) :
        LET j == dev.slot[i].wg
            relayed == ConnectDerp(dev, j)
        IN  /\ j # 0 /\ ~IsUp(dev, j)
            /\ dev' = IF dev.slot[i].best = NoKey THEN relayed
                      ELSE Connect(relayed, j, dev.slot[i].best)
    /\ UNCHANGED <<open, count>>

(***************************************************************************)
(* The environment: sessions, and the network.                             *)
(***************************************************************************)
\* An authenticated packet of the peer; one that came directly moves the
\* endpoint (update_peer_addr).
Authenticated(j) ==
    /\ Valid(dev, j)
    /\ \E ip \in {dev.wg[j].ip} \cup ({dev.wg[j].key} \cap open) :
        dev' = [dev EXCEPT !.wg[j].session = TRUE, !.wg[j].ip = ip]
    /\ UNCHANGED <<open, count>>

\* The keypairs expire.  (should_reset_peer, which would move the endpoint, has
\* nothing left to do after should_destroy_current_keypair.)
SessionEnds(j) ==
    /\ IsUp(dev, j) /\ dev' = [dev EXCEPT !.wg[j].session = FALSE]
    /\ UNCHANGED <<open, count>>

Blocked(k) ==
    /\ k \in open /\ count.blocks < MaxBlocks /\ Counted("blocks")
    /\ open' = open \ {k}
    /\ dev' = [dev EXCEPT !.answers = {a \in @ : a.via = "derp" \/ dev.probe[a.probe].to # k}]

WgMgr ==
    \/ PeriodicProbes
    \/ \E a \in dev.answers : Pong(a)
    \/ \E k \in Keys : AddPeer(k) \/ RemovePeer(k) \/ CallMeMaybe(k)

PathsNext ==
    \/ WgMgr
    \/ \E k \in Keys : TriggerHandshake(k) \/ Blocked(k)
    \/ \E j \in Indices : Authenticated(j) \/ SessionEnds(j)

PathsSpec == PathsInit /\ [][PathsNext]_pathsVars
\* The periodic work of the task is done again and again.
PathsFairSpec == PathsSpec /\ WF_pathsVars(PeriodicProbes)
-----------------------------------------------------------------------------
\* Types and bounds.
PathsTypeOK ==
    /\ dev.slot \in [Indices -> [key : Keys \cup {NoKey}, active : BOOLEAN, direct : BOOLEAN,
                                 trust : 0..Trust, best : Keys \cup {NoKey}, tried : BOOLEAN,
                                 wg : {0} \cup Indices]]
    /\ dev.wg \in [Indices -> [key : Keys \cup {NoKey}, ip : Keys \cup {NoKey},
                               session : BOOLEAN, active : BOOLEAN]]
    /\ dev.probe \in [Probes -> [slot : {0} \cup Indices, to : Keys \cup {NoKey}]]
    /\ dev.answers \subseteq
          [probe : {n \in Probes : dev.probe[n].slot # 0}, via : {"derp", "direct"}]
    /\ open \subseteq Keys
    /\ count \in [updates : 0..MaxUpdates, blocks : 0..MaxBlocks]

\* The table and WireGuard name the same peers: an active slot points to the
\* WireGuard peer with its key, and every WireGuard peer is some slot's, so no
\* removed peer keeps its keys and its session.
TablesAgree ==
    /\ \A i \in ActiveSlots(dev) :
        dev.slot[i].wg # 0 => dev.wg[dev.slot[i].wg].key = dev.slot[i].key
    /\ \A j \in Indices : Valid(dev, j) => \E i \in ActiveSlots(dev) : dev.slot[i].wg = j

\* The two tables of peers are well formed and agree.
PeersAgree == PathsTypeOK /\ TablesAgree

Foreign(p) == p.ip \notin {NoKey, p.key}
\* A probe whose slot no longer belongs to the peer that was pinged.
Misplaced(n) ==
    LET p == dev.probe[n]
    IN  p.slot # 0 /\ ~(dev.slot[p.slot].active /\ dev.slot[p.slot].key = p.to)

\* The endpoint of a peer becomes the address of another only while some probe
\* is out whose slot was taken over meanwhile (any one, and not only the one
\* that is answered), or by the path such an answer has left in the slot.
OnlyReuseMisleads ==
    [][\A j \in Indices : Foreign(dev'.wg[j]) /\ dev'.wg[j] # dev.wg[j] =>
        \/ Foreign(dev.wg[j]) /\ dev.wg[j].ip = dev'.wg[j].ip
        \/ \E n \in Probes : Misplaced(n)
        \/ \E i \in ActiveSlots(dev) :
              dev.slot[i].wg = j /\ dev.slot[i].best = dev'.wg[j].ip]_pathsVars

\* No peer is left retrying its handshake for ever unless it had a session or
\* the application asked for one, whichever way its path was found.
NoEndlessRetries ==
    [][\A j \in Indices : ~dev.wg[j].active /\ dev'.wg[j].active =>
        dev.wg[j].session \/ \E k \in Keys : TriggerHandshake(k)]_pathsVars

\* ml_wg_mgr.c:1427 "expired, reverting to DERP": when the direct way to a peer
\* with a session stays blocked, its packets end up going by the relay.
Reachable(k) ==
    \E i \in Holding(dev, k) : IsUp(dev, dev.slot[i].wg)
ByRelay(k) ==
    \A i \in Holding(dev, k) : Valid(dev, dev.slot[i].wg) => dev.wg[dev.slot[i].wg].ip = NoKey
\* The code does not keep it: see Findings in README.md.
ReturnsToRelay ==
    \A k \in Keys : <>[](k \notin open /\ Reachable(k)) => <>[]ByRelay(k)
=============================================================================
