------------------------------- MODULE MlPeers ------------------------------
(***************************************************************************)
(* How the table of peers follows the control server: map responses parsed *)
(* by ml_coord.c into peer_update_queue, the queue emptied by the task     *)
(* wg_mgr (ml_wg_mgr.c) into the slots of ml->peers, and the cache of      *)
(* ml_peer_nvs.c that fills the slots again after a reboot.                *)
(*                                                                         *)
(* A peer is its node key.  IpOf gives the key its VPN address: a node     *)
(* that changes its key keeps the address.  The server is external; it     *)
(* sends a full list on a new stream and deltas on it.  Endpoints, names   *)
(* and regions, which also travel in the updates, are not modelled, nor    *)
(* is what a slot knows of the path (MlPaths).                             *)
(***************************************************************************)
EXTENDS Naturals, Sequences, SequencesExt, Functions, FiniteSetsExt

CONSTANTS Keys, IpOf(_),
          NoKey,      \* a slot that is not active
          PriorityIp, \* priority_peer_ip, or no address
          MaxPeers,   \* ML_MAX_PEERS (8)
          CacheSize,  \* ML_NVS_MAX_PEERS (16)
          QueueDepth, \* ML_PEER_UPDATE_QUEUE_DEPTH (400)
          ClockSize,  \* values of lru_clock (2^16)
          ClockWraps, \* bound: FALSE stops the model before the clock wraps
          MaxChanges, \* bound: changes of the server's list
          MaxBreaks   \* bound: lost streams and reboots

ASSUME PeersAssumption ==
    /\ NoKey \notin Keys
    /\ {MaxPeers, CacheSize, QueueDepth, ClockSize} \subseteq Nat \ {0}
    /\ {MaxChanges, MaxBreaks} \subseteq Nat /\ ClockWraps \in BOOLEAN

VARIABLES server, \* the peers the server knows
          online, \* a stream of map responses is open
          queue,  \* peer_update_queue
          table,  \* ml->peers and ml->peer_count
          cache,  \* the entries and the clock in NVS
          count,  \* changes and breaks so far
          unsure, \* history: the peers about which an update went missing
          since   \* history: the addresses saved since each was, itself among them

peersVars == <<server, online, queue, table, cache, count, unsure, since>>

Ips == {IpOf(k) : k \in Keys}
Slots == 1..MaxPeers
Active(t) == {i \in Slots : t.slot[i] # NoKey}
Held(t) == {t.slot[i] : i \in Active(t)}

PeersInit ==
    /\ server = {} /\ online = FALSE /\ queue = <<>>
    /\ table = [slot |-> [i \in Slots |-> NoKey], count |-> 0]
    /\ cache = [entry |-> <<>>, clock |-> 0]
    /\ count = [changes |-> 0, breaks |-> 0]
    /\ unsure = {} /\ since = [ip \in Ips |-> {}]
-----------------------------------------------------------------------------
(***************************************************************************)
(* The server, and parse_peers_from_map_response in the coordination task. *)
(***************************************************************************)
Update(do, k) == [do |-> do, key |-> k]

\* What the queue has no room for is dropped.
Enqueued(updates) ==
    LET all == queue \o updates
    IN  SubSeq(all, 1, IF Len(all) < QueueDepth THEN Len(all) ELSE QueueDepth)
Dropped(updates) ==
    {(queue \o updates)[n].key : n \in QueueDepth + 1..Len(queue) + Len(updates)}

Parse(updates) ==
    /\ queue' = Enqueued(updates)
    /\ unsure' = (unsure \ {updates[n].key : n \in DOMAIN updates}) \cup Dropped(updates)

\* A change of the list: with no stream the device learns nothing.
Announce(updates) ==
    IF online THEN Parse(updates)
    ELSE UNCHANGED queue /\ unsure' = unsure \cup {updates[n].key : n \in DOMAIN updates}

Changed(list) ==
    /\ count.changes < MaxChanges /\ server' = list
    /\ count' = [count EXCEPT !.changes = @ + 1]
    /\ UNCHANGED <<online, table, cache, since>>

\* A node joins, or returns with another key: the response names the changed
\* first and the removed after them.
Joins(k) ==
    /\ k \notin server
    /\ LET gone == {j \in server : IpOf(j) = IpOf(k)}
           removed == SetToSeq({Update("remove", j) : j \in gone})
       IN  /\ Changed((server \ gone) \cup {k})
           /\ Announce(<<Update("add", k)>> \o removed)

Leaves(k) ==
    /\ k \in server /\ Changed(server \ {k}) /\ Announce(<<Update("remove", k)>>)

Orders(list) == {q \in [1..Cardinality(list) -> list] : IsInjective(q)}

\* do_fetch_peers: a full list, which is read as additions.
ReceiveList ==
    /\ ~online /\ online' = TRUE
    /\ \E q \in Orders(server) : Parse([n \in DOMAIN q |-> Update("add", q[n])])
    /\ UNCHANGED <<server, table, cache, count, since>>

LosesStream ==
    /\ online /\ online' = FALSE /\ count.breaks < MaxBreaks
    /\ count' = [count EXCEPT !.breaks = @ + 1]
    /\ UNCHANGED <<server, queue, table, cache, unsure, since>>
-----------------------------------------------------------------------------
(***************************************************************************)
(* ml_peer_nvs.c.                                                          *)
(***************************************************************************)
Stamped(clock) == (clock + 1) % ClockSize

\* Mutant: an entry is known by the key alone.
SlotOfEntry_ByKeyOnly(entry, k) ==
    LET same == {n \in DOMAIN entry : entry[n].key = k}
    IN  IF same # {} THEN CHOOSE n \in same : TRUE
        ELSE IF Len(entry) < CacheSize THEN Len(entry) + 1 ELSE 1

\* The entry of the same address or key; else a new one; else the entry with
\* the lowest counter, the first of them.
SlotOfEntry(entry, k) ==
    LET same == {n \in DOMAIN entry : IpOf(entry[n].key) = IpOf(k)}
        Least(n) == \A m \in DOMAIN entry :
            entry[n].used < entry[m].used \/ (entry[n].used = entry[m].used /\ n <= m)
    IN  IF same # {} THEN CHOOSE n \in same : \A m \in same : n <= m
        ELSE IF Len(entry) < CacheSize THEN Len(entry) + 1
        ELSE CHOOSE n \in DOMAIN entry : Least(n)

\* ml_peer_nvs_save.
Save(c, k) ==
    LET new == [key |-> k, used |-> Stamped(c.clock)]
        n == SlotOfEntry(c.entry, k)
    IN  [entry |-> IF n > Len(c.entry) THEN Append(c.entry, new) ELSE [c.entry EXCEPT ![n] = new],
         clock |-> Stamped(c.clock)]

\* ml_peer_nvs_load_all, into the slots in the order of the cache.
Loaded ==
    LET n == IF Len(cache.entry) < MaxPeers THEN Len(cache.entry) ELSE MaxPeers
    IN  [slot |-> [i \in Slots |-> IF i <= n THEN cache.entry[i].key ELSE NoKey], count |-> n]

\* The device starts again, with what is in NVS.
Reboot ==
    /\ count.breaks < MaxBreaks /\ count' = [count EXCEPT !.breaks = @ + 1]
    /\ online' = FALSE /\ queue' = <<>> /\ table' = Loaded
    /\ unsure' = {k \in Keys : (k \in Held(Loaded)) # (k \in server)}
    /\ UNCHANGED <<server, cache, since>>
-----------------------------------------------------------------------------
(***************************************************************************)
(* process_peer_updates in wg_mgr.                                         *)
(***************************************************************************)
\* Mutant: the peer is known by its address, as in find_peer_by_ip.
Found_ByIp(t, k) ==
    {i \in Active(t) : i <= t.count /\ IpOf(t.slot[i]) = IpOf(k)}

\* The first peer_count slots are searched for a key.
Found(t, k) == {i \in Active(t) : i <= t.count /\ t.slot[i] = k}
Free(t) == Slots \ Active(t)

\* For the peer of the priority address the slot of another is taken; which
\* one, the times of the last pongs decide.
Evictable(t, k) ==
    IF IpOf(k) = PriorityIp THEN {i \in Slots : IpOf(t.slot[i]) # PriorityIp} ELSE {}

\* The slots the peer may get: its own, the first free one, another's, none.
SlotsFor(t, k) ==
    IF Found(t, k) # {} THEN Found(t, k)
    ELSE IF Free(t) # {} THEN {i \in Free(t) : \A j \in Free(t) : i <= j}
    ELSE Evictable(t, k)

Placed(t, k, i) ==
    [slot |-> [t.slot EXCEPT ![i] = k], count |-> IF i > t.count THEN i ELSE t.count]

Saved(k) ==
    /\ cache' = Save(cache, k)
    /\ since' = [ip \in Ips |-> IF ip = IpOf(k) THEN {ip}
                               ELSE IF since[ip] = {} THEN {} ELSE since[ip] \cup {IpOf(k)}]

\* add_peer.
AddPeer(k) ==
    /\ ClockWraps \/ cache.clock < ClockSize - 1
    /\ \/ \E i \in SlotsFor(table, k) :
            /\ table' = Placed(table, k, i) /\ Saved(k)
            /\ unsure' = unsure \cup ({table.slot[i]} \ {k, NoKey})
       \/ /\ SlotsFor(table, k) = {} /\ unsure' = unsure \cup {k}
          /\ UNCHANGED <<table, cache, since>>

\* Mutant: one slot less, so one peer less.
Compacted_ByOne(slot, count0) == [slot |-> slot, count |-> count0 - 1]

\* remove_peer, with the count brought down to the last active slot.
Compacted(slot, count0) ==
    LET used == {i \in 1..count0 : slot[i] # NoKey}
    IN  [slot |-> slot, count |-> IF used = {} THEN 0 ELSE Max(used)]

RemovePeer(k) ==
    /\ table' = IF Found(table, k) = {} THEN table
                ELSE LET i == CHOOSE i \in Found(table, k) : TRUE
                     IN  Compacted([table.slot EXCEPT ![i] = NoKey], table.count)
    /\ UNCHANGED <<cache, unsure, since>>

ProcessUpdate ==
    /\ queue # <<>> /\ queue' = Tail(queue)
    /\ LET u == Head(queue)
       IN  IF u.do = "add" THEN AddPeer(u.key) ELSE RemovePeer(u.key)
    /\ UNCHANGED <<server, online, count>>

PeersNext ==
    \/ ReceiveList \/ LosesStream \/ Reboot \/ ProcessUpdate
    \/ \E k \in Keys : Joins(k) \/ Leaves(k)

PeersSpec == PeersInit /\ [][PeersNext]_peersVars
-----------------------------------------------------------------------------
\* Types and bounds.
PeersTypeOK ==
    /\ server \subseteq Keys /\ online \in BOOLEAN
    /\ queue \in Seq([do : {"add", "remove"}, key : Keys]) /\ Len(queue) <= QueueDepth
    /\ table \in [slot : [Slots -> Keys \cup {NoKey}], count : 0..MaxPeers]
    /\ cache.clock \in 0..ClockSize - 1 /\ Len(cache.entry) <= CacheSize
    /\ cache.entry \in Seq([key : Keys, used : 0..ClockSize - 1])
    /\ count \in [changes : 0..MaxChanges, breaks : 0..MaxBreaks]
    /\ unsure \subseteq Keys /\ since \in [Ips -> SUBSET Ips]

\* Every active slot lies within peer_count, where all the searches look, and
\* no key has two slots: else one peer would answer for the other's packets.
AllAreFound ==
    /\ Active(table) \subseteq 1..table.count
    /\ \A i, j \in Active(table) : table.slot[i] = table.slot[j] => i = j

\* The table is well formed and every peer in it is found.
TableIsWhole == PeersTypeOK /\ AllAreFound

\* Once the queue is empty, the table and the server agree about every peer of
\* which no update was missed: nothing else is lost, swapped or resurrected on
\* the way through responses, queue, evictions and removals.
TableFollows ==
    queue = <<>> => \A k \in Keys \ unsure : k \in Held(table) <=> k \in server

\* The cache holds the addresses saved last, one entry each, as many as fit: one
\* that was saved and is not there was saved before all that are, and the cache
\* is full.  It is what the peers of the next boot are taken from.
CacheIsRecent ==
    LET kept == {IpOf(cache.entry[n].key) : n \in DOMAIN cache.entry}
    IN  /\ \A m, n \in DOMAIN cache.entry :
              IpOf(cache.entry[m].key) = IpOf(cache.entry[n].key) => m = n
        /\ \A ip \in kept : since[ip] # {}
        /\ \A ip \in Ips \ kept :
              since[ip] # {} => Len(cache.entry) = CacheSize /\ kept \subseteq since[ip]
=============================================================================
