-------------------------- MODULE WgSession_proofs --------------------------
(***************************************************************************)
(* Theorems about WgReplay and WgSession: the replay window for every      *)
(* window, word width and order of arrival, and two devices for any        *)
(* clocks, restarts, packets and messages the network lost, repeated or    *)
(* reordered.                                                              *)
(*                                                                         *)
(* What the two ends agree on rests on which messages are on record: net   *)
(* only grows, every index is drawn once, and every keypair is rooted in a *)
(* response.  The invariant has a part for each of the properties:         *)
(* SessionInv for the keys, PacketInv and CounterInv for the nonces,       *)
(* DeliveryInv for the window, InitiationInv for the timestamps.           *)
(***************************************************************************)
EXTENDS WgSession, TLAPS

(***************************************************************************)
(* The replay window.  While no counter reaches Modulus (2^32) the bitmap  *)
(* remembers exactly which of the last Window packets were accepted.       *)
(* Beyond it a distance is cut to 32 bits and nothing is claimed: a        *)
(* counter 2^32 below the newest would look like a recent one.             *)
(***************************************************************************)
\* The sequence numbers there are: the counter of a packet plus one.
Sequence == Nat \ {0}

\* The window w of a receiver that has accepted the packets of accepted.
Remembers(w, accepted) ==
    /\ w \in Windows
    /\ \A s \in accepted : s <= w.counter
    /\ \A s \in Sequence : s <= w.counter /\ w.counter - s < Window =>
          (w.counter - s \in w.bitmap <=> s \in accepted)

\* A distance below the word width is not cut.
LEMMA DistanceIsExact ==
  ASSUME NEW high \in Nat, NEW low \in Nat, low <= high, high - low < Modulus
  PROVE  Distance(high, low) = high - low
  <1>1. Modulus \in Nat /\ high - low \in 0 .. Modulus - 1
    BY WindowAssumption
  <1> QED
    BY <1>1, SMTT(30) DEF Distance

\* A new keypair has accepted nothing.
LEMMA EmptyRemembersNothing == Remembers(EmptyWindow, {})
  BY WindowAssumption DEF Remembers, EmptyWindow, Windows, Sequence

\* What the window accepts it had not accepted before, and what lies within it
\* and was not accepted yet it accepts: a packet is dropped only for being a
\* duplicate or too old (wireguard_check_replay).
THEOREM FreshMeansNew ==
  ASSUME NEW accepted \in SUBSET Sequence, NEW w, Remembers(w, accepted),
         NEW seq \in Sequence, w.counter < Modulus
  PROVE  /\ Fresh(w, seq) => seq \notin accepted
         /\ seq \notin accepted /\ seq + Window > w.counter => Fresh(w, seq)
  <1>1. w.counter \in Nat /\ seq \in Nat /\ seq >= 1
    BY DEF Remembers, Windows, Sequence
  <1>2. CASE seq > w.counter
    BY <1>1, <1>2 DEF Fresh, Remembers
  <1>3. CASE seq <= w.counter
    <2>1. Distance(w.counter, seq) = w.counter - seq
      BY <1>1, <1>3, WindowAssumption, DistanceIsExact
    <2>2. Fresh(w, seq) <=> w.counter - seq < Window /\ w.counter - seq \notin w.bitmap
      BY <1>1, <1>3, <2>1 DEF Fresh
    <2>3. w.counter - seq < Window => (w.counter - seq \in w.bitmap <=> seq \in accepted)
      BY <1>3 DEF Remembers
    <2> QED
      BY <1>1, <2>2, <2>3, WindowAssumption
  <1> QED
    BY <1>1, <1>2, <1>3

\* The window after a new packet remembers that one too, and after any other
\* packet it is the same: what FreshMeansNew says holds for a whole session.
THEOREM WindowRemembers ==
  ASSUME NEW accepted \in SUBSET Sequence, NEW w, Remembers(w, accepted),
         NEW seq \in Sequence, w.counter < Modulus, seq < Modulus
  PROVE  /\ ~ Fresh(w, seq) => Remembers(Checked(w, seq), accepted)
         /\ Fresh(w, seq) => Remembers(Checked(w, seq), accepted \cup {seq})
  <1>1. /\ w = [counter |-> w.counter, bitmap |-> w.bitmap]
        /\ w.counter \in Nat /\ w.bitmap \in SUBSET (0 .. Window - 1)
        /\ seq \in Nat /\ seq >= 1
        /\ Window \in Nat \ {0} /\ Modulus \in Nat
    BY WindowAssumption DEF Remembers, Windows, Sequence
  <1>2. /\ \A s \in accepted : s <= w.counter /\ s \in Sequence
        /\ \A s \in Sequence : s <= w.counter /\ w.counter - s < Window =>
              (w.counter - s \in w.bitmap <=> s \in accepted)
    BY DEF Remembers
  <1>3. CASE ~ Fresh(w, seq)
    <2>1. ~ (seq > w.counter)
      BY <1>3 DEF Fresh
    <2>2. Checked(w, seq) = w
      BY <1>3, <2>1 DEF Checked
    <2> QED
      BY <1>3, <2>2
  <1>4. CASE seq > w.counter
    <2> DEFINE d == seq - w.counter
               bits == IF d < Window THEN ShiftLeft(w.bitmap, d) \cup {0} ELSE {0}
    <2>1. Fresh(w, seq)
      BY <1>4 DEF Fresh
    <2>2. d \in Nat /\ d >= 1 /\ Distance(seq, w.counter) = d
      BY <1>1, <1>4, DistanceIsExact
    <2>3. Checked(w, seq) = [counter |-> seq, bitmap |-> bits]
      BY <1>4, <2>1, <2>2 DEF Checked, Advance
    <2>4. bits \in SUBSET (0 .. Window - 1)
      <3>1. ShiftLeft(w.bitmap, d) \subseteq 0 .. Window - 1
        BY <1>1, <2>2 DEF ShiftLeft
      <3> QED
        BY <1>1, <3>1
    <2>5. \A s \in accepted \cup {seq} : s <= seq
      BY <1>1, <1>2, <1>4 DEF Sequence
    <2>6. ASSUME NEW s \in Sequence, s <= seq, seq - s < Window
          PROVE  seq - s \in bits <=> s \in accepted \cup {seq}
      <3>1. s \in Nat /\ s >= 1 /\ seq - s \in 0 .. Window - 1
        BY <1>1, <2>6 DEF Sequence
      <3>2. CASE s = seq
        BY <1>1, <3>2
      <3>3. CASE s # seq /\ s > w.counter
        <4>1. s \notin accepted
          BY <1>1, <1>2, <3>1, <3>3
        <4>2. seq - s # 0 /\ ~ (seq - s >= d)
          BY <1>1, <3>1, <3>3
        <4>3. seq - s \notin ShiftLeft(w.bitmap, d)
          BY <1>1, <2>2, <3>1, <4>2 DEF ShiftLeft
        <4> QED
          BY <3>3, <4>1, <4>2, <4>3
      <3>4. CASE s <= w.counter
        <4>1. d < Window /\ seq - s \in d .. Window - 1 /\ seq - s # 0
          BY <1>1, <1>4, <2>2, <3>1, <3>4
        <4>2. (seq - s) - d = w.counter - s /\ w.counter - s < Window
          BY <1>1, <2>2, <3>1, <4>1
        <4>3. seq - s \in bits <=> w.counter - s \in w.bitmap
          BY <4>1, <4>2 DEF ShiftLeft
        <4>4. s # seq
          BY <1>1, <1>4, <3>1, <3>4
        <4> QED
          BY <1>2, <3>4, <4>2, <4>3, <4>4
      <3> QED
        BY <1>1, <3>1, <3>2, <3>3, <3>4
    <2> HIDE DEF bits
    <2>7. Remembers([counter |-> seq, bitmap |-> bits], accepted \cup {seq})
      BY <1>1, <2>4, <2>5, <2>6 DEF Remembers, Windows
    <2> QED
      BY <2>1, <2>3, <2>7
  <1>5. CASE Fresh(w, seq) /\ seq <= w.counter
    <2> DEFINE d == w.counter - seq
               bits == w.bitmap \cup {d}
    <2>1. d \in Nat /\ Distance(w.counter, seq) = d
      BY <1>1, <1>5, DistanceIsExact
    <2>2. d < Window
      BY <1>1, <1>5, <2>1 DEF Fresh
    <2>3. Checked(w, seq) = [counter |-> w.counter, bitmap |-> bits]
      <3>1. Checked(w, seq) = [w EXCEPT !.bitmap = @ \cup {d}]
        BY <1>1, <1>5, <2>1 DEF Checked, Mark
      <3> QED
        BY <1>1, <3>1
    <2>4. bits \in SUBSET (0 .. Window - 1)
      BY <1>1, <2>1, <2>2
    <2>5. \A s \in accepted \cup {seq} : s <= w.counter
      BY <1>2, <1>5
    <2>6. ASSUME NEW s \in Sequence, s <= w.counter, w.counter - s < Window
          PROVE  w.counter - s \in bits <=> s \in accepted \cup {seq}
      <3>1. s \in Nat /\ (w.counter - s = d <=> s = seq)
        BY <1>1 DEF Sequence
      <3> QED
        BY <1>2, <2>6, <3>1
    <2> HIDE DEF bits
    <2>7. Remembers([counter |-> w.counter, bitmap |-> bits], accepted \cup {seq})
      BY <1>1, <2>4, <2>5, <2>6 DEF Remembers, Windows
    <2> QED
      BY <1>5, <2>3, <2>7
  <1> QED
    BY <1>1, <1>3, <1>4, <1>5

\* The window after a packet, by cases.
LEMMA CheckedCases ==
  ASSUME NEW w \in Windows, NEW seq \in Sequence
  PROVE  /\ w.counter \in Nat /\ w.bitmap \in SUBSET (0 .. Window - 1)
         /\ seq \in Nat /\ seq >= 1 /\ Window \in Nat /\ Window >= 1 /\ Modulus \in Nat
         /\ ~ Fresh(w, seq) => Checked(w, seq) = w
         /\ seq > w.counter =>
               /\ Checked(w, seq).counter = seq
               /\ Checked(w, seq).bitmap =
                     IF Distance(seq, w.counter) < Window
                     THEN ShiftLeft(w.bitmap, Distance(seq, w.counter)) \cup {0} ELSE {0}
         /\ Fresh(w, seq) /\ ~ (seq > w.counter) =>
               /\ Checked(w, seq).counter = w.counter
               /\ Checked(w, seq).bitmap = w.bitmap \cup {Distance(w.counter, seq)}
  <1>1. /\ w = [counter |-> w.counter, bitmap |-> w.bitmap]
        /\ w.counter \in Nat /\ w.bitmap \in SUBSET (0 .. Window - 1)
        /\ seq \in Nat /\ seq >= 1 /\ Window \in Nat /\ Window >= 1 /\ Modulus \in Nat
    BY WindowAssumption DEF Windows, Sequence
  <1>2. ~ Fresh(w, seq) => Checked(w, seq) = w
    <2>1. ~ Fresh(w, seq) => ~ (seq > w.counter)
      BY DEF Fresh
    <2> QED
      BY <2>1 DEF Checked
  <1>3. seq > w.counter => Fresh(w, seq) /\ Checked(w, seq) = Advance(w, seq)
    BY <1>1 DEF Checked, Fresh
  <1>4. Fresh(w, seq) /\ ~ (seq > w.counter) => Checked(w, seq) = Mark(w, seq)
    BY <1>1 DEF Checked
  <1>5. /\ Advance(w, seq).counter = seq
        /\ Advance(w, seq).bitmap =
              IF Distance(seq, w.counter) < Window
              THEN ShiftLeft(w.bitmap, Distance(seq, w.counter)) \cup {0} ELSE {0}
    BY DEF Advance
  <1>6. /\ Mark(w, seq).counter = w.counter
        /\ Mark(w, seq).bitmap = w.bitmap \cup {Distance(w.counter, seq)}
    BY <1>1 DEF Mark
  <1> QED
    BY <1>1, <1>2, <1>3, <1>4, <1>5, <1>6

\* What the window has accepted or left behind stays refused.
LEMMA StaleStaysStale ==
  ASSUME NEW w \in Windows, NEW s \in Sequence, NEW seq \in Sequence,
         w.counter < Modulus, seq < Modulus, ~ Fresh(w, s)
  PROVE  ~ Fresh(Checked(w, seq), s)
  <1>1. /\ w.counter \in Nat /\ w.bitmap \in SUBSET (0 .. Window - 1)
        /\ seq \in Nat /\ seq >= 1 /\ s \in Nat /\ s >= 1
        /\ Window \in Nat /\ Window >= 1 /\ Modulus \in Nat
    BY CheckedCases DEF Sequence
  <1>2. /\ s <= w.counter /\ Distance(w.counter, s) = w.counter - s
        /\ w.counter - s < Window => w.counter - s \in w.bitmap
    <2>1. s <= w.counter
      BY <1>1 DEF Fresh
    <2>2. Distance(w.counter, s) = w.counter - s
      BY <1>1, <2>1, DistanceIsExact
    <2> QED
      BY <1>1, <2>1, <2>2 DEF Fresh
  <1>3. CASE ~ Fresh(w, seq)
    BY <1>3, CheckedCases
  <1>4. CASE seq > w.counter
    <2> DEFINE v == Checked(w, seq)
    <2>1. Distance(seq, w.counter) = seq - w.counter
      BY <1>1, <1>4, DistanceIsExact
    <2>2. /\ v.counter = seq
          /\ v.bitmap = IF seq - w.counter < Window
                        THEN ShiftLeft(w.bitmap, seq - w.counter) \cup {0} ELSE {0}
      <3>1. /\ v.counter = seq
            /\ v.bitmap = IF Distance(seq, w.counter) < Window
                          THEN ShiftLeft(w.bitmap, Distance(seq, w.counter)) \cup {0}
                          ELSE {0}
        BY <1>4, CheckedCases
      <3> QED
        BY <2>1, <3>1
    <2>3. s <= seq /\ seq - s < Modulus
      BY <1>1, <1>2, <1>4
    <2>5. Distance(seq, s) = seq - s
      BY <1>1, <2>3, DistanceIsExact
    <2>4. ASSUME seq - s < Window PROVE seq - s \in v.bitmap
      <3>1. seq - w.counter < Window /\ seq - s \in (seq - w.counter) .. Window - 1
        BY <1>1, <1>2, <1>4, <2>4
      <3>2. (seq - s) - (seq - w.counter) \in w.bitmap
        BY <1>1, <1>2, <1>4, <2>4
      <3> QED
        BY <2>2, <3>1, <3>2 DEF ShiftLeft
    <2> HIDE DEF v
    <2> QED
      BY <1>1, <2>2, <2>3, <2>4, <2>5 DEF Fresh, v
  <1>5. CASE Fresh(w, seq) /\ ~ (seq > w.counter)
    <2>1. /\ Checked(w, seq).counter = w.counter
          /\ Checked(w, seq).bitmap = w.bitmap \cup {Distance(w.counter, seq)}
      BY <1>5, CheckedCases
    <2> QED
      BY <1>1, <1>2, <2>1 DEF Fresh
  <1> QED
    BY <1>3, <1>4, <1>5

\* What the window has just looked at is refused from then on.
LEMMA CheckedIsStale ==
  ASSUME NEW w \in Windows, NEW seq \in Sequence
  PROVE  ~ Fresh(Checked(w, seq), seq)
  <1>1. /\ w.counter \in Nat /\ seq \in Nat
        /\ Window \in Nat /\ Window >= 1 /\ Modulus \in Nat
    BY CheckedCases
  <1>2. CASE ~ Fresh(w, seq)
    BY <1>2, CheckedCases
  <1>3. CASE seq > w.counter
    <2>1. /\ Checked(w, seq).counter = seq
          /\ Checked(w, seq).bitmap =
                IF Distance(seq, w.counter) < Window
                THEN ShiftLeft(w.bitmap, Distance(seq, w.counter)) \cup {0} ELSE {0}
      BY <1>3, CheckedCases
    <2>3. 0 \in Checked(w, seq).bitmap
      BY <2>1
    <2>2. Distance(seq, seq) = 0
      BY <1>1, DistanceIsExact, WindowAssumption
    <2> QED
      BY <1>1, <2>1, <2>2, <2>3 DEF Fresh
  <1>4. CASE Fresh(w, seq) /\ ~ (seq > w.counter)
    <2>1. /\ Checked(w, seq).counter = w.counter
          /\ Checked(w, seq).bitmap = w.bitmap \cup {Distance(w.counter, seq)}
      BY <1>4, CheckedCases
    <2>2. ~ (seq > Checked(w, seq).counter)
      BY <1>4, <2>1
    <2>3. Distance(Checked(w, seq).counter, seq) \in Checked(w, seq).bitmap
      BY <2>1
    <2> QED
      BY <2>2, <2>3 DEF Fresh
  <1> QED
    BY <1>2, <1>3, <1>4

LEMMA CheckedType ==
  ASSUME NEW w \in Windows, NEW seq \in Sequence
  PROVE  /\ Checked(w, seq) \in Windows
         /\ Checked(w, seq).counter \in {w.counter, seq}
  <1>1. /\ w.counter \in Nat /\ w.bitmap \in SUBSET (0 .. Window - 1)
        /\ seq \in Nat /\ Window \in Nat /\ Window >= 1 /\ Modulus \in Nat
    BY CheckedCases
  <1>2. CASE ~ Fresh(w, seq)
    BY <1>2, CheckedCases
  <1>3. CASE seq > w.counter
    <2>1. Checked(w, seq) = Advance(w, seq)
      BY <1>1, <1>3 DEF Checked, Fresh
    <2>2. ShiftLeft(w.bitmap, Distance(seq, w.counter)) \subseteq 0 .. Window - 1
      <3>1. Distance(seq, w.counter) \in Nat
        BY <1>1, <1>3, WindowAssumption, SMTT(30) DEF Distance
      <3> QED
        BY <1>1, <3>1 DEF ShiftLeft
    <2> QED
      BY <1>1, <2>1, <2>2 DEF Advance, Windows
  <1>4. CASE Fresh(w, seq) /\ ~ (seq > w.counter)
    <2>1. Checked(w, seq) = Mark(w, seq)
      BY <1>1, <1>4 DEF Checked
    <2>2. Distance(w.counter, seq) \in 0 .. Window - 1
      <3>1. Distance(w.counter, seq) \in Nat
        BY <1>1, <1>4, WindowAssumption, SMTT(30) DEF Distance
      <3>2. Distance(w.counter, seq) < Window
        BY <1>4 DEF Fresh
      <3> QED
        BY <1>1, <3>1, <3>2
    <2> QED
      BY <1>1, <2>1, <2>2 DEF Mark, Windows
  <1> QED
    BY <1>2, <1>3, <1>4
-----------------------------------------------------------------------------
(***************************************************************************)
(* The invariant.  Its parts speak of a set of messages N, the packets R   *)
(* whose keypair changed under way, and a device n with its peer p, so     *)
(* that each of the helpers a call is made of has a lemma of its own.      *)
(***************************************************************************)
InitMessages == [type : {"init"}, to : Node, idx : Nat, ts : Nat, boot : Nat]
RespMessages == [type : {"resp"}, to : Node, idx : Nat, sender : Nat]
DataMessages == [type : {"data"}, to : Node, idx : Nat, key : Nat \X Nat,
                 byInit : BOOLEAN, ctr : Nat, pkt : Nat]
Messages == InitMessages \cup RespMessages \cup DataMessages

InitsOf(N) == {m \in N : m.type = "init"}
RespsOf(N) == {m \in N : m.type = "resp"}
DataOf(N) == {m \in N : m.type = "data"}

TypeInv == TypeOK /\ net \subseteq Messages

\* Every index is drawn once, for one message of one device, and a response
\* answers an initiation of the device it goes to.
HandshakesInv(N, i) ==
    /\ \A e \in InitsOf(N) : e.idx \in 1 .. i
    /\ \A r \in RespsOf(N) : r.sender \in 1 .. i
    /\ \A e, f \in InitsOf(N) : e.idx = f.idx => e.to = f.to
    /\ \A r, t \in RespsOf(N) : r.sender = t.sender => r.to = t.to /\ r.idx = t.idx
    /\ \A e \in InitsOf(N), r \in RespsOf(N) : e.idx # r.sender
    /\ \A r \in RespsOf(N) : \E e \in InitsOf(N) : e.idx = r.idx /\ e.to = Other(r.to)

\* The initiator has sent under the key.
Used(N, key) == \E d \in DataOf(N) : d.byInit /\ d.key = key

\* A packet goes under the key of a response, the initiator uses a key first,
\* and one of its initiations leads to one session only.
DataInv(N) ==
    /\ \A d \in DataOf(N) : \E r \in RespsOf(N) :
          /\ d.key = <<r.idx, r.sender>>
          /\ IF d.byInit THEN r.to = Other(d.to) /\ d.idx = r.sender
                         ELSE r.to = d.to /\ d.idx = r.idx
    /\ \A d \in DataOf(N) : Used(N, d.key)
    /\ \A d, e \in DataOf(N) :
          d.byInit /\ e.byInit /\ d.key[1] = e.key[1] => d.key = e.key

\* A keypair of n comes from a response, got by the initiator, sent by the other.
Rooted(N, n, k) ==
    \E r \in RespsOf(N) :
        /\ k.key = <<r.idx, r.sender>>
        /\ IF k.init THEN r.to = n /\ k.local = r.idx /\ k.remote = r.sender
                     ELSE r.to = Other(n) /\ k.local = r.sender /\ k.remote = r.idx

\* It is in use by the initiator once n may send with it.
Shared(N, k) == k.init \/ k.rx => Used(N, k.key)

\* What n has sent under it has lower counters, or was in the race.
Spent(N, R, n, k) ==
    \A d \in DataOf(N) :
        d.to = Other(n) /\ d.key = k.key /\ d.byInit = k.init
            => d.ctr < k.tx \/ d.pkt \in R

KeypairInv(N, R, n, k) ==
    /\ k.valid => Rooted(N, n, k) /\ Shared(N, k) /\ Spent(N, R, n, k)
    /\ ~ k.valid => k.key = <<0, 0>>

\* The handshake under way is an initiation of n that has no session yet.
HandshakeInv(N, n, h) ==
    h # 0 => /\ \E e \in InitsOf(N) : e.idx = h /\ e.to = Other(n)
             /\ \A d \in DataOf(N) : d.to = Other(n) /\ d.byInit => d.key[1] # h

\* No two slots hold the same session.
SlotsInv(p) ==
    \A s, t \in Slots : p[s].valid /\ p[t].valid /\ p[s].local = p[t].local => s = t

PeerInv(N, R, n, p) ==
    /\ \A s \in Slots : KeypairInv(N, R, n, p[s])
    /\ SlotsInv(p)
    /\ HandshakeInv(N, n, p.handshake)

\* lwIP sends with a copy of a keypair that could send.
SendingInv(N, n, b) ==
    b # Idle => /\ b.k.valid /\ (b.k.init \/ b.k.rx) /\ b.pkt # 0
                /\ Rooted(N, n, b.k) /\ Shared(N, b.k)

SessionInv ==
    /\ HandshakesInv(net, index) /\ DataInv(net)
    /\ \A n \in Node : PeerInv(net, raced, n, peer[n]) /\ SendingInv(net, n, sending[n])
-----------------------------------------------------------------------------
(***************************************************************************)
(* The two devices.                                                        *)
(***************************************************************************)
LEMMA TwoDevices ==
  ASSUME NEW n \in Node
  PROVE  /\ Other(n) \in Node /\ Other(n) # n /\ Other(Other(n)) = n
         /\ \A m \in Node : m # n => m = Other(n)
  <1>1. PICK a, b \in Node : a # b /\ Node = {a, b}
    BY SessionAssumption
  <1>2. \A m \in Node : \E o \in Node : o # m /\ \A x \in Node : x # m => x = o
    BY <1>1
  <1>3. \A m \in Node : Other(m) \in Node /\ Other(m) # m
    BY <1>2 DEF Other
  <1> QED
    BY <1>1, <1>3

LEMMA Numbers ==
  /\ MaxUptime \in Nat /\ MaxUptime >= 1 /\ MaxIndex \in Nat /\ MaxPackets \in Nat /\ MaxRestarts \in Nat
  /\ RekeyAfter \in Nat /\ RekeyAfter >= 1 /\ RejectAfter \in Nat /\ RejectAfter >= 1
  /\ RekeyTimeout \in Nat /\ RekeyTimeout >= 1 /\ Keepalive \in Nat /\ Keepalive >= 1
  BY SessionAssumption

LEMMA MessageKinds ==
  ASSUME NEW m \in Messages
  PROVE  /\ m.type = "init" => m \in InitMessages
         /\ m.type = "resp" => m \in RespMessages
         /\ m.type = "data" => m \in DataMessages
         /\ m.to \in Node
  BY DEF Messages, InitMessages, RespMessages, DataMessages
-----------------------------------------------------------------------------
(***************************************************************************)
(* The types of what the helpers return.                                   *)
(***************************************************************************)
LEMMA ZeroType == ZeroKeypair \in Keypairs /\ NewPeer \in Peers /\ ~ ZeroKeypair.valid
                  /\ ZeroKeypair.key = <<0, 0>> /\ ZeroKeypair.tx = 0
                  /\ ZeroKeypair.window = EmptyWindow /\ ZeroKeypair.window.counter = 0
  <1>1. EmptyWindow \in Windows /\ EmptyWindow.counter = 0
    BY DEF EmptyWindow, Windows
  <1>2. 0 \in 0 .. MaxUptime /\ 0 \in 0 .. MaxIndex
    BY Numbers
  <1>3. ZeroKeypair \in Keypairs
    BY <1>1, <1>2 DEF ZeroKeypair, Keypairs
  <1> QED
    BY <1>1, <1>2, <1>3 DEF NewPeer, Peers, ZeroKeypair

LEMMA DestroyType ==
  ASSUME NEW p \in Peers, NEW s \in Slots
  PROVE  /\ KeypairDestroy(p, s) \in Peers
         /\ KeypairDestroy(p, s)[s] = ZeroKeypair
         /\ \A t \in Slots : t # s => KeypairDestroy(p, s)[t] = p[t]
         /\ KeypairDestroy(p, s).handshake = p.handshake
         /\ KeypairDestroy(p, s).lastTx = p.lastTx
         /\ KeypairDestroy(p, s).greatest = p.greatest
  BY ZeroType DEF KeypairDestroy, Peers, Slots

LEMMA DestroyAllType ==
  ASSUME NEW p \in Peers
  PROVE  /\ DestroyAll(p) \in Peers
         /\ \A t \in Slots : DestroyAll(p)[t] = ZeroKeypair
         /\ DestroyAll(p).handshake = p.handshake
         /\ DestroyAll(p).lastTx = p.lastTx
         /\ DestroyAll(p).greatest = p.greatest
  BY ZeroType DEF DestroyAll, Peers, Slots

\* One counter goes up, and nothing else of a keypair changes.
LEMMA SentSlot ==
  ASSUME TypeOK, NEW n \in Node, NEW p \in Peers, NEW s \in Slots
  PROVE  /\ Sent(n, p, s) \in Peers
         /\ Sent(n, p, s)[s] = [p[s] EXCEPT !.tx = @ + 1]
         /\ \A t \in Slots : t # s => Sent(n, p, s)[t] = p[t]
         /\ Sent(n, p, s).handshake = p.handshake
         /\ Sent(n, p, s).lastTx = uptime[n]
         /\ Sent(n, p, s).greatest = p.greatest
  <1>1. uptime[n] \in 0 .. MaxUptime
    BY Numbers DEF TypeOK
  <1> DEFINE b == p.sendHandshake \/ (p[s].init /\ Expired(n, p[s].born, RekeyAfter))
  <1>2. Sent(n, p, s) = [p EXCEPT ![s].tx = @ + 1, !.lastTx = uptime[n], !.sendHandshake = b]
    BY DEF Sent
  <1>3. b \in BOOLEAN
    OBVIOUS
  <1> HIDE DEF b
  <1>4. p[s] \in Keypairs /\ [p[s] EXCEPT !.tx = @ + 1] \in Keypairs
    BY DEF Peers, Slots, Keypairs
  <1> QED
    BY <1>1, <1>2, <1>3, <1>4 DEF Peers, Slots

LEMMA SentType ==
  ASSUME TypeOK, NEW n \in Node, NEW p \in Peers, NEW s \in Slots
  PROVE  /\ Sent(n, p, s) \in Peers
         /\ Sent(n, p, s).handshake = p.handshake
         /\ Sent(n, p, s).lastTx = uptime[n]
         /\ Sent(n, p, s).greatest = p.greatest
  <1>1. /\ Sent(n, p, s) \in Peers
        /\ Sent(n, p, s)[s] = [p[s] EXCEPT !.tx = @ + 1]
        /\ Sent(n, p, s).handshake = p.handshake
        /\ Sent(n, p, s).lastTx = uptime[n]
        /\ Sent(n, p, s).greatest = p.greatest
    BY SentSlot
  <1> QED
    BY <1>1

LEMMA DataType ==
  ASSUME NEW n \in Node, NEW k \in Keypairs, NEW pkt \in Nat
  PROVE  /\ Data(n, k, pkt) \in DataMessages
         /\ Data(n, k, pkt).to = Other(n) /\ Data(n, k, pkt).idx = k.remote
         /\ Data(n, k, pkt).key = k.key /\ Data(n, k, pkt).byInit = k.init
         /\ Data(n, k, pkt).ctr = k.tx /\ Data(n, k, pkt).pkt = pkt
         /\ Data(n, k, pkt).type = "data"
  BY TwoDevices, Numbers DEF Data, DataMessages, Keypairs
-----------------------------------------------------------------------------
(***************************************************************************)
(* More messages.                                                          *)
(***************************************************************************)
\* What others send, and handshakes, leave a device as it is.
LEMMA PeerMonotone ==
  ASSUME NEW N, NEW NN, N \subseteq NN, NEW R, NEW RR, R \subseteq RR,
         NEW n \in Node, NEW p, PeerInv(N, R, n, p),
         \A d \in DataOf(NN) : d \in N \/ d.to # Other(n)
  PROVE  PeerInv(NN, RR, n, p)
  <1>1. /\ InitsOf(N) \subseteq InitsOf(NN) /\ RespsOf(N) \subseteq RespsOf(NN)
        /\ DataOf(N) \subseteq DataOf(NN)
        /\ \A d \in DataOf(NN) : d.to = Other(n) => d \in DataOf(N)
    BY DEF InitsOf, RespsOf, DataOf
  <1>2. ASSUME NEW s \in Slots PROVE KeypairInv(NN, RR, n, p[s])
    <2>1. KeypairInv(N, R, n, p[s])
      BY DEF PeerInv
    <2>2. Rooted(N, n, p[s]) => Rooted(NN, n, p[s])
      BY <1>1 DEF Rooted
    <2>3. Shared(N, p[s]) => Shared(NN, p[s])
      BY <1>1 DEF Shared, Used
    <2>4. Spent(N, R, n, p[s]) => Spent(NN, RR, n, p[s])
      BY <1>1 DEF Spent
    <2> QED
      BY <2>1, <2>2, <2>3, <2>4 DEF KeypairInv
  <1>3. HandshakeInv(NN, n, p.handshake)
    BY <1>1 DEF PeerInv, HandshakeInv
  <1> QED
    BY <1>2, <1>3 DEF PeerInv

LEMMA SendingMonotone ==
  ASSUME NEW N, NEW NN, N \subseteq NN, NEW n, NEW b, SendingInv(N, n, b)
  PROVE  SendingInv(NN, n, b)
  <1>1. RespsOf(N) \subseteq RespsOf(NN) /\ DataOf(N) \subseteq DataOf(NN)
    BY DEF RespsOf, DataOf
  <1> QED
    BY <1>1 DEF SendingInv, Rooted, Shared, Used

LEMMA AddInitiation ==
  ASSUME NEW N, N \subseteq Messages, NEW i \in Nat, HandshakesInv(N, i), DataInv(N),
         NEW m \in InitMessages, m.idx = i + 1
  PROVE  /\ HandshakesInv(N \cup {m}, i + 1) /\ DataInv(N \cup {m})
         /\ HandshakeInv(N \cup {m}, Other(m.to), i + 1)
  <1>1. /\ m.type = "init" /\ m.to \in Node
        /\ InitsOf(N \cup {m}) = InitsOf(N) \cup {m}
        /\ RespsOf(N \cup {m}) = RespsOf(N) /\ DataOf(N \cup {m}) = DataOf(N)
    BY DEF InitsOf, RespsOf, DataOf, InitMessages
  <1>2. HandshakesInv(N \cup {m}, i + 1)
    <2>1. \A e \in InitsOf(N) : e.idx \in 1 .. i /\ e.idx # i + 1 /\ e.idx \in 1 .. (i + 1)
      BY DEF HandshakesInv
    <2>2. \A r \in RespsOf(N) : r.sender # i + 1 /\ r.sender \in 1 .. (i + 1)
      BY DEF HandshakesInv
    <2>3. i + 1 \in 1 .. (i + 1)
      OBVIOUS
    <2>4. \A e \in InitsOf(N) \cup {m} : e.idx \in 1 .. (i + 1)
      BY <2>1, <2>3
    <2>5. \A e, f \in InitsOf(N) \cup {m} : e.idx = f.idx => e.to = f.to
      BY <2>1 DEF HandshakesInv
    <2>6. \A e \in InitsOf(N) \cup {m}, r \in RespsOf(N) : e.idx # r.sender
      BY <2>2 DEF HandshakesInv
    <2>7. /\ \A r, t \in RespsOf(N) : r.sender = t.sender => r.to = t.to /\ r.idx = t.idx
          /\ \A r \in RespsOf(N) :
                \E e \in InitsOf(N) \cup {m} : e.idx = r.idx /\ e.to = Other(r.to)
      BY DEF HandshakesInv
    <2>8. InitsOf(N \cup {m}) = InitsOf(N) \cup {m} /\ RespsOf(N \cup {m}) = RespsOf(N)
      BY <1>1
    <2>9. \A r \in RespsOf(N) : r.sender \in 1 .. (i + 1)
      BY <2>2
    <2>10. PICK I, R : I = InitsOf(N \cup {m}) /\ R = RespsOf(N \cup {m})
      OBVIOUS
    <2>11. (\A e \in I : e.idx \in 1 .. (i + 1)) /\ (\A r \in R : r.sender \in 1 .. (i + 1))
      BY <2>4, <2>8, <2>9, <2>10
    <2>12. \A e, f \in I : e.idx = f.idx => e.to = f.to
      BY <2>5, <2>8, <2>10
    <2>13. \A e \in I, r \in R : e.idx # r.sender
      BY <2>6, <2>8, <2>10
    <2>14. \A r, t \in R : r.sender = t.sender => r.to = t.to /\ r.idx = t.idx
      BY <2>7, <2>8, <2>10
    <2>15. \A r \in R : \E e \in I : e.idx = r.idx /\ e.to = Other(r.to)
      BY <2>7, <2>8, <2>10
    <2> QED
      BY <2>10, <2>11, <2>12, <2>13, <2>14, <2>15 DEF HandshakesInv
  <1>3. DataInv(N \cup {m})
    BY <1>1 DEF DataInv, Used
  <1>4. ASSUME NEW d \in DataOf(N) PROVE d.key[1] # i + 1
    BY <1>4 DEF DataInv, HandshakesInv
  <1>5. m \in InitsOf(N \cup {m}) /\ m.to = Other(Other(m.to))
    BY <1>1, TwoDevices
  <1> QED
    BY <1>1, <1>2, <1>3, <1>4, <1>5 DEF HandshakeInv

LEMMA AddResponse ==
  ASSUME NEW N, N \subseteq Messages, NEW i \in Nat, HandshakesInv(N, i), DataInv(N),
         NEW m \in RespMessages, m.sender = i + 1,
         NEW e \in InitsOf(N), e.idx = m.idx, e.to = Other(m.to)
  PROVE  HandshakesInv(N \cup {m}, i + 1) /\ DataInv(N \cup {m})
  <1>1. /\ m.type = "resp" /\ m.to \in Node
        /\ InitsOf(N \cup {m}) = InitsOf(N)
        /\ RespsOf(N \cup {m}) = RespsOf(N) \cup {m} /\ DataOf(N \cup {m}) = DataOf(N)
    BY DEF InitsOf, RespsOf, DataOf, RespMessages
  <1>2. HandshakesInv(N \cup {m}, i + 1)
    <2>1. \A f \in InitsOf(N) : f.idx # i + 1 /\ f.idx \in 1 .. (i + 1)
      BY DEF HandshakesInv
    <2>2. \A r \in RespsOf(N) : r.sender # i + 1 /\ r.sender \in 1 .. (i + 1)
      BY DEF HandshakesInv
    <2>3. i + 1 \in 1 .. (i + 1)
      OBVIOUS
    <2>4. \A r \in RespsOf(N) \cup {m} :
             \E f \in InitsOf(N) : f.idx = r.idx /\ f.to = Other(r.to)
      BY DEF HandshakesInv
    <2>5. ASSUME NEW r \in RespsOf(N) \cup {m}, NEW t \in RespsOf(N) \cup {m},
                 r.sender = t.sender
          PROVE  r.to = t.to /\ r.idx = t.idx
      <3>1. CASE r = m /\ t = m
        BY <3>1
      <3>2. CASE r = m /\ t # m
        BY <2>2, <2>5, <3>2
      <3>3. CASE r # m /\ t = m
        BY <2>2, <2>5, <3>3
      <3>4. CASE r # m /\ t # m
        BY <2>5, <3>4 DEF HandshakesInv
      <3> QED
        BY <3>1, <3>2, <3>3, <3>4
    <2>6. /\ \A r \in RespsOf(N) \cup {m} : r.sender \in 1 .. (i + 1)
          /\ \A f \in InitsOf(N), r \in RespsOf(N) \cup {m} : f.idx # r.sender
      <3>1. \A f \in InitsOf(N), r \in RespsOf(N) : f.idx # r.sender
        BY DEF HandshakesInv
      <3> QED
        BY <2>1, <2>2, <2>3, <3>1
    <2>7. \A f, g \in InitsOf(N) : f.idx = g.idx => f.to = g.to
      BY DEF HandshakesInv
    <2>8. InitsOf(N \cup {m}) = InitsOf(N) /\ RespsOf(N \cup {m}) = RespsOf(N) \cup {m}
      BY <1>1
    <2>9. \A f \in InitsOf(N) : f.idx \in 1 .. (i + 1)
      BY <2>1
    <2>10. PICK I, R : I = InitsOf(N \cup {m}) /\ R = RespsOf(N \cup {m})
      OBVIOUS
    <2>11. (\A f \in I : f.idx \in 1 .. (i + 1)) /\ (\A r \in R : r.sender \in 1 .. (i + 1))
      BY <2>6, <2>8, <2>9, <2>10
    <2>12. \A f, g \in I : f.idx = g.idx => f.to = g.to
      BY <2>7, <2>8, <2>10
    <2>13. \A f \in I, r \in R : f.idx # r.sender
      BY <2>6, <2>8, <2>10
    <2>14. \A r, t \in R : r.sender = t.sender => r.to = t.to /\ r.idx = t.idx
      BY <2>5, <2>8, <2>10
    <2>15. \A r \in R : \E f \in I : f.idx = r.idx /\ f.to = Other(r.to)
      BY <2>4, <2>8, <2>10
    <2> QED
      BY <2>10, <2>11, <2>12, <2>13, <2>14, <2>15 DEF HandshakesInv
  <1>3. DataInv(N \cup {m})
    <2>1. \A d \in DataOf(N) : Used(N \cup {m}, d.key)
      BY <1>1 DEF DataInv, Used
    <2>2. \A d \in DataOf(N) : \E r \in RespsOf(N) \cup {m} :
             /\ d.key = <<r.idx, r.sender>>
             /\ IF d.byInit THEN r.to = Other(d.to) /\ d.idx = r.sender
                            ELSE r.to = d.to /\ d.idx = r.idx
      <3> TAKE d \in DataOf(N)
      <3>1. PICK r \in RespsOf(N) :
             /\ d.key = <<r.idx, r.sender>>
             /\ IF d.byInit THEN r.to = Other(d.to) /\ d.idx = r.sender
                            ELSE r.to = d.to /\ d.idx = r.idx
        BY DEF DataInv
      <3> QED
        BY <3>1
    <2>3. \A d, c \in DataOf(N) :
             d.byInit /\ c.byInit /\ d.key[1] = c.key[1] => d.key = c.key
      BY DEF DataInv
    <2> QED
      BY <1>1, <2>1, <2>2, <2>3 DEF DataInv
  <1> QED
    BY <1>2, <1>3

\* A packet sent with a keypair that is rooted.  If it is the first under its
\* key it comes from the initiator, who has no session of that handshake yet.
LEMMA AddData ==
  ASSUME NEW N, N \subseteq Messages, NEW i \in Nat, HandshakesInv(N, i), DataInv(N),
         NEW n \in Node, NEW k \in Keypairs, NEW pkt \in Nat, Rooted(N, n, k),
         \/ Used(N, k.key)
         \/ k.init /\ \A d \in DataOf(N) : d.to = Other(n) /\ d.byInit => d.key[1] # k.local
  PROVE  HandshakesInv(N \cup {Data(n, k, pkt)}, i) /\ DataInv(N \cup {Data(n, k, pkt)})
  <1> DEFINE m == Data(n, k, pkt)
             M == N \cup {m}
  <1>1. /\ m.type = "data" /\ m.to = Other(n) /\ m.idx = k.remote /\ m.key = k.key
        /\ m.byInit = k.init
    BY DataType
  <1> HIDE DEF m
  <1>2. InitsOf(M) = InitsOf(N) /\ RespsOf(M) = RespsOf(N) /\ DataOf(M) = DataOf(N) \cup {m}
    BY <1>1 DEF InitsOf, RespsOf, DataOf
  <1> HIDE DEF M
  <1>3. HandshakesInv(M, i)
    BY <1>2 DEF HandshakesInv
  <1>4. PICK r \in RespsOf(N) :
          /\ k.key = <<r.idx, r.sender>>
          /\ IF k.init THEN r.to = n /\ k.local = r.idx /\ k.remote = r.sender
                       ELSE r.to = Other(n) /\ k.local = r.sender /\ k.remote = r.idx
    BY DEF Rooted
  <1>5. /\ m.key = <<r.idx, r.sender>>
        /\ IF m.byInit THEN r.to = Other(m.to) /\ m.idx = r.sender
                       ELSE r.to = m.to /\ m.idx = r.idx
    BY <1>1, <1>4, TwoDevices
  <1>6. Used(M, m.key) /\ \A key : Used(N, key) => Used(M, key)
    <2>1. k.init => m.byInit
      BY <1>1
    <2> QED
      BY <1>1, <1>2, <2>1 DEF Used
  <1>7. ASSUME NEW d \in DataOf(N), d.byInit, m.byInit, d.key[1] = m.key[1]
        PROVE  d.key = m.key
    <2>1. CASE Used(N, k.key)
      BY <1>1, <1>7, <2>1 DEF Used, DataInv
    <2>2. CASE k.init /\ \A x \in DataOf(N) : x.to = Other(n) /\ x.byInit => x.key[1] # k.local
      <3>1. m.key[1] = k.local /\ r.to = n /\ r.idx = d.key[1]
        BY <1>1, <1>4, <1>5, <1>7, <2>2
      <3>2. PICK t \in RespsOf(N) : d.key = <<t.idx, t.sender>> /\ t.to = Other(d.to)
        BY <1>7 DEF DataInv
      <3>3. PICK e, f \in InitsOf(N) : /\ e.idx = r.idx /\ e.to = Other(r.to)
                                       /\ f.idx = t.idx /\ f.to = Other(t.to)
        BY DEF HandshakesInv
      <3>4. e.to = f.to /\ e.to = Other(n)
        BY <3>1, <3>2, <3>3 DEF HandshakesInv
      <3>5. d.to \in Node
        BY MessageKinds DEF DataOf
      <3>6. d.to = Other(n)
        BY <3>2, <3>3, <3>4, <3>5, TwoDevices
      <3> QED
        BY <1>7, <2>2, <3>1, <3>6
    <2> QED
      BY <2>1, <2>2
  <1>8. DataInv(M)
    <2>1. ASSUME NEW d \in DataOf(M)
          PROVE  /\ \E t \in RespsOf(M) :
                       /\ d.key = <<t.idx, t.sender>>
                       /\ IF d.byInit THEN t.to = Other(d.to) /\ d.idx = t.sender
                                      ELSE t.to = d.to /\ d.idx = t.idx
                 /\ Used(M, d.key)
      <3>1. CASE d \in DataOf(N)
        BY <1>2, <1>6, <3>1 DEF DataInv
      <3>2. CASE d = m
        BY <1>2, <1>5, <1>6, <3>2
      <3> QED
        BY <1>2, <3>1, <3>2
    <2>2. ASSUME NEW d \in DataOf(M), NEW e \in DataOf(M), d.byInit, e.byInit,
                 d.key[1] = e.key[1]
          PROVE  d.key = e.key
      BY <1>2, <1>7, <2>2 DEF DataInv
    <2> QED
      BY <2>1, <2>2 DEF DataInv
  <1> QED
    BY <1>3, <1>8 DEF M, m
-----------------------------------------------------------------------------
(***************************************************************************)
(* What the helpers make of a peer.                                        *)
(***************************************************************************)
\* A keypair of the same session that has sent more, and is shared still.
LEMMA KeypairGrows ==
  ASSUME NEW N, NEW R, NEW n, NEW k \in Keypairs, NEW l \in Keypairs, KeypairInv(N, R, n, k),
         l.valid = k.valid, l.init = k.init, l.local = k.local, l.remote = k.remote,
         l.key = k.key, l.tx >= k.tx, l.rx => k.rx \/ Used(N, k.key),
         N \subseteq Messages
  PROVE  KeypairInv(N, R, n, l)
  <1>1. Rooted(N, n, k) => Rooted(N, n, l)
    BY DEF Rooted
  <1>2. Shared(N, k) => Shared(N, l)
    BY DEF Shared
  <1>3. Spent(N, R, n, k) => Spent(N, R, n, l)
    <2>1. \A d \in DataOf(N) : d.ctr \in Nat
      BY MessageKinds DEF DataOf, DataMessages
    <2>2. k.tx \in Nat /\ l.tx \in Nat
      BY DEF Keypairs
    <2> QED
      BY <2>1, <2>2 DEF Spent
  <1> QED
    BY <1>1, <1>2, <1>3 DEF KeypairInv

LEMMA ZeroIsNoSession == ASSUME NEW N, NEW R, NEW n PROVE KeypairInv(N, R, n, ZeroKeypair)
  BY ZeroType DEF KeypairInv

LEMMA NewPeerKeeps == ASSUME NEW N, NEW R, NEW n PROVE PeerInv(N, R, n, NewPeer)
  <1>1. \A s \in Slots : NewPeer[s] = ZeroKeypair
    BY DEF NewPeer, Slots
  <1>2. NewPeer.handshake = 0
    BY DEF NewPeer
  <1> QED
    BY <1>1, <1>2, ZeroType, ZeroIsNoSession DEF PeerInv, SlotsInv, HandshakeInv

\* Slots that are cleared or as before.
LEMMA ClearedKeeps ==
  ASSUME NEW N, NEW R, NEW n, NEW p, PeerInv(N, R, n, p), NEW q,
         \A s \in Slots : q[s] = p[s] \/ q[s] = ZeroKeypair,
         q.handshake = p.handshake
  PROVE  PeerInv(N, R, n, q)
  <1>1. \A s \in Slots : KeypairInv(N, R, n, q[s])
    BY ZeroIsNoSession DEF PeerInv
  <1>2. SlotsInv(q)
    BY ZeroType DEF PeerInv, SlotsInv
  <1> QED
    BY <1>1, <1>2 DEF PeerInv

LEMMA OutputRefusedType ==
  ASSUME NEW p \in Peers
  PROVE  /\ SendingSlot(p) \in Slots
         /\ OutputRefused(p) \in Peers
         /\ \A s \in Slots : OutputRefused(p)[s] \in {p[s], ZeroKeypair}
         /\ OutputRefused(p).handshake = p.handshake
         /\ OutputRefused(p).lastTx = p.lastTx
         /\ OutputRefused(p).greatest = p.greatest
  <1>1. SendingSlot(p) \in Slots
    BY DEF SendingSlot, Slots
  <1> QED
    BY <1>1, DestroyType DEF OutputRefused

\* The counter of one keypair goes up.
LEMMA SentKeeps ==
  ASSUME TypeOK, NEW N, N \subseteq Messages, NEW R, NEW n \in Node, NEW p \in Peers,
         PeerInv(N, R, n, p), NEW s \in Slots
  PROVE  PeerInv(N, R, n, Sent(n, p, s))
  <1> DEFINE q == Sent(n, p, s)
  <1>1. /\ q \in Peers /\ q[s] = [p[s] EXCEPT !.tx = @ + 1]
        /\ \A t \in Slots : t # s => q[t] = p[t]
        /\ q.handshake = p.handshake
    BY SentSlot
  <1> HIDE DEF q
  <1>2. p[s] \in Keypairs /\ q[s] \in Keypairs
    BY <1>1 DEF Peers, Slots
  <1>3. /\ q[s].valid = p[s].valid /\ q[s].init = p[s].init /\ q[s].local = p[s].local
        /\ q[s].remote = p[s].remote /\ q[s].key = p[s].key /\ q[s].rx = p[s].rx
        /\ q[s].tx = p[s].tx + 1 /\ p[s].tx \in Nat
    BY <1>1, <1>2 DEF Keypairs
  <1>4. KeypairInv(N, R, n, q[s])
    BY <1>2, <1>3, KeypairGrows DEF PeerInv
  <1>5. \A t \in Slots : q[t].valid = p[t].valid /\ q[t].local = p[t].local
    BY <1>1, <1>3
  <1>6. SlotsInv(q)
    BY <1>5 DEF PeerInv, SlotsInv
  <1> QED
    BY <1>1, <1>4, <1>6 DEF PeerInv, q

\* wireguardif_output_to_peer sends with the keypair it finds, or clears it.
LEMMA OutputCases ==
  ASSUME NEW n, NEW p \in Peers, NEW pkt
  PROVE  /\ CanSend(n, p[SendingSlot(p)]) =>
               /\ Output(n, p, pkt).peer = Sent(n, p, SendingSlot(p))
               /\ Output(n, p, pkt).out = {Data(n, p[SendingSlot(p)], pkt)}
         /\ ~ CanSend(n, p[SendingSlot(p)]) =>
               Output(n, p, pkt).peer = OutputRefused(p) /\ Output(n, p, pkt).out = {}
  BY OutputRefusedType DEF Output, Result

LEMMA OutputType ==
  ASSUME TypeOK, NEW n \in Node, NEW p \in Peers
  PROVE  /\ Output(n, p, Empty).peer \in Peers
         /\ Output(n, p, Empty).out \subseteq DataMessages
         /\ \A m \in Output(n, p, Empty).out : m.to = Other(n)
         /\ Output(n, p, Empty).peer.greatest = p.greatest
         /\ Output(n, p, Empty).peer.handshake = p.handshake
  <1>0. PICK s \in Slots : s = SendingSlot(p)
    BY OutputRefusedType
  <1>1. p[s] \in Keypairs /\ Empty \in Nat
    BY DEF Peers, Slots, Empty
  <1>2. CASE CanSend(n, p[s])
    <2>1. Output(n, p, Empty).peer = Sent(n, p, s) /\ Output(n, p, Empty).out = {Data(n, p[s], Empty)}
      BY <1>0, <1>2, OutputCases
    <2>2. Data(n, p[s], Empty) \in DataMessages /\ Data(n, p[s], Empty).to = Other(n)
      BY <1>1, DataType
    <2>3. /\ Sent(n, p, s) \in Peers /\ Sent(n, p, s).greatest = p.greatest
          /\ Sent(n, p, s).handshake = p.handshake
      BY SentType
    <2> QED
      BY <2>1, <2>2, <2>3
  <1>3. CASE ~ CanSend(n, p[s])
    <2>1. Output(n, p, Empty).peer = OutputRefused(p) /\ Output(n, p, Empty).out = {}
      BY <1>0, <1>3, OutputCases
    <2> QED
      BY <2>1, OutputRefusedType
  <1> QED
    BY <1>2, <1>3

\* A keypair is known by its key and its role.
LEMMA SameSession ==
  ASSUME NEW N, NEW n, NEW k, NEW l, Rooted(N, n, k), Rooted(N, n, l),
         k.key = l.key, k.init = l.init
  PROVE  k.local = l.local
  <1>1. PICK r \in RespsOf(N) :
          /\ k.key = <<r.idx, r.sender>>
          /\ IF k.init THEN r.to = n /\ k.local = r.idx /\ k.remote = r.sender
                       ELSE r.to = Other(n) /\ k.local = r.sender /\ k.remote = r.idx
    BY DEF Rooted
  <1>2. PICK u \in RespsOf(N) :
          /\ l.key = <<u.idx, u.sender>>
          /\ IF l.init THEN u.to = n /\ l.local = u.idx /\ l.remote = u.sender
                       ELSE u.to = Other(n) /\ l.local = u.sender /\ l.remote = u.idx
    BY DEF Rooted
  <1>3. r.idx = u.idx /\ r.sender = u.sender
    <2>1. k.key[1] = r.idx /\ k.key[2] = r.sender
      BY <1>1
    <2>2. l.key[1] = u.idx /\ l.key[2] = u.sender
      BY <1>2
    <2> QED
      BY <2>1, <2>2
  <1>4. CASE k.init
    BY <1>1, <1>2, <1>3, <1>4
  <1>5. CASE ~ k.init
    BY <1>1, <1>2, <1>3, <1>5
  <1> QED
    BY <1>4, <1>5

\* What it sends is spent, and what it leaves is sound.
LEMMA SendKeeps ==
  ASSUME TypeOK, NEW N, N \subseteq Messages, NEW i \in Nat, HandshakesInv(N, i), DataInv(N),
         NEW R, NEW n \in Node, NEW p \in Peers, PeerInv(N, R, n, p), NEW s \in Slots,
         p[s].valid, p[s].init \/ p[s].rx, NEW pkt \in Nat
  PROVE  LET M == N \cup {Data(n, p[s], pkt)}
         IN  HandshakesInv(M, i) /\ DataInv(M) /\ PeerInv(M, R, n, Sent(n, p, s))
  <1> DEFINE k == p[s]
             m == Data(n, k, pkt)
             M == N \cup {m}
             q == Sent(n, p, s)
  <1>1. k \in Keypairs
    BY DEF Peers, Slots
  <1>2. Rooted(N, n, k) /\ Used(N, k.key) /\ Spent(N, R, n, k)
    BY DEF PeerInv, KeypairInv, Shared
  <1>3. HandshakesInv(M, i) /\ DataInv(M)
    BY <1>1, <1>2, AddData
  <1>4. /\ m.to = Other(n) /\ m.key = k.key /\ m.byInit = k.init /\ m.ctr = k.tx
        /\ m.type = "data" /\ m \in Messages
    BY <1>1, DataType DEF Messages
  <1>5. PeerInv(N, R, n, q)
    BY SentKeeps
  <1>6. /\ q \in Peers /\ q[s] = [k EXCEPT !.tx = @ + 1]
        /\ \A t \in Slots : t # s => q[t] = p[t]
        /\ q.handshake = p.handshake
    BY SentSlot
  <1>7. /\ q[s].valid /\ q[s].init = k.init /\ q[s].key = k.key /\ q[s].tx = k.tx + 1
        /\ k.tx \in Nat
    BY <1>1, <1>6 DEF Keypairs
  <1> HIDE DEF m, q, k
  <1>8. DataOf(M) = DataOf(N) \cup {m} /\ RespsOf(M) = RespsOf(N) /\ InitsOf(M) = InitsOf(N)
    BY <1>4 DEF DataOf, RespsOf, InitsOf
  <1> HIDE DEF M
  <1>9. \A key : Used(N, key) => Used(M, key)
    BY <1>8 DEF Used
  <1>10. ASSUME NEW t \in Slots PROVE KeypairInv(M, R, n, q[t])
    <2>1. KeypairInv(N, R, n, q[t])
      BY <1>5 DEF PeerInv
    <2>2. q[t].valid => Rooted(M, n, q[t]) /\ Shared(M, q[t])
      BY <1>8, <1>9, <2>1 DEF KeypairInv, Rooted, Shared
    <2>3. q[t].valid => Spent(M, R, n, q[t])
      <3>1. CASE t = s
        <4>1. m.ctr < q[s].tx
          BY <1>4, <1>7
        <4> QED
          BY <1>7, <1>8, <2>1, <3>1, <4>1 DEF KeypairInv, Spent
      <3>2. CASE t # s /\ q[t].valid
        <4>1. q[t] = p[t] /\ p[t].valid
          BY <1>6, <3>2
        <4>2. q[t].local # k.local
          BY <3>2, <4>1 DEF PeerInv, SlotsInv, k
        <4>3. ~ (q[t].key = k.key /\ q[t].init = k.init)
          BY <1>2, <2>1, <3>2, <4>2, SameSession DEF KeypairInv
        <4> QED
          BY <1>4, <1>8, <2>1, <3>2, <4>3 DEF KeypairInv, Spent
      <3> QED
        BY <3>1, <3>2
    <2> QED
      BY <2>1, <2>2, <2>3 DEF KeypairInv
  <1>11. HandshakeInv(M, n, q.handshake)
    <2>1. HandshakeInv(N, n, q.handshake)
      BY <1>5 DEF PeerInv
    <2>2. q.handshake # 0 /\ m.byInit => m.key[1] # q.handshake
      <3>1. PICK d \in DataOf(N) : d.byInit /\ d.key = k.key
        BY <1>2 DEF Used
      <3>2. PICK r \in RespsOf(N) : /\ k.key = <<r.idx, r.sender>>
                                    /\ r.to = IF k.init THEN n ELSE Other(n)
        BY <1>2 DEF Rooted
      <3>3. PICK u \in RespsOf(N) : d.key = <<u.idx, u.sender>> /\ u.to = Other(d.to)
        BY <3>1 DEF DataInv
      <3>4. u.to = r.to
        BY <3>1, <3>2, <3>3 DEF HandshakesInv
      <3>5. d.to \in Node
        BY MessageKinds DEF DataOf
      <3>6. k.init => d.to = Other(n)
        BY <3>2, <3>3, <3>4, <3>5, TwoDevices
      <3> QED
        BY <1>4, <2>1, <3>1, <3>6 DEF HandshakeInv
    <2> QED
      BY <1>8, <2>1, <2>2 DEF HandshakeInv
  <1>12. PeerInv(M, R, n, q)
    BY <1>5, <1>10, <1>11 DEF PeerInv
  <1> QED
    BY <1>3, <1>12 DEF M, m, q, k

LEMMA OutputKeeps ==
  ASSUME TypeOK, NEW N, N \subseteq Messages, NEW i \in Nat, HandshakesInv(N, i), DataInv(N),
         NEW R, NEW n \in Node, NEW p \in Peers, PeerInv(N, R, n, p)
  PROVE  LET r == Output(n, p, Empty)
             M == N \cup r.out
         IN  HandshakesInv(M, i) /\ DataInv(M) /\ PeerInv(M, R, n, r.peer)
  <1> DEFINE s == SendingSlot(p)
             r == Output(n, p, Empty)
  <1>1. s \in Slots /\ Empty \in Nat
    BY OutputRefusedType DEF Empty
  <1>2. CASE CanSend(n, p[s])
    <2>1. p[s].valid /\ (p[s].init \/ p[s].rx)
      BY <1>2 DEF CanSend
    <2>2. r.peer = Sent(n, p, s) /\ r.out = {Data(n, p[s], Empty)}
      BY <1>2, OutputCases
    <2> HIDE DEF s, r
    <2>3. LET M == N \cup {Data(n, p[s], Empty)}
          IN  HandshakesInv(M, i) /\ DataInv(M) /\ PeerInv(M, R, n, Sent(n, p, s))
      BY <1>1, <2>1, SendKeeps
    <2> QED
      BY <2>2, <2>3 DEF r
  <1>3. CASE ~ CanSend(n, p[s])
    <2>1. r.peer = OutputRefused(p) /\ N \cup r.out = N
      BY <1>3, OutputCases
    <2>2. PeerInv(N, R, n, OutputRefused(p))
      BY OutputRefusedType, ClearedKeeps
    <2> QED
      BY <2>1, <2>2
  <1> QED
    BY <1>2, <1>3

\* wireguard_start_handshake: a new index, and a peer with the same slots.
LEMMA StartHandshakeType ==
  ASSUME TypeOK, CanDraw, NEW n \in Node, NEW p \in Peers
  PROVE  /\ StartHandshake(n, p).peer \in Peers
         /\ \A s \in Slots : StartHandshake(n, p).peer[s] = p[s]
         /\ StartHandshake(n, p).peer.handshake = index + 1
         /\ StartHandshake(n, p).peer.lastTx = p.lastTx
         /\ StartHandshake(n, p).peer.greatest = p.greatest
         /\ StartHandshake(n, p).out = {Initiation(n)}
         /\ Initiation(n) \in InitMessages
         /\ Initiation(n).idx = index + 1 /\ Initiation(n).to = Other(n)
         /\ Initiation(n).ts = Timestamp(n, index + 1) /\ Initiation(n).boot = restarts[n]
  <1>1. /\ uptime[n] \in 0 .. MaxUptime /\ uptime[n] \in Nat /\ index \in Nat
        /\ index + 1 \in 0 .. MaxIndex /\ restarts[n] \in Nat
    BY Numbers DEF TypeOK, CanDraw
  <1>2. Timestamp(n, index + 1) \in Nat
    <2>1. uptime[n] * (MaxIndex + 1) \in Nat
      BY <1>1, Numbers
    <2> QED
      BY <1>1, <2>1 DEF Timestamp
  <1>3. Initiation(n) \in InitMessages
    BY <1>1, <1>2, TwoDevices DEF Initiation, InitMessages
  <1> QED
    BY <1>1, <1>3 DEF StartHandshake, Result, Peers, Slots, Initiation

LEMMA StartHandshakeKeeps ==
  ASSUME TypeOK, CanDraw, NEW N, N \subseteq Messages,
         HandshakesInv(N, index), DataInv(N),
         NEW R, NEW n \in Node, NEW p \in Peers, PeerInv(N, R, n, p)
  PROVE  LET M == N \cup StartHandshake(n, p).out
         IN  /\ HandshakesInv(M, index + 1) /\ DataInv(M)
             /\ PeerInv(M, R, n, StartHandshake(n, p).peer)
  <1> DEFINE m == Initiation(n)
             M == N \cup {m}
             q == StartHandshake(n, p).peer
  <1>1. /\ m \in InitMessages /\ m.idx = index + 1 /\ m.to = Other(n)
        /\ \A s \in Slots : q[s] = p[s]
        /\ q.handshake = index + 1 /\ StartHandshake(n, p).out = {m}
    BY StartHandshakeType
  <1> HIDE DEF m, q
  <1>2. index \in Nat /\ Other(m.to) = n
    BY <1>1, TwoDevices DEF TypeOK
  <1>3. HandshakesInv(M, index + 1) /\ DataInv(M) /\ HandshakeInv(M, n, index + 1)
    BY <1>1, <1>2, AddInitiation
  <1>4. PeerInv(M, R, n, p)
    <2>1. \A d \in DataOf(M) : d \in N
      BY <1>1 DEF DataOf, InitMessages
    <2> QED
      BY <2>1, PeerMonotone
  <1>5. PeerInv(M, R, n, q)
    BY <1>1, <1>3, <1>4 DEF PeerInv, SlotsInv
  <1> QED
    BY <1>1, <1>3, <1>5 DEF M, q

\* The keypair of a new session, at each end.
Initiated(n, local, remote) ==
    [valid |-> TRUE, init |-> TRUE, born |-> uptime[n], tx |-> 0, rx |-> FALSE,
     window |-> EmptyWindow, local |-> local, remote |-> remote, key |-> <<local, remote>>]
Responded(n, local, remote) ==
    [valid |-> TRUE, init |-> FALSE, born |-> uptime[n], tx |-> 0, rx |-> FALSE,
     window |-> EmptyWindow, local |-> local, remote |-> remote, key |-> <<remote, local>>]

LEMMA NewKeypairs ==
  ASSUME TypeOK, NEW n \in Node, NEW local \in 0 .. MaxIndex, NEW remote \in 0 .. MaxIndex
  PROVE  /\ Initiated(n, local, remote) \in Keypairs
         /\ Responded(n, local, remote) \in Keypairs
  <1>1. uptime[n] \in 0 .. MaxUptime
    BY Numbers DEF TypeOK
  <1>2. EmptyWindow \in Windows /\ 0 \in Nat
    BY DEF EmptyWindow, Windows
  <1> QED
    BY <1>1, <1>2 DEF Initiated, Responded, Keypairs

\* start_session, called by each end.
InitiatorStarts(n, p, local, remote) == StartSession(n, p, TRUE, local, remote)
ResponderStarts(n, p, local, remote) == StartSession(n, p, FALSE, local, remote)

\* start_session: an initiator's session is current, a responder's the next.
LEMMA InitiatorSession ==
  ASSUME TypeOK, NEW n \in Node, NEW p \in Peers,
         NEW local \in 0 .. MaxIndex, NEW remote \in 0 .. MaxIndex,
         NEW q, q = InitiatorStarts(n, p, local, remote)
  PROVE  /\ q \in Peers /\ q.curr = Initiated(n, local, remote)
         /\ ~ q.next.valid /\ q.next \in {p.next, ZeroKeypair}
         /\ q.prev \in {p.next, p.curr}
         /\ q.handshake = 0 /\ q.lastTx = p.lastTx /\ q.greatest = p.greatest
  <1>1. PICK k, pp : k = Initiated(n, local, remote) /\ pp = [p EXCEPT !.handshake = 0]
    OBVIOUS
  <1>2. k \in Keypairs /\ k.init
    BY <1>1, NewKeypairs DEF Initiated
  <1>3. q = AddNewKeypair(pp, k)
    <2>1. k = [ZeroKeypair EXCEPT !.valid = TRUE, !.init = TRUE, !.born = uptime[n],
                                  !.local = local, !.remote = remote,
                                  !.key = <<local, remote>>]
      <3>1. PICK e : e = [ZeroKeypair EXCEPT !.valid = TRUE, !.init = TRUE, !.born = uptime[n],
                                     !.local = local, !.remote = remote,
                                     !.key = <<local, remote>>]
        OBVIOUS
      <3>2. e = [valid |-> TRUE, init |-> TRUE, born |-> uptime[n], tx |-> 0, rx |-> FALSE,
                 window |-> EmptyWindow, local |-> local, remote |-> remote,
                 key |-> <<local, remote>>]
        BY <3>1 DEF ZeroKeypair
      <3>3. k = e
        BY <1>1, <3>2 DEF Initiated
      <3> QED
        BY <3>1, <3>3
    <2> QED
      BY <1>1, <2>1 DEF InitiatorStarts, StartSession
  <1>4. /\ pp \in Peers /\ pp.curr = p.curr /\ pp.next = p.next /\ pp.prev = p.prev
        /\ pp.handshake = 0 /\ pp.lastTx = p.lastTx /\ pp.greatest = p.greatest
    BY <1>1, Numbers DEF Peers
  <1>5. q = [pp EXCEPT !.prev = IF pp.next.valid THEN pp.next ELSE pp.curr,
                       !.next = IF pp.next.valid THEN ZeroKeypair ELSE pp.next,
                       !.curr = k]
    BY <1>2, <1>3 DEF AddNewKeypair
  <1>6. pp.curr \in Keypairs /\ pp.next \in Keypairs /\ ZeroKeypair \in Keypairs
    BY <1>4, ZeroType DEF Peers
  <1>7. q \in Peers /\ q.curr = k /\ q.handshake = 0 /\ q.lastTx = p.lastTx
        /\ q.greatest = p.greatest
    <2>1. PICK v \in Keypairs, x \in Keypairs : q = [pp EXCEPT !.prev = v, !.next = x, !.curr = k]
      BY <1>5, <1>6
    <2>2. k \in Keypairs
      BY <1>2
    <2> QED
      BY <1>4, <2>1, <2>2 DEF Peers
  <1>8. /\ q.prev = IF p.next.valid THEN p.next ELSE p.curr
        /\ q.next = IF p.next.valid THEN ZeroKeypair ELSE p.next
    BY <1>4, <1>5 DEF Peers
  <1> QED
    BY <1>1, <1>7, <1>8, ZeroType

LEMMA ResponderSession ==
  ASSUME TypeOK, NEW n \in Node, NEW p \in Peers,
         NEW local \in 0 .. MaxIndex, NEW remote \in 0 .. MaxIndex,
         NEW q, q = ResponderStarts(n, p, local, remote)
  PROVE  /\ q \in Peers /\ q.next = Responded(n, local, remote)
         /\ q.prev = ZeroKeypair /\ q.curr = p.curr
         /\ q.handshake = 0 /\ q.lastTx = p.lastTx /\ q.greatest = p.greatest
  <1>1. PICK k, pp : k = Responded(n, local, remote) /\ pp = [p EXCEPT !.handshake = 0]
    OBVIOUS
  <1>2. k \in Keypairs /\ ~ k.init
    BY <1>1, NewKeypairs DEF Responded
  <1>3. q = AddNewKeypair(pp, k)
    <2>1. k = [ZeroKeypair EXCEPT !.valid = TRUE, !.init = FALSE, !.born = uptime[n],
                                  !.local = local, !.remote = remote,
                                  !.key = <<remote, local>>]
      <3>1. PICK e : e = [ZeroKeypair EXCEPT !.valid = TRUE, !.init = FALSE, !.born = uptime[n],
                                     !.local = local, !.remote = remote,
                                     !.key = <<remote, local>>]
        OBVIOUS
      <3>2. e = [valid |-> TRUE, init |-> FALSE, born |-> uptime[n], tx |-> 0, rx |-> FALSE,
                 window |-> EmptyWindow, local |-> local, remote |-> remote,
                 key |-> <<remote, local>>]
        BY <3>1 DEF ZeroKeypair
      <3>3. k = e
        BY <1>1, <3>2 DEF Responded
      <3> QED
        BY <3>1, <3>3
    <2> QED
      BY <1>1, <2>1 DEF ResponderStarts, StartSession
  <1>4. /\ pp \in Peers /\ pp.curr = p.curr /\ pp.next = p.next /\ pp.prev = p.prev
        /\ pp.handshake = 0 /\ pp.lastTx = p.lastTx /\ pp.greatest = p.greatest
    BY <1>1, Numbers DEF Peers
  <1>5. q = [pp EXCEPT !.next = k, !.prev = ZeroKeypair]
    BY <1>2, <1>3 DEF AddNewKeypair
  <1>6. q \in Peers /\ q.next = k /\ q.prev = ZeroKeypair /\ q.curr = pp.curr
        /\ q.handshake = 0 /\ q.lastTx = p.lastTx /\ q.greatest = p.greatest
    BY <1>2, <1>4, <1>5, ZeroType DEF Peers
  <1> QED
    BY <1>1, <1>4, <1>6

\* The index of a handshake under way is not that of a keypair.
LEMMA HandshakeIsNew ==
  ASSUME NEW N, N \subseteq Messages, NEW i \in Nat, HandshakesInv(N, i), DataInv(N),
         NEW R, NEW n \in Node, NEW p, PeerInv(N, R, n, p), p.handshake # 0,
         NEW s \in Slots, p[s].valid
  PROVE  p[s].local # p.handshake
  <1>1. PICK r \in RespsOf(N) :
          /\ p[s].key = <<r.idx, r.sender>>
          /\ IF p[s].init THEN r.to = n /\ p[s].local = r.idx
                          ELSE r.to = Other(n) /\ p[s].local = r.sender
    BY DEF PeerInv, KeypairInv, Rooted
  <1>2. PICK e \in InitsOf(N) : e.idx = p.handshake
    BY DEF PeerInv, HandshakeInv
  <1>3. CASE p[s].init
    <2>1. PICK d \in DataOf(N) : d.byInit /\ d.key = p[s].key
      BY <1>3 DEF PeerInv, KeypairInv, Shared, Used
    <2>2. PICK u \in RespsOf(N) : d.key = <<u.idx, u.sender>> /\ u.to = Other(d.to)
      BY <2>1 DEF DataInv
    <2>3. u.to = r.to /\ r.to = n
      BY <1>1, <1>3, <2>1, <2>2 DEF HandshakesInv
    <2>4. d.to \in Node
      BY MessageKinds DEF DataOf
    <2>5. d.to = Other(n)
      BY <2>2, <2>3, <2>4, TwoDevices
    <2>6. d.key[1] # p.handshake
      BY <2>1, <2>5 DEF PeerInv, HandshakeInv
    <2> QED
      BY <1>1, <1>3, <2>1, <2>6
  <1>4. CASE ~ p[s].init
    BY <1>1, <1>2, <1>4 DEF HandshakesInv
  <1> QED
    BY <1>3, <1>4

\* A peer with a new session in one slot, and at most one old one.
LEMMA RenewedKeeps ==
  ASSUME NEW N, NEW R, NEW n, NEW q,
         NEW new \in Slots, NEW old \in Slots, new # old,
         KeypairInv(N, R, n, q[new]), KeypairInv(N, R, n, q[old]),
         \A s \in Slots : s # new /\ s # old => ~ q[s].valid /\ q[s].key = <<0, 0>>,
         q[old].valid => q[old].local # q[new].local,
         q.handshake = 0
  PROVE  PeerInv(N, R, n, q)
  <1>1. ASSUME NEW s \in Slots PROVE KeypairInv(N, R, n, q[s])
    <2>1. CASE s # new /\ s # old
      BY <2>1 DEF KeypairInv
    <2> QED
      BY <2>1
  <1>2. SlotsInv(q)
    BY DEF SlotsInv
  <1>3. HandshakeInv(N, n, q.handshake)
    BY DEF HandshakeInv
  <1> QED
    BY <1>1, <1>2, <1>3 DEF PeerInv

\* process_response_message: the session starts, and its first packet is sent.
LEMMA ProcessResponseCases ==
  ASSUME TypeOK, NEW n \in Node, NEW p \in Peers, NEW m, m.sender \in 0 .. MaxIndex,
         NEW q, q = InitiatorStarts(n, p, p.handshake, m.sender),
         NEW k, k = Initiated(n, p.handshake, m.sender)
  PROVE  /\ q \in Peers /\ q.curr = k /\ q["curr"] = k
         /\ ProcessResponse(n, p, m).peer = Sent(n, q, "curr")
         /\ ProcessResponse(n, p, m).out = {Data(n, k, Empty)}
  <1>1. p.handshake \in 0 .. MaxIndex
    BY DEF Peers
  <1>2. q \in Peers /\ q.curr = k
    BY <1>1, InitiatorSession
  <1>3. k \in Keypairs /\ k.valid /\ k.init = TRUE /\ k.born = uptime[n]
    BY <1>1, NewKeypairs DEF Initiated
  <1>4. ProcessResponse(n, p, m) = Output(n, q, Empty)
    BY DEF ProcessResponse, InitiatorStarts
  <1>5. SendingSlot(q) = "curr" /\ q["curr"] = k
    BY <1>2, <1>3 DEF SendingSlot, Peers
  <1>6. CanSend(n, k)
    <2>1. uptime[n] \in Nat /\ RejectAfter \in Nat /\ RejectAfter >= 1
      BY Numbers DEF TypeOK
    <2> QED
      BY <1>3, <2>1 DEF CanSend, Expired
  <1>7. /\ Output(n, q, Empty).peer = Sent(n, q, "curr")
        /\ Output(n, q, Empty).out = {Data(n, k, Empty)}
    <2>1. PICK s : s = SendingSlot(q)
      OBVIOUS
    <2>2. /\ CanSend(n, q[s]) => /\ Output(n, q, Empty).peer = Sent(n, q, s)
                                 /\ Output(n, q, Empty).out = {Data(n, q[s], Empty)}
      BY <1>2, <2>1, OutputCases
    <2> QED
      BY <1>5, <1>6, <2>1, <2>2
  <1> QED
    BY <1>2, <1>4, <1>5, <1>7

LEMMA ProcessResponseKeeps ==
  ASSUME TypeOK, NEW N, N \subseteq Messages, HandshakesInv(N, index), DataInv(N),
         NEW R, NEW n \in Node, NEW p \in Peers, PeerInv(N, R, n, p),
         NEW m \in RespsOf(N), m.to = n, m.idx = p.handshake
  PROVE  /\ HandshakesInv(N \cup ProcessResponse(n, p, m).out, index)
         /\ DataInv(N \cup ProcessResponse(n, p, m).out)
         /\ PeerInv(N \cup ProcessResponse(n, p, m).out, R, n, ProcessResponse(n, p, m).peer)
  <1>0. PICK q, k, d : /\ q = InitiatorStarts(n, p, p.handshake, m.sender)
                       /\ k = Initiated(n, p.handshake, m.sender)
                       /\ d = Data(n, k, Empty)
    OBVIOUS
  <1>1. /\ index \in 0 .. MaxIndex /\ index \in Nat /\ m.sender \in 0 .. MaxIndex
        /\ p.handshake \in 0 .. MaxIndex /\ p.handshake # 0 /\ Empty \in Nat
    <2>1. index \in 0 .. MaxIndex /\ index \in Nat
      BY Numbers DEF TypeOK
    <2>2. m.sender \in 1 .. index
      BY DEF HandshakesInv
    <2>3. PICK e \in InitsOf(N) : e.idx = m.idx
      BY DEF HandshakesInv
    <2>4. e.idx \in 1 .. index
      BY DEF HandshakesInv
    <2> QED
      BY <2>1, <2>2, <2>3, <2>4, Numbers DEF Empty
  <1>2. /\ q \in Peers /\ q.curr = k /\ q["curr"] = k
        /\ ProcessResponse(n, p, m).peer = Sent(n, q, "curr")
        /\ ProcessResponse(n, p, m).out = {d}
    BY <1>0, <1>1, ProcessResponseCases
  <1>3. /\ k \in Keypairs /\ k.valid /\ k.init = TRUE /\ k.local = p.handshake
        /\ k.remote = m.sender /\ k.tx = 0 /\ k.key = <<p.handshake, m.sender>>
    BY <1>0, <1>1, NewKeypairs DEF Initiated
  <1>5. /\ ~ q.next.valid /\ q.next \in {p.next, ZeroKeypair} /\ q.prev \in {p.next, p.curr}
        /\ q.handshake = 0
    BY <1>0, <1>1, InitiatorSession
  <1>6. /\ d.type = "data" /\ d.to = Other(n) /\ d.key = k.key
        /\ d.byInit = TRUE /\ d.ctr = 0
    BY <1>0, <1>1, <1>3, DataType
  <1>7. Rooted(N, n, k)
    BY <1>3 DEF Rooted
  <1>8. \A x \in DataOf(N) : x.to = Other(n) /\ x.byInit => x.key[1] # k.local
    BY <1>1, <1>3 DEF PeerInv, HandshakeInv
  <1>9. PICK M : M = N \cup {d}
    OBVIOUS
  <1>10. HandshakesInv(M, index) /\ DataInv(M)
    BY <1>0, <1>1, <1>3, <1>7, <1>8, <1>9, AddData
  <1>11. DataOf(M) = DataOf(N) \cup {d} /\ RespsOf(M) = RespsOf(N) /\ N \subseteq M
    BY <1>6, <1>9 DEF DataOf, RespsOf
  <1>12. PICK z : z = Sent(n, q, "curr")
    OBVIOUS
  <1>13. /\ z["curr"].valid /\ z["curr"].init = TRUE /\ z["curr"].local = k.local
         /\ z["curr"].remote = k.remote /\ z["curr"].key = k.key /\ z["curr"].tx = 1
         /\ z["next"] = q.next /\ z["prev"] = q.prev /\ z.handshake = 0
    <2>1. /\ z["curr"] = [q["curr"] EXCEPT !.tx = @ + 1]
          /\ z["next"] = q["next"] /\ z["prev"] = q["prev"] /\ z.handshake = q.handshake
      BY <1>2, <1>12, SentSlot DEF Slots
    <2>2. q["next"] = q.next /\ q["prev"] = q.prev
      BY <1>2 DEF Peers
    <2> QED
      BY <1>2, <1>3, <1>5, <2>1, <2>2 DEF Keypairs
  <1>14. KeypairInv(M, R, n, z["curr"])
    <2>1. Rooted(M, n, z["curr"])
      BY <1>3, <1>7, <1>11, <1>13 DEF Rooted
    <2>2. Shared(M, z["curr"])
      BY <1>3, <1>6, <1>11, <1>13 DEF Shared, Used
    <2>3. Spent(M, R, n, z["curr"])
      <3>1. \A x \in DataOf(N) : x.to = Other(n) /\ x.byInit = TRUE => x.key # k.key
        BY <1>3, <1>8
      <3> QED
        BY <1>6, <1>11, <1>13, <3>1 DEF Spent
    <2> QED
      BY <1>13, <2>1, <2>2, <2>3 DEF KeypairInv
  <1>15. PICK from \in Slots : z["prev"] = p[from]
    BY <1>5, <1>13 DEF Slots, Peers
  <1>16. p[from].valid => p[from].local # k.local
    BY <1>1, <1>3, HandshakeIsNew
  <1>17. KeypairInv(M, R, n, p[from])
    <2>1. KeypairInv(N, R, n, p[from])
      BY DEF PeerInv
    <2>2. p[from].valid => Rooted(M, n, p[from]) /\ Shared(M, p[from])
      BY <1>11, <2>1 DEF KeypairInv, Rooted, Shared, Used
    <2>3. p[from].valid => ~ (p[from].key = k.key /\ p[from].init = k.init)
      BY <1>7, <1>16, <2>1, SameSession DEF KeypairInv
    <2>4. p[from].valid => Spent(M, R, n, p[from])
      BY <1>3, <1>6, <1>11, <2>1, <2>3 DEF KeypairInv, Spent
    <2> QED
      BY <2>1, <2>2, <2>4 DEF KeypairInv
  <1>18. ~ z["next"].valid /\ z["next"].key = <<0, 0>>
    <2>1. p.next = p["next"]
      BY DEF Peers
    <2>2. ~ p["next"].valid => p["next"].key = <<0, 0>>
      BY DEF PeerInv, KeypairInv, Slots
    <2> QED
      BY <1>5, <1>13, <2>1, <2>2, ZeroType
  <1>19. PeerInv(M, R, n, z)
    <2>1. \A s \in Slots : s # "curr" /\ s # "prev" => s = "next"
      BY DEF Slots
    <2>2. "curr" \in Slots /\ "prev" \in Slots /\ "curr" # "prev"
      BY DEF Slots
    <2> QED
      BY <1>13, <1>14, <1>15, <1>16, <1>17, <1>18, <2>1, <2>2, RenewedKeeps
  <1> QED
    BY <1>2, <1>9, <1>10, <1>12, <1>19

\* wireguardif_send_handshake_response: a session under two fresh indices.
LEMMA ResponseType ==
  ASSUME TypeOK, CanDraw, NEW n \in Node, NEW p \in Peers, NEW m \in InitMessages,
         m.idx \in 0 .. MaxIndex
  PROVE  /\ SendHandshakeResponse(n, p, m).peer \in Peers
         /\ SendHandshakeResponse(n, p, m).peer["next"] = Responded(n, index + 1, m.idx)
         /\ SendHandshakeResponse(n, p, m).peer["prev"] = ZeroKeypair
         /\ SendHandshakeResponse(n, p, m).peer["curr"] = p["curr"]
         /\ SendHandshakeResponse(n, p, m).peer.handshake = 0
         /\ SendHandshakeResponse(n, p, m).peer.lastTx = p.lastTx
         /\ SendHandshakeResponse(n, p, m).peer.greatest = m.ts
         /\ SendHandshakeResponse(n, p, m).out = {Response(n, m)}
         /\ Response(n, m) \in RespMessages
         /\ Response(n, m).to = Other(n) /\ Response(n, m).idx = m.idx
         /\ Response(n, m).sender = index + 1
  <1>1. index \in Nat /\ index + 1 \in 0 .. MaxIndex /\ m.idx \in Nat /\ m.ts \in Nat
    BY Numbers DEF TypeOK, CanDraw, InitMessages
  <1>2. PICK pp : pp = [p EXCEPT !.greatest = m.ts]
    OBVIOUS
  <1>3. pp \in Peers /\ pp.greatest = m.ts /\ pp.lastTx = p.lastTx /\ pp.curr = p.curr
    BY <1>1, <1>2 DEF Peers
  <1>4. PICK q : q = ResponderStarts(n, pp, index + 1, m.idx)
    OBVIOUS
  <1>5. /\ q \in Peers /\ q.next = Responded(n, index + 1, m.idx)
        /\ q.prev = ZeroKeypair /\ q.curr = pp.curr
        /\ q.handshake = 0 /\ q.lastTx = pp.lastTx /\ q.greatest = pp.greatest
    BY <1>1, <1>3, <1>4, ResponderSession
  <1>6. q = StartSession(n, [p EXCEPT !.greatest = m.ts], FALSE, index + 1, m.idx)
    BY <1>2, <1>4 DEF ResponderStarts
  <1>7. SendHandshakeResponse(n, p, m).peer = q
        /\ SendHandshakeResponse(n, p, m).out = {Response(n, m)}
    BY <1>6 DEF SendHandshakeResponse, Result
  <1>8. q["next"] = q.next /\ q["prev"] = q.prev /\ q["curr"] = q.curr /\ p["curr"] = p.curr
    OBVIOUS
  <1>9. Response(n, m) \in RespMessages
        /\ Response(n, m).to = Other(n) /\ Response(n, m).idx = m.idx
        /\ Response(n, m).sender = index + 1
    BY <1>1, TwoDevices DEF Response, RespMessages
  <1> QED
    BY <1>3, <1>5, <1>7, <1>8, <1>9

LEMMA ResponseKeeps ==
  ASSUME TypeOK, CanDraw, NEW N, N \subseteq Messages, HandshakesInv(N, index), DataInv(N),
         NEW R, NEW n \in Node, NEW p \in Peers, PeerInv(N, R, n, p),
         NEW m \in InitsOf(N), m.to = n
  PROVE  /\ HandshakesInv(N \cup SendHandshakeResponse(n, p, m).out, index + 1)
         /\ DataInv(N \cup SendHandshakeResponse(n, p, m).out)
         /\ PeerInv(N \cup SendHandshakeResponse(n, p, m).out, R, n,
                    SendHandshakeResponse(n, p, m).peer)
  <1>0. PICK q, d, k, M : /\ q = SendHandshakeResponse(n, p, m).peer
                          /\ d = Response(n, m) /\ k = Responded(n, index + 1, m.idx)
                          /\ M = N \cup {d}
    OBVIOUS
  <1>1. /\ index \in Nat /\ index + 1 \in 0 .. MaxIndex /\ m \in InitMessages
        /\ m.idx \in 1 .. index /\ m.idx \in 0 .. MaxIndex
    <2>1. index \in Nat /\ index + 1 \in 0 .. MaxIndex
      BY Numbers DEF TypeOK, CanDraw
    <2>2. m \in InitMessages
      BY MessageKinds DEF InitsOf
    <2>3. m.idx \in 1 .. index
      BY DEF HandshakesInv
    <2> QED
      BY <2>1, <2>2, <2>3, Numbers
  <1>2. /\ q \in Peers /\ q["next"] = k /\ q["prev"] = ZeroKeypair /\ q["curr"] = p["curr"]
        /\ q.handshake = 0 /\ SendHandshakeResponse(n, p, m).out = {d}
        /\ d \in RespMessages /\ d.to = Other(n) /\ d.idx = m.idx /\ d.sender = index + 1
    BY <1>0, <1>1, ResponseType
  <1>3. /\ k.valid /\ k.init = FALSE /\ k.rx = FALSE /\ k.local = index + 1
        /\ k.remote = m.idx /\ k.key = <<m.idx, index + 1>>
    BY <1>0 DEF Responded
  <1>4. HandshakesInv(M, index + 1) /\ DataInv(M)
    <2>1. m.to = Other(d.to)
      BY <1>2, TwoDevices
    <2> QED
      BY <1>0, <1>1, <1>2, <2>1, AddResponse
  <1>5. DataOf(M) = DataOf(N) /\ d \in RespsOf(M) /\ N \subseteq M
    BY <1>0, <1>2 DEF DataOf, RespsOf, RespMessages
  <1>6. KeypairInv(M, R, n, k)
    <2>1. Rooted(M, n, k)
      BY <1>2, <1>3, <1>5 DEF Rooted
    <2>2. Shared(M, k)
      BY <1>3 DEF Shared
    <2>3. Spent(M, R, n, k)
      <3>1. \A x \in DataOf(N) : \E r \in RespsOf(N) : x.key[2] = r.sender
        BY DEF DataInv
      <3>2. \A r \in RespsOf(N) : r.sender # index + 1
        BY <1>1 DEF HandshakesInv
      <3>3. k.key[2] = index + 1
        BY <1>3
      <3>4. \A x \in DataOf(M) : x.key # k.key
        BY <1>5, <3>1, <3>2, <3>3
      <3> QED
        BY <3>4 DEF Spent
    <2> QED
      BY <1>3, <2>1, <2>2, <2>3 DEF KeypairInv
  <1>7. KeypairInv(M, R, n, p["curr"])
    <2>1. PeerInv(M, R, n, p)
      <3>1. \A x \in DataOf(M) : x \in N
        BY <1>5 DEF DataOf
      <3> QED
        BY <1>5, <3>1, PeerMonotone
    <2> QED
      BY <2>1 DEF PeerInv, Slots
  <1>8. p["curr"].valid => p["curr"].local # k.local
    <2>1. p["curr"].valid => Rooted(N, n, p["curr"])
      BY DEF PeerInv, KeypairInv, Slots
    <2>2. \A r \in RespsOf(N) : r.sender # index + 1 /\ r.idx # index + 1
      BY <1>1 DEF HandshakesInv
    <2> QED
      BY <1>3, <2>1, <2>2 DEF Rooted
  <1>9. PeerInv(M, R, n, q)
    <2>1. /\ "next" \in Slots /\ "curr" \in Slots /\ "next" # "curr"
          /\ \A s \in Slots : s # "next" /\ s # "curr" => s = "prev"
      BY DEF Slots
    <2> QED
      BY <1>2, <1>6, <1>7, <1>8, <2>1, ZeroType, RenewedKeeps
  <1> QED
    BY <1>0, <1>2, <1>4, <1>9

\* A packet that authenticates moves the next keypair, and no other.
LEMMA AuthenticatedCases ==
  ASSUME NEW n, NEW p \in Peers, NEW s \in Slots, NEW m, NEW q, q = Authenticated(n, p, s, m)
  PROVE  /\ q \in Peers
         /\ q.handshake = p.handshake /\ q.lastTx = p.lastTx /\ q.greatest = p.greatest
         /\ s = "next" => /\ q["prev"] = p["curr"] /\ q["next"] = ZeroKeypair
                          /\ q["curr"] = [p["next"] EXCEPT !.rx = TRUE]
         /\ s # "next" => /\ q[s] = [p[s] EXCEPT !.rx = TRUE]
                          /\ \A t \in Slots : t # s => q[t] = p[t]
  <1>1. PICK pp, u : pp = [p EXCEPT ![s].rx = TRUE] /\ u = KeypairUpdate(pp, s)
    OBVIOUS
  <1>2. p[s] \in Keypairs /\ [p[s] EXCEPT !.rx = TRUE] \in Keypairs
    <2>1. p[s] \in Keypairs
      BY DEF Peers, Slots
    <2> QED
      BY <2>1 DEF Keypairs
  <1>3. /\ pp \in Peers /\ pp[s] = [p[s] EXCEPT !.rx = TRUE]
        /\ \A t \in Slots : t # s => pp[t] = p[t]
        /\ pp.handshake = p.handshake /\ pp.lastTx = p.lastTx /\ pp.greatest = p.greatest
    BY <1>1, <1>2 DEF Peers, Slots
  <1>4. /\ u \in Peers
        /\ u.handshake = pp.handshake /\ u.lastTx = pp.lastTx /\ u.greatest = pp.greatest
        /\ s = "next" => u["prev"] = pp["curr"] /\ u["next"] = ZeroKeypair /\ u["curr"] = pp["next"]
        /\ s # "next" => u = pp
    BY <1>1, <1>3, ZeroType DEF KeypairUpdate, Peers
  <1>5. PICK b \in BOOLEAN : q = [u EXCEPT !.sendHandshake = b]
    <2> DEFINE c == u.sendHandshake \/ (/\ u[s].init
                           /\ Expired(n, u[s].born, RejectAfter - Keepalive - RekeyTimeout))
    <2>1. c \in BOOLEAN
      OBVIOUS
    <2>2. q = [u EXCEPT !.sendHandshake = c]
      BY <1>1 DEF Authenticated
    <2> HIDE DEF c
    <2> QED
      BY <2>1, <2>2
  <1>6. /\ q \in Peers
        /\ q.handshake = u.handshake /\ q.lastTx = u.lastTx /\ q.greatest = u.greatest
        /\ \A t \in Slots : q[t] = u[t]
    BY <1>4, <1>5 DEF Peers, Slots
  <1>7. CASE s = "next"
    BY <1>3, <1>4, <1>6, <1>7 DEF Slots
  <1>8. CASE s # "next"
    BY <1>3, <1>4, <1>6, <1>8
  <1> QED
    BY <1>3, <1>4, <1>6, <1>7, <1>8

LEMMA AuthenticatedType ==
  ASSUME NEW n, NEW p \in Peers, NEW s \in Slots, NEW m
  PROVE  /\ Authenticated(n, p, s, m) \in Peers
         /\ Authenticated(n, p, s, m).handshake = p.handshake
         /\ Authenticated(n, p, s, m).lastTx = p.lastTx
         /\ Authenticated(n, p, s, m).greatest = p.greatest
  <1>1. PICK q : q = Authenticated(n, p, s, m)
    OBVIOUS
  <1>2. /\ q \in Peers
        /\ q.handshake = p.handshake /\ q.lastTx = p.lastTx /\ q.greatest = p.greatest
        /\ s = "next" => /\ q["prev"] = p["curr"] /\ q["next"] = ZeroKeypair
                         /\ q["curr"] = [p["next"] EXCEPT !.rx = TRUE]
        /\ s # "next" => /\ q[s] = [p[s] EXCEPT !.rx = TRUE]
                         /\ \A t \in Slots : t # s => q[t] = p[t]
    BY <1>1, AuthenticatedCases
  <1> QED
    BY <1>1, <1>2

LEMMA AuthenticatedKeeps ==
  ASSUME NEW N, N \subseteq Messages, DataInv(N), NEW R, NEW n \in Node, NEW p \in Peers,
         PeerInv(N, R, n, p), NEW s \in Slots, p[s].valid, NEW m \in DataOf(N),
         Decrypts(p[s], m), NEW q, q = Authenticated(n, p, s, m)
  PROVE  PeerInv(N, R, n, q)
  <1>1. /\ q \in Peers /\ q.handshake = p.handshake
        /\ s = "next" => /\ q["prev"] = p["curr"] /\ q["next"] = ZeroKeypair
                         /\ q["curr"] = [p["next"] EXCEPT !.rx = TRUE]
        /\ s # "next" => /\ q[s] = [p[s] EXCEPT !.rx = TRUE]
                         /\ \A t \in Slots : t # s => q[t] = p[t]
    BY AuthenticatedCases
  <1>2. PICK k : k = [p[s] EXCEPT !.rx = TRUE]
    OBVIOUS
  <1>3. /\ p[s] \in Keypairs /\ k \in Keypairs /\ k.valid = p[s].valid /\ k.init = p[s].init
        /\ k.local = p[s].local /\ k.remote = p[s].remote /\ k.key = p[s].key
        /\ k.tx = p[s].tx /\ k.tx >= p[s].tx
    <2>1. p[s] \in Keypairs
      BY DEF Peers, Slots
    <2>2. k \in Keypairs
      BY <1>2, <2>1 DEF Keypairs
    <2>3. /\ k.valid = p[s].valid /\ k.init = p[s].init
          /\ k.local = p[s].local /\ k.remote = p[s].remote /\ k.key = p[s].key
          /\ k.tx = p[s].tx
      BY <1>2, <2>1 DEF Keypairs
    <2>4. p[s].tx \in Nat
      BY <2>1 DEF Keypairs
    <2> QED
      BY <2>1, <2>2, <2>3, <2>4
  <1>4. Used(N, p[s].key)
    BY DEF Decrypts, DataInv
  <1>5. \A t \in Slots : KeypairInv(N, R, n, p[t])
    BY DEF PeerInv
  <1>6. KeypairInv(N, R, n, k)
    BY <1>3, <1>4, <1>5, KeypairGrows
  <1>7. CASE s = "next"
    <2>1. q["prev"] = p["curr"] /\ q["next"] = ZeroKeypair /\ q["curr"] = k
      BY <1>1, <1>2, <1>7
    <2>2. \A t \in Slots : t = "curr" \/ t = "next" \/ t = "prev"
      BY DEF Slots
    <2>3. "curr" \in Slots /\ "next" \in Slots /\ "prev" \in Slots
      BY DEF Slots
    <2>4. \A t \in Slots : KeypairInv(N, R, n, q[t])
      BY <1>5, <1>6, <2>1, <2>2, <2>3, ZeroIsNoSession
    <2>5. ~ (p["curr"].valid /\ p["curr"].local = k.local)
      BY <1>3, <1>7, <2>3 DEF PeerInv, SlotsInv
    <2>6. SlotsInv(q)
      BY <2>1, <2>2, <2>5, ZeroType DEF SlotsInv
    <2> QED
      BY <1>1, <2>4, <2>6 DEF PeerInv
  <1>8. CASE s # "next"
    <2>1. q[s] = k /\ \A t \in Slots : t # s => q[t] = p[t]
      BY <1>1, <1>2, <1>8
    <2>2. \A t \in Slots : q[t].valid = p[t].valid /\ q[t].local = p[t].local
      BY <1>3, <2>1
    <2>3. SlotsInv(q)
      BY <2>2 DEF PeerInv, SlotsInv
    <2> QED
      BY <1>1, <1>5, <1>6, <2>1, <2>3 DEF PeerInv
  <1> QED
    BY <1>7, <1>8

LEMMA RecordCases ==
  ASSUME NEW p \in Peers, NEW s \in Slots, NEW m \in DataMessages,
         NEW q, q = RecordPacket(p, s, m)
  PROVE  /\ q \in Peers
         /\ q.handshake = p.handshake /\ q.lastTx = p.lastTx /\ q.greatest = p.greatest
         /\ q[s] = [p[s] EXCEPT !.window = Checked(p[s].window, m.ctr + 1)]
         /\ \A t \in Slots : t # s => q[t] = p[t]
         /\ p[s] \in Keypairs /\ p[s].window \in Windows /\ m.ctr + 1 \in Sequence
         /\ Checked(p[s].window, m.ctr + 1) \in Windows
  <1>1. p[s] \in Keypairs /\ p[s].window \in Windows
    BY DEF Peers, Slots, Keypairs
  <1>2. m.ctr + 1 \in Sequence
    BY DEF DataMessages, Sequence
  <1>3. PICK w : w = Checked(p[s].window, m.ctr + 1)
    OBVIOUS
  <1>4. w \in Windows
    BY <1>1, <1>2, <1>3, CheckedType
  <1>5. q = [p EXCEPT ![s] = [p[s] EXCEPT !.window = w]]
    BY <1>3 DEF RecordPacket
  <1>6. [p[s] EXCEPT !.window = w] \in Keypairs
    BY <1>1, <1>4 DEF Keypairs
  <1> QED
    BY <1>1, <1>2, <1>3, <1>4, <1>5, <1>6 DEF Peers, Slots

LEMMA RecordKeeps ==
  ASSUME NEW N, N \subseteq Messages, NEW R, NEW n, NEW p \in Peers, PeerInv(N, R, n, p),
         NEW s \in Slots, NEW m \in DataMessages, NEW q, q = RecordPacket(p, s, m)
  PROVE  PeerInv(N, R, n, q)
  <1>1. /\ q \in Peers /\ q.handshake = p.handshake
        /\ q[s] = [p[s] EXCEPT !.window = Checked(p[s].window, m.ctr + 1)]
        /\ \A t \in Slots : t # s => q[t] = p[t]
    BY RecordCases
  <1>2. p[s] \in Keypairs /\ q[s] \in Keypairs
    BY <1>1 DEF Peers, Slots
  <1>3. /\ q[s].valid = p[s].valid /\ q[s].init = p[s].init /\ q[s].local = p[s].local
        /\ q[s].remote = p[s].remote /\ q[s].key = p[s].key /\ q[s].rx = p[s].rx
        /\ q[s].tx = p[s].tx /\ q[s].tx >= p[s].tx
    BY <1>1, <1>2 DEF Keypairs
  <1>4. KeypairInv(N, R, n, q[s])
    BY <1>2, <1>3, KeypairGrows DEF PeerInv
  <1>5. \A t \in Slots : q[t].valid = p[t].valid /\ q[t].local = p[t].local
    BY <1>1, <1>3
  <1>6. SlotsInv(q)
    BY <1>5 DEF PeerInv, SlotsInv
  <1> QED
    BY <1>1, <1>4, <1>6 DEF PeerInv

\* wireguardif_process_data_message, by what becomes of the packet.
LEMMA ProcessDataCases ==
  ASSUME NEW n, NEW p, NEW s, NEW m, NEW q, q = ProcessData(n, p, s, m)
  PROVE  \/ Expired(n, p[s].born, RejectAfter) /\ q = KeypairDestroy(p, s)
         \/ ~ Expired(n, p[s].born, RejectAfter) /\ ~ Decrypts(p[s], m) /\ q = p
         \/ /\ ~ Expired(n, p[s].born, RejectAfter) /\ Decrypts(p[s], m)
            /\ m.pkt = Empty /\ q = Authenticated(n, p, s, m)
         \/ /\ ~ Expired(n, p[s].born, RejectAfter) /\ Decrypts(p[s], m)
            /\ m.pkt # Empty /\ q = RecordPacket(Authenticated(n, p, s, m), s, m)
  <1>1. CASE Expired(n, p[s].born, RejectAfter)
    BY <1>1 DEF ProcessData
  <1>2. CASE ~ Expired(n, p[s].born, RejectAfter) /\ ~ Decrypts(p[s], m)
    BY <1>2 DEF ProcessData
  <1>3. CASE ~ Expired(n, p[s].born, RejectAfter) /\ Decrypts(p[s], m)
    BY <1>3 DEF ProcessData
  <1> QED
    BY <1>1, <1>2, <1>3

LEMMA ProcessDataKeeps ==
  ASSUME NEW N, N \subseteq Messages, DataInv(N), NEW R, NEW n \in Node, NEW p \in Peers,
         PeerInv(N, R, n, p), NEW s \in Slots, p[s].valid, NEW m \in DataOf(N),
         NEW q, q = ProcessData(n, p, s, m)
  PROVE  /\ q \in Peers /\ PeerInv(N, R, n, q)
         /\ q.handshake = p.handshake /\ q.lastTx = p.lastTx /\ q.greatest = p.greatest
  <1>1. CASE Expired(n, p[s].born, RejectAfter)
    <2>1. q = KeypairDestroy(p, s)
      BY <1>1, ProcessDataCases
    <2>2. /\ q \in Peers /\ q[s] = ZeroKeypair /\ \A t \in Slots : t # s => q[t] = p[t]
          /\ q.handshake = p.handshake /\ q.lastTx = p.lastTx /\ q.greatest = p.greatest
      BY <2>1, DestroyType
    <2>3. \A t \in Slots : q[t] = p[t] \/ q[t] = ZeroKeypair
      BY <2>2
    <2> QED
      BY <2>2, <2>3, ClearedKeeps
  <1>2. CASE ~ Expired(n, p[s].born, RejectAfter) /\ ~ Decrypts(p[s], m)
    BY <1>2, ProcessDataCases
  <1>3. CASE ~ Expired(n, p[s].born, RejectAfter) /\ Decrypts(p[s], m)
    <2>1. PICK a : a = Authenticated(n, p, s, m)
      OBVIOUS
    <2>2. /\ a \in Peers
          /\ a.handshake = p.handshake /\ a.lastTx = p.lastTx /\ a.greatest = p.greatest
      BY <2>1, AuthenticatedType
    <2>3. PeerInv(N, R, n, a)
      BY <1>3, <2>1, AuthenticatedKeeps
    <2>4. q = a \/ q = RecordPacket(a, s, m)
      BY <1>3, <2>1, ProcessDataCases
    <2>5. CASE q = a
      BY <2>2, <2>3, <2>5
    <2>6. CASE q = RecordPacket(a, s, m)
      <3>1. m \in DataMessages
        BY MessageKinds DEF DataOf
      <3>2. /\ q \in Peers
            /\ q.handshake = a.handshake /\ q.lastTx = a.lastTx /\ q.greatest = a.greatest
            /\ q[s] = [a[s] EXCEPT !.window = Checked(a[s].window, m.ctr + 1)]
        BY <2>2, <2>6, <3>1, RecordCases
      <3>3. PeerInv(N, R, n, q)
        BY <2>2, <2>3, <2>6, <3>1, RecordKeeps
      <3> QED
        BY <2>2, <3>2, <3>3
    <2> QED
      BY <2>4, <2>5, <2>6
  <1> QED
    BY <1>1, <1>2, <1>3

\* A device does not both start and answer one handshake.
LEMMA SameRole ==
  ASSUME NEW N, NEW i, HandshakesInv(N, i), NEW n \in Node, NEW k, NEW l,
         Rooted(N, n, k), Rooted(N, n, l), k.key = l.key
  PROVE  k.init <=> l.init
  <1>1. PICK r \in RespsOf(N) :
          /\ k.key = <<r.idx, r.sender>>
          /\ IF k.init THEN r.to = n /\ k.local = r.idx /\ k.remote = r.sender
                       ELSE r.to = Other(n) /\ k.local = r.sender /\ k.remote = r.idx
    BY DEF Rooted
  <1>2. PICK u \in RespsOf(N) :
          /\ l.key = <<u.idx, u.sender>>
          /\ IF l.init THEN u.to = n /\ l.local = u.idx /\ l.remote = u.sender
                       ELSE u.to = Other(n) /\ l.local = u.sender /\ l.remote = u.idx
    BY DEF Rooted
  <1>3. r.sender = u.sender
    <2>1. k.key[2] = r.sender
      BY <1>1
    <2>2. l.key[2] = u.sender
      BY <1>2
    <2> QED
      BY <2>1, <2>2
  <1>4. r.to = u.to /\ Other(n) # n
    BY <1>3, TwoDevices DEF HandshakesInv
  <1> QED
    BY <1>1, <1>2, <1>4

\* A key in use is not one of the handshake under way.
LEMMA UsedIsDone ==
  ASSUME NEW N, N \subseteq Messages, NEW i, HandshakesInv(N, i), DataInv(N),
         NEW n \in Node, NEW k, Rooted(N, n, k), Used(N, k.key), k.init,
         NEW h, HandshakeInv(N, n, h), h # 0
  PROVE  k.key[1] # h
  <1>1. PICK d \in DataOf(N) : d.byInit /\ d.key = k.key
    BY DEF Used
  <1>2. PICK r \in RespsOf(N) : k.key = <<r.idx, r.sender>> /\ r.to = n
    BY DEF Rooted
  <1>3. PICK u \in RespsOf(N) : d.key = <<u.idx, u.sender>> /\ u.to = Other(d.to)
    BY <1>1 DEF DataInv
  <1>4. r.sender = u.sender
    <2>1. k.key[2] = r.sender
      BY <1>2
    <2>2. d.key[2] = u.sender
      BY <1>3
    <2> QED
      BY <1>1, <2>1, <2>2
  <1>5. u.to = n /\ d.to \in Node
    BY <1>2, <1>4, MessageKinds DEF HandshakesInv, DataOf
  <1>6. d.to = Other(n)
    BY <1>3, <1>5, TwoDevices
  <1> QED
    BY <1>1, <1>6 DEF HandshakeInv

\* The second half of wireguardif_output: the packet was encrypted with b, and
\* the counter of the keypair that is now in its slot goes up.
LEMMA SendEndKeeps ==
  ASSUME TypeOK, NEW N, N \subseteq Messages, NEW i \in Nat, HandshakesInv(N, i), DataInv(N),
         NEW R, NEW RR, R \subseteq RR, NEW n \in Node, NEW p \in Peers, PeerInv(N, R, n, p),
         NEW s \in Slots, NEW b \in Keypairs, b.init \/ b.rx, NEW pkt \in Nat,
         Rooted(N, n, b), Shared(N, b),
         (p[s].key = b.key /\ p[s].tx = b.tx) \/ pkt \in RR,
         NEW M, M = N \cup {Data(n, b, pkt)}, NEW q, q = Sent(n, p, s)
  PROVE  HandshakesInv(M, i) /\ DataInv(M) /\ PeerInv(M, RR, n, q)
  <1>1. Used(N, b.key)
    BY DEF Shared
  <1>2. HandshakesInv(M, i) /\ DataInv(M)
    BY <1>1, AddData
  <1>3. PICK m : m = Data(n, b, pkt)
    OBVIOUS
  <1>4. /\ m \in DataMessages /\ m.to = Other(n) /\ m.key = b.key /\ m.byInit = b.init
        /\ m.ctr = b.tx /\ m.pkt = pkt /\ m.type = "data"
    BY <1>3, DataType
  <1>5. DataOf(M) = DataOf(N) \cup {m} /\ RespsOf(M) = RespsOf(N) /\ InitsOf(M) = InitsOf(N)
    BY <1>3, <1>4 DEF DataOf, RespsOf, InitsOf
  <1>6. \A key : Used(N, key) => Used(M, key)
    BY <1>5 DEF Used
  <1>7. PeerInv(N, R, n, q)
    BY SentKeeps
  <1>8. /\ q \in Peers /\ q[s] = [p[s] EXCEPT !.tx = @ + 1]
        /\ \A t \in Slots : t # s => q[t] = p[t]
        /\ q.handshake = p.handshake
    BY SentSlot
  <1>9. p[s] \in Keypairs
    BY DEF Peers, Slots
  <1>10. q[s].valid = p[s].valid /\ q[s].key = p[s].key /\ q[s].tx = p[s].tx + 1
    BY <1>8, <1>9 DEF Keypairs
  <1>11. ASSUME NEW t \in Slots, q[t].valid, q[t].key = b.key, p[s].key = b.key,
                p[s].tx = b.tx
         PROVE  b.tx < q[t].tx
    <2>1. Rooted(N, n, q[t])
      BY <1>7, <1>11 DEF PeerInv, KeypairInv
    <2>2. CASE p[s].valid
      <3>1. Rooted(N, n, q[s])
        BY <1>7, <1>10, <2>2 DEF PeerInv, KeypairInv
      <3>2. q[t].init <=> q[s].init
        BY <1>10, <1>11, <2>1, <3>1, SameRole
      <3>3. q[t] \in Keypairs /\ q[s] \in Keypairs
        BY <1>8 DEF Peers, Slots
      <3>4. q[t].init = q[s].init
        BY <3>2, <3>3 DEF Keypairs
      <3>5. q[t].local = q[s].local
        BY <1>10, <1>11, <2>1, <3>1, <3>4, SameSession
      <3>6. t = s
        BY <1>7, <1>10, <1>11, <2>2, <3>5 DEF PeerInv, SlotsInv
      <3>7. b.tx \in Nat
        BY DEF Keypairs
      <3> QED
        BY <1>10, <1>11, <3>6, <3>7
    <2>3. CASE ~ p[s].valid
      <3>1. b.key = <<0, 0>>
        BY <1>11, <2>3 DEF PeerInv, KeypairInv
      <3>2. PICK r \in RespsOf(N) : b.key = <<r.idx, r.sender>>
        BY DEF Rooted
      <3>3. r.sender = 0 /\ r.sender \in 1 .. i
        BY <3>1, <3>2 DEF HandshakesInv
      <3> QED
        BY <3>3
    <2> QED
      BY <2>2, <2>3
  <1>12. ASSUME NEW t \in Slots PROVE KeypairInv(M, RR, n, q[t])
    <2>1. KeypairInv(N, R, n, q[t])
      BY <1>7 DEF PeerInv
    <2>2. q[t].valid => Rooted(M, n, q[t]) /\ Shared(M, q[t])
      BY <1>5, <1>6, <2>1 DEF KeypairInv, Rooted, Shared
    <2>3. q[t].valid => Spent(N, R, n, q[t])
      BY <2>1 DEF KeypairInv
    <2>4. q[t].valid /\ m.key = q[t].key => m.ctr < q[t].tx \/ m.pkt \in RR
      BY <1>4, <1>11
    <2>5. q[t].valid => Spent(M, RR, n, q[t])
      BY <1>5, <2>3, <2>4 DEF Spent
    <2> QED
      BY <2>1, <2>2, <2>5 DEF KeypairInv
  <1>13. HandshakeInv(M, n, q.handshake)
    <2>1. HandshakeInv(N, n, q.handshake)
      BY <1>7 DEF PeerInv
    <2>2. q.handshake # 0 /\ m.byInit => m.key[1] # q.handshake
      BY <1>1, <1>4, <2>1, UsedIsDone
    <2> QED
      BY <1>5, <2>1, <2>2 DEF HandshakeInv
  <1>14. PeerInv(M, RR, n, q)
    BY <1>7, <1>12, <1>13 DEF PeerInv
  <1> QED
    BY <1>2, <1>14
-----------------------------------------------------------------------------
(***************************************************************************)
(* What a call leaves of the windows and the counters.                     *)
(***************************************************************************)
\* More counters than these no keypair uses: one for each packet of an
\* application, and one at most for each unit of time a keepalive can leave in.
Most == MaxUptime + MaxPackets

\* Every keypair of q is a new one, of an index in I, or one of p, which is not
\* unconfirmed again, and refuses what it refused.
Follows(p, q, I) ==
    \A s \in Slots : q[s].valid =>
        \/ q[s].local \in I
        \/ \E t \in Slots :
              /\ p[t].valid /\ p[t].local = q[s].local
              /\ s = "next" => t = "next"
              /\ \A x \in Sequence : ~ Fresh(p[t].window, x) => ~ Fresh(q[s].window, x)

\* A keypair of a device whose clock is at u, after b packets of its
\* application, has sent those and at most one keepalive per unit of time.
Counted(p, u, b) ==
    /\ p.lastTx <= u
    /\ \A s \in Slots : p[s].tx <= b + p.lastTx /\ p[s].window.counter <= Most

LEMMA ClearedFollows ==
  ASSUME NEW p, NEW q, \A s \in Slots : q[s] = p[s] \/ q[s] = ZeroKeypair
  PROVE  Follows(p, q, {})
  BY ZeroType DEF Follows

LEMMA FollowsOn ==
  ASSUME NEW p, NEW q, NEW r, NEW I, Follows(p, q, I), Follows(q, r, {})
  PROVE  Follows(p, r, I)
  <1>1. SUFFICES ASSUME NEW s \in Slots, r[s].valid
                 PROVE  \/ r[s].local \in I
                        \/ \E t \in Slots :
                              /\ p[t].valid /\ p[t].local = r[s].local
                              /\ s = "next" => t = "next"
                              /\ \A x \in Sequence :
                                    ~ Fresh(p[t].window, x) => ~ Fresh(r[s].window, x)
    BY DEF Follows
  <1>2. PICK u \in Slots :
           /\ q[u].valid /\ q[u].local = r[s].local
           /\ s = "next" => u = "next"
           /\ \A x \in Sequence : ~ Fresh(q[u].window, x) => ~ Fresh(r[s].window, x)
    BY <1>1 DEF Follows
  <1>3. \/ q[u].local \in I
        \/ \E t \in Slots :
              /\ p[t].valid /\ p[t].local = q[u].local
              /\ u = "next" => t = "next"
              /\ \A x \in Sequence : ~ Fresh(p[t].window, x) => ~ Fresh(q[u].window, x)
    BY <1>2 DEF Follows
  <1> QED
    BY <1>2, <1>3

LEMMA SentFollows ==
  ASSUME TypeOK, NEW n \in Node, NEW p \in Peers, NEW s \in Slots, NEW q, q = Sent(n, p, s)
  PROVE  Follows(p, q, {})
  <1>1. /\ q \in Peers /\ q[s] = [p[s] EXCEPT !.tx = @ + 1]
        /\ \A t \in Slots : t # s => q[t] = p[t]
        /\ q.handshake = p.handshake
    BY SentSlot
  <1>2. p[s] \in Keypairs
    BY DEF Peers, Slots
  <1>3. q[s].valid = p[s].valid /\ q[s].local = p[s].local /\ q[s].window = p[s].window
    BY <1>1, <1>2 DEF Keypairs
  <1>4. \A t \in Slots :
           q[t].valid = p[t].valid /\ q[t].local = p[t].local /\ q[t].window = p[t].window
    BY <1>1, <1>3
  <1> QED
    BY <1>4 DEF Follows

LEMMA OutputFollows ==
  ASSUME TypeOK, NEW n \in Node, NEW p \in Peers, NEW q, q = Output(n, p, Empty).peer
  PROVE  Follows(p, q, {})
  <1>0. PICK s \in Slots : s = SendingSlot(p)
    BY OutputRefusedType
  <1>2. CASE CanSend(n, p[s])
    <2>1. q = Sent(n, p, s)
      BY <1>0, <1>2, OutputCases
    <2> QED
      BY <2>1, SentFollows
  <1>3. CASE ~ CanSend(n, p[s])
    <2>1. q = OutputRefused(p)
      BY <1>0, <1>3, OutputCases
    <2>2. \A t \in Slots : q[t] = p[t] \/ q[t] = ZeroKeypair
      BY <2>1, OutputRefusedType
    <2> QED
      BY <2>2, ClearedFollows
  <1> QED
    BY <1>2, <1>3

LEMMA ResponseFollows ==
  ASSUME TypeOK, CanDraw, NEW n \in Node, NEW p \in Peers, NEW m \in InitMessages,
         m.idx \in 0 .. MaxIndex, NEW q, q = SendHandshakeResponse(n, p, m).peer
  PROVE  Follows(p, q, {index + 1})
  <1>1. /\ q["next"] = Responded(n, index + 1, m.idx)
        /\ q["prev"] = ZeroKeypair /\ q["curr"] = p["curr"]
    BY ResponseType
  <1>2. q["next"].local = index + 1
    BY <1>1 DEF Responded
  <1> QED
    BY <1>1, <1>2, ZeroType DEF Follows, Slots

LEMMA ProcessResponseFollows ==
  ASSUME TypeOK, NEW n \in Node, NEW p \in Peers, NEW m, m.sender \in 0 .. MaxIndex,
         NEW z, z = ProcessResponse(n, p, m).peer
  PROVE  Follows(p, z, {p.handshake})
  <1>1. PICK q, k : /\ q = InitiatorStarts(n, p, p.handshake, m.sender)
                    /\ k = Initiated(n, p.handshake, m.sender)
    OBVIOUS
  <1>2. /\ q \in Peers /\ q.curr = k /\ q["curr"] = k
        /\ ProcessResponse(n, p, m).peer = Sent(n, q, "curr")
        /\ ProcessResponse(n, p, m).out = {Data(n, k, Empty)}
    BY <1>1, ProcessResponseCases
  <1>3. p.handshake \in 0 .. MaxIndex
    BY DEF Peers
  <1>4. ~ q.next.valid /\ q.prev \in {p.next, p.curr}
    BY <1>1, <1>3, InitiatorSession
  <1>5. k.local = p.handshake
    BY <1>1 DEF Initiated
  <1>6. Follows(p, q, {p.handshake})
    <2>1. /\ q["next"] = q.next /\ q["prev"] = q.prev
          /\ p["next"] = p.next /\ p["curr"] = p.curr
      OBVIOUS
    <2> QED
      BY <1>2, <1>4, <1>5, <2>1 DEF Follows, Slots
  <1>7. Follows(q, z, {})
    <2>1. "curr" \in Slots
      BY DEF Slots
    <2> QED
      BY <1>2, <2>1, SentFollows
  <1> QED
    BY <1>6, <1>7, FollowsOn

LEMMA AuthenticatedFollows ==
  ASSUME NEW n, NEW p \in Peers, NEW s \in Slots, NEW m, NEW q, q = Authenticated(n, p, s, m)
  PROVE  Follows(p, q, {})
  <1>1. /\ q \in Peers
        /\ q.handshake = p.handshake /\ q.lastTx = p.lastTx /\ q.greatest = p.greatest
        /\ s = "next" => /\ q["prev"] = p["curr"] /\ q["next"] = ZeroKeypair
                         /\ q["curr"] = [p["next"] EXCEPT !.rx = TRUE]
        /\ s # "next" => /\ q[s] = [p[s] EXCEPT !.rx = TRUE]
                         /\ \A t \in Slots : t # s => q[t] = p[t]
    BY AuthenticatedCases
  <1>2. PICK k : k = [p[s] EXCEPT !.rx = TRUE]
    OBVIOUS
  <1>3. k.valid = p[s].valid /\ k.local = p[s].local /\ k.window = p[s].window
    <2>1. p[s] \in Keypairs
      BY DEF Peers, Slots
    <2> QED
      BY <1>2, <2>1 DEF Keypairs
  <1>4. CASE s = "next"
    <2>1. q["prev"] = p["curr"] /\ q["next"] = ZeroKeypair /\ q["curr"] = k
      BY <1>1, <1>2, <1>4
    <2> QED
      BY <1>3, <1>4, <2>1, ZeroType DEF Follows, Slots
  <1>5. CASE s # "next"
    <2>1. \A t \in Slots :
             q[t].valid = p[t].valid /\ q[t].local = p[t].local /\ q[t].window = p[t].window
      BY <1>1, <1>2, <1>3, <1>5
    <2> QED
      BY <2>1 DEF Follows
  <1> QED
    BY <1>4, <1>5

LEMMA RecordFollows ==
  ASSUME NEW p \in Peers, NEW s \in Slots, NEW m \in DataMessages,
         p[s].window.counter < Modulus, m.ctr + 1 < Modulus, NEW q, q = RecordPacket(p, s, m)
  PROVE  Follows(p, q, {})
  <1>1. /\ q \in Peers
        /\ q.handshake = p.handshake /\ q.lastTx = p.lastTx /\ q.greatest = p.greatest
        /\ q[s] = [p[s] EXCEPT !.window = Checked(p[s].window, m.ctr + 1)]
        /\ \A t \in Slots : t # s => q[t] = p[t]
        /\ p[s] \in Keypairs /\ p[s].window \in Windows /\ m.ctr + 1 \in Sequence
        /\ Checked(p[s].window, m.ctr + 1) \in Windows
    BY RecordCases
  <1>2. /\ q[s].valid = p[s].valid /\ q[s].local = p[s].local
        /\ q[s].window = Checked(p[s].window, m.ctr + 1)
    BY <1>1 DEF Keypairs
  <1>3. \A x \in Sequence : ~ Fresh(p[s].window, x) => ~ Fresh(q[s].window, x)
    BY <1>1, <1>2, StaleStaysStale
  <1> QED
    BY <1>1, <1>2, <1>3 DEF Follows

LEMMA ProcessDataFollows ==
  ASSUME NEW n, NEW p \in Peers, NEW s \in Slots, NEW m \in DataMessages,
         p[s].window.counter < Modulus, m.ctr + 1 < Modulus, NEW q, q = ProcessData(n, p, s, m)
  PROVE  Follows(p, q, {})
  <1>1. CASE Expired(n, p[s].born, RejectAfter)
    <2>1. q = KeypairDestroy(p, s)
      BY <1>1, ProcessDataCases
    <2>2. \A t \in Slots : q[t] = p[t] \/ q[t] = ZeroKeypair
      BY <2>1, DestroyType
    <2> QED
      BY <2>2, ClearedFollows
  <1>2. CASE ~ Expired(n, p[s].born, RejectAfter) /\ ~ Decrypts(p[s], m)
    <2>1. q = p
      BY <1>2, ProcessDataCases
    <2> QED
      BY <2>1, ClearedFollows
  <1>3. CASE ~ Expired(n, p[s].born, RejectAfter) /\ Decrypts(p[s], m)
    <2>1. PICK a : a = Authenticated(n, p, s, m)
      OBVIOUS
    <2>2. a \in Peers
      BY <2>1, AuthenticatedType
    <2>3. Follows(p, a, {})
      BY <2>1, AuthenticatedFollows
    <2>4. q = a \/ q = RecordPacket(a, s, m)
      BY <1>3, <2>1, ProcessDataCases
    <2>5. a[s].window.counter < Modulus
      <3>1. /\ a \in Peers
            /\ a.handshake = p.handshake /\ a.lastTx = p.lastTx /\ a.greatest = p.greatest
            /\ s = "next" => /\ a["prev"] = p["curr"] /\ a["next"] = ZeroKeypair
                             /\ a["curr"] = [p["next"] EXCEPT !.rx = TRUE]
            /\ s # "next" => /\ a[s] = [p[s] EXCEPT !.rx = TRUE]
                             /\ \A t \in Slots : t # s => a[t] = p[t]
        BY <2>1, AuthenticatedCases, SMTT(30)
      <3>2. CASE s = "next"
        <4>1. a[s].window.counter = 0
          BY <3>1, <3>2, ZeroType
        <4>2. 0 < Modulus
          BY WindowAssumption
        <4> QED
          BY <4>1, <4>2
      <3>3. CASE s # "next"
        <4>1. p[s] \in Keypairs
          BY DEF Peers, Slots
        <4>2. a[s].window = p[s].window
          BY <3>1, <3>3, <4>1 DEF Keypairs
        <4> QED
          BY <4>2
      <3> QED
        BY <3>2, <3>3
    <2>6. CASE q = RecordPacket(a, s, m)
      <3>1. Follows(a, q, {})
        BY <2>2, <2>5, <2>6, RecordFollows
      <3> QED
        BY <2>3, <3>1, FollowsOn
    <2> QED
      BY <2>3, <2>4, <2>6
  <1> QED
    BY <1>1, <1>2, <1>3

\* The counters, helper by helper.
LEMMA CountedType ==
  ASSUME NEW p \in Peers, NEW s \in Slots
  PROVE  /\ p[s] \in Keypairs /\ p[s].tx \in Nat /\ p[s].window \in Windows
         /\ p[s].window.counter \in Nat /\ p.lastTx \in Nat /\ p.lastTx <= MaxUptime
         /\ Most \in Nat
  BY Numbers DEF Peers, Slots, Keypairs, Windows, Most

LEMMA ClearedCounted ==
  ASSUME NEW p \in Peers, NEW q, \A s \in Slots : q[s] = p[s] \/ q[s] = ZeroKeypair,
         q.lastTx = p.lastTx, NEW u, NEW b \in Nat, Counted(p, u, b)
  PROVE  Counted(q, u, b)
  <1>1. Most \in Nat /\ p.lastTx \in Nat
    BY CountedType DEF Slots
  <1>2. 0 <= b + p.lastTx /\ 0 <= Most
    BY <1>1
  <1>3. ASSUME NEW s \in Slots PROVE q[s].tx <= b + q.lastTx /\ q[s].window.counter <= Most
    <2>1. CASE q[s] = p[s]
      BY <2>1 DEF Counted
    <2>2. CASE q[s] = ZeroKeypair
      BY <1>2, <2>2, ZeroType
    <2> QED
      BY <2>1, <2>2
  <1> QED
    BY <1>3 DEF Counted

LEMMA SentCounted ==
  ASSUME TypeOK, NEW n \in Node, NEW p \in Peers, NEW s \in Slots, NEW q, q = Sent(n, p, s),
         NEW b \in Nat, NEW c \in Nat, b <= c, Counted(p, uptime[n], b),
         p[s].tx + 1 <= c + uptime[n]
  PROVE  Counted(q, uptime[n], c)
  <1>1. /\ q \in Peers /\ q[s] = [p[s] EXCEPT !.tx = @ + 1]
        /\ \A t \in Slots : t # s => q[t] = p[t]
        /\ q.handshake = p.handshake
        /\ q.lastTx = uptime[n]
    BY SentSlot
  <1>2. q[s].tx = p[s].tx + 1 /\ q[s].window = p[s].window
    <2>1. p[s] \in Keypairs
      BY DEF Peers, Slots
    <2> QED
      BY <1>1, <2>1 DEF Keypairs
  <1>3. uptime[n] \in Nat
    BY Numbers DEF TypeOK
  <1>4. ASSUME NEW t \in Slots
        PROVE  q[t].tx <= c + q.lastTx /\ q[t].window.counter <= Most
    <2>1. CASE t = s
      BY <1>1, <1>2, <1>3, <2>1 DEF Counted
    <2>2. CASE t # s
      <3>1. /\ p[t].tx \in Nat /\ p.lastTx \in Nat /\ p.lastTx <= uptime[n]
            /\ p[t].tx <= b + p.lastTx /\ p[t].window.counter <= Most
        BY CountedType DEF Counted
      <3> QED
        BY <1>1, <1>3, <2>2, <3>1
    <2> QED
      BY <2>1, <2>2
  <1> QED
    BY <1>1, <1>3, <1>4 DEF Counted

\* A keepalive waits for the clock to go on.
LEMMA OutputCounted ==
  ASSUME TypeOK, NEW n \in Node, NEW p \in Peers, NEW q, q = Output(n, p, Empty).peer,
         NEW b \in Nat, Counted(p, uptime[n], b), p.lastTx + 1 <= uptime[n]
  PROVE  Counted(q, uptime[n], b)
  <1>0. PICK s \in Slots : s = SendingSlot(p)
    BY OutputRefusedType
  <1>1. CASE CanSend(n, p[s])
    <2>1. q = Sent(n, p, s)
      BY <1>0, <1>1, OutputCases
    <2>2. p[s].tx \in Nat /\ p.lastTx \in Nat /\ uptime[n] \in Nat /\ p[s].tx <= b + p.lastTx
      BY CountedType, Numbers DEF TypeOK, Counted
    <2>3. p[s].tx + 1 <= b + uptime[n]
      BY <2>2
    <2> QED
      BY <2>1, <2>3, SentCounted
  <1>2. CASE ~ CanSend(n, p[s])
    <2>1. q = OutputRefused(p)
      BY <1>0, <1>2, OutputCases
    <2>2. (\A t \in Slots : q[t] = p[t] \/ q[t] = ZeroKeypair) /\ q.lastTx = p.lastTx
      BY <2>1, OutputRefusedType
    <2> QED
      BY <2>2, ClearedCounted
  <1> QED
    BY <1>1, <1>2

\* Each slot holds what a slot of p held, but for the window, or nothing sent.
LEMMA MovedCounted ==
  ASSUME NEW p \in Peers, NEW q, NEW u, NEW b \in Nat, Counted(p, u, b),
         q.lastTx = p.lastTx,
         \A s \in Slots : \/ q[s].tx = 0
                          \/ \E t \in Slots : q[s].tx = p[t].tx,
         \A s \in Slots : q[s].window.counter <= Most
  PROVE  Counted(q, u, b)
  <1>1. p.lastTx \in Nat /\ 0 <= b + p.lastTx
    BY CountedType DEF Slots
  <1> QED
    BY <1>1 DEF Counted

LEMMA AuthenticatedCounted ==
  ASSUME NEW n, NEW p \in Peers, NEW s \in Slots, NEW m, NEW q, q = Authenticated(n, p, s, m),
         NEW u, NEW b \in Nat, Counted(p, u, b)
  PROVE  Counted(q, u, b)
  <1>1. /\ q \in Peers
        /\ q.handshake = p.handshake /\ q.lastTx = p.lastTx /\ q.greatest = p.greatest
        /\ s = "next" => /\ q["prev"] = p["curr"] /\ q["next"] = ZeroKeypair
                         /\ q["curr"] = [p["next"] EXCEPT !.rx = TRUE]
        /\ s # "next" => /\ q[s] = [p[s] EXCEPT !.rx = TRUE]
                         /\ \A t \in Slots : t # s => q[t] = p[t]
    BY AuthenticatedCases
  <1>2. PICK k : k = [p[s] EXCEPT !.rx = TRUE]
    OBVIOUS
  <1>3. k.tx = p[s].tx /\ k.window = p[s].window
    <2>1. p[s] \in Keypairs
      BY DEF Peers, Slots
    <2> QED
      BY <1>2, <2>1 DEF Keypairs
  <1>4. Most \in Nat /\ \A t \in Slots : p[t].window.counter <= Most
    BY CountedType DEF Counted, Slots
  <1>5. CASE s = "next"
    <2>1. q["prev"] = p["curr"] /\ q["next"] = ZeroKeypair /\ q["curr"] = k
      BY <1>1, <1>2, <1>5
    <2>2. \A t \in Slots : t = "curr" \/ t = "next" \/ t = "prev"
      BY DEF Slots
    <2>3. "curr" \in Slots /\ "next" \in Slots
      BY DEF Slots
    <2>4. \A t \in Slots : q[t].tx = 0 \/ \E v \in Slots : q[t].tx = p[v].tx
      BY <1>3, <1>5, <2>1, <2>2, <2>3, ZeroType
    <2>5. \A t \in Slots : q[t].window.counter <= Most
      BY <1>3, <1>4, <1>5, <2>1, <2>2, <2>3, ZeroType
    <2> QED
      BY <1>1, <2>4, <2>5, MovedCounted
  <1>6. CASE s # "next"
    <2>1. \A t \in Slots : q[t].tx = p[t].tx /\ q[t].window = p[t].window
      BY <1>1, <1>2, <1>3, <1>6
    <2>2. \A t \in Slots : q[t].window.counter <= Most
      BY <1>4, <2>1
    <2> QED
      BY <1>1, <2>1, <2>2, MovedCounted
  <1> QED
    BY <1>5, <1>6

LEMMA RecordCounted ==
  ASSUME NEW p \in Peers, NEW s \in Slots, NEW m \in DataMessages, m.ctr + 1 <= Most,
         NEW q, q = RecordPacket(p, s, m), NEW u, NEW b \in Nat, Counted(p, u, b)
  PROVE  Counted(q, u, b)
  <1>1. /\ q \in Peers
        /\ q.handshake = p.handshake /\ q.lastTx = p.lastTx /\ q.greatest = p.greatest
        /\ q[s] = [p[s] EXCEPT !.window = Checked(p[s].window, m.ctr + 1)]
        /\ \A t \in Slots : t # s => q[t] = p[t]
        /\ p[s] \in Keypairs /\ p[s].window \in Windows /\ m.ctr + 1 \in Sequence
        /\ Checked(p[s].window, m.ctr + 1) \in Windows
    BY RecordCases
  <1>2. q[s].tx = p[s].tx /\ q[s].window = Checked(p[s].window, m.ctr + 1)
    BY <1>1 DEF Keypairs
  <1>3. /\ Checked(p[s].window, m.ctr + 1) \in Windows
        /\ Checked(p[s].window, m.ctr + 1).counter \in {p[s].window.counter, m.ctr + 1}
    BY <1>1, CheckedType
  <1>4. \A t \in Slots : q[t].tx = p[t].tx
    BY <1>1, <1>2
  <1>5. \A t \in Slots : q[t].window.counter <= Most
    <2>1. \A t \in Slots : p[t].window.counter <= Most
      BY DEF Counted
    <2>2. q[s].window.counter <= Most
      BY <1>2, <1>3, <2>1
    <2> QED
      BY <1>1, <2>1, <2>2
  <1> QED
    BY <1>1, <1>4, <1>5, MovedCounted

LEMMA ProcessDataCounted ==
  ASSUME NEW n, NEW p \in Peers, NEW s \in Slots, NEW m \in DataMessages, m.ctr + 1 <= Most,
         NEW q, q = ProcessData(n, p, s, m), NEW u, NEW b \in Nat, Counted(p, u, b)
  PROVE  Counted(q, u, b)
  <1>1. CASE Expired(n, p[s].born, RejectAfter)
    <2>1. q = KeypairDestroy(p, s)
      BY <1>1, ProcessDataCases
    <2>2. (\A t \in Slots : q[t] = p[t] \/ q[t] = ZeroKeypair) /\ q.lastTx = p.lastTx
      BY <2>1, DestroyType
    <2> QED
      BY <2>2, ClearedCounted
  <1>2. CASE ~ Expired(n, p[s].born, RejectAfter) /\ ~ Decrypts(p[s], m)
    <2>1. q = p
      BY <1>2, ProcessDataCases
    <2> QED
      BY <2>1
  <1>3. CASE ~ Expired(n, p[s].born, RejectAfter) /\ Decrypts(p[s], m)
    <2>1. PICK a : a = Authenticated(n, p, s, m)
      OBVIOUS
    <2>2. a \in Peers
      BY <2>1, AuthenticatedType
    <2>3. Counted(a, u, b)
      BY <2>1, AuthenticatedCounted
    <2>4. q = a \/ q = RecordPacket(a, s, m)
      BY <1>3, <2>1, ProcessDataCases
    <2>5. CASE q = RecordPacket(a, s, m)
      BY <2>2, <2>3, <2>5, RecordCounted
    <2> QED
      BY <2>3, <2>4, <2>5
  <1> QED
    BY <1>1, <1>2, <1>3

LEMMA ResponseCounted ==
  ASSUME TypeOK, CanDraw, NEW n \in Node, NEW p \in Peers, NEW m \in InitMessages,
         m.idx \in 0 .. MaxIndex, NEW q, q = SendHandshakeResponse(n, p, m).peer,
         NEW u, NEW b \in Nat, Counted(p, u, b)
  PROVE  Counted(q, u, b)
  <1>1. /\ q["next"] = Responded(n, index + 1, m.idx)
        /\ q["prev"] = ZeroKeypair /\ q["curr"] = p["curr"] /\ q.lastTx = p.lastTx
    BY ResponseType
  <1>2. q["next"].tx = 0 /\ q["next"].window.counter = 0
    BY <1>1 DEF Responded, EmptyWindow
  <1>3. Most \in Nat /\ \A t \in Slots : p[t].window.counter <= Most
    BY CountedType DEF Counted, Slots
  <1>4. \A t \in Slots : t = "curr" \/ t = "next" \/ t = "prev"
    BY DEF Slots
  <1>5. "curr" \in Slots
    BY DEF Slots
  <1>6. \A s \in Slots : q[s].tx = 0 \/ \E t \in Slots : q[s].tx = p[t].tx
    BY <1>1, <1>2, <1>4, <1>5, ZeroType
  <1>7. \A s \in Slots : q[s].window.counter <= Most
    BY <1>1, <1>2, <1>3, <1>4, <1>5, ZeroType
  <1> QED
    BY <1>1, <1>6, <1>7, MovedCounted

LEMMA ProcessResponseCounted ==
  ASSUME TypeOK, NEW n \in Node, NEW p \in Peers, NEW m, m.sender \in 0 .. MaxIndex,
         NEW z, z = ProcessResponse(n, p, m).peer,
         NEW b \in Nat, Counted(p, uptime[n], b)
  PROVE  Counted(z, uptime[n], b)
  <1>1. PICK q, k : /\ q = InitiatorStarts(n, p, p.handshake, m.sender)
                    /\ k = Initiated(n, p.handshake, m.sender)
    OBVIOUS
  <1>2. /\ q \in Peers /\ q.curr = k /\ q["curr"] = k
        /\ ProcessResponse(n, p, m).peer = Sent(n, q, "curr")
        /\ ProcessResponse(n, p, m).out = {Data(n, k, Empty)}
    BY <1>1, ProcessResponseCases
  <1>3. p.handshake \in 0 .. MaxIndex
    BY DEF Peers
  <1>4. /\ q \in Peers /\ q.curr = Initiated(n, p.handshake, m.sender)
        /\ ~ q.next.valid /\ q.next \in {p.next, ZeroKeypair}
        /\ q.prev \in {p.next, p.curr}
        /\ q.handshake = 0 /\ q.lastTx = p.lastTx /\ q.greatest = p.greatest
    BY <1>1, <1>3, InitiatorSession
  <1>5. k.tx = 0 /\ k.window.counter = 0
    BY <1>1 DEF Initiated, EmptyWindow
  <1>6. Counted(q, uptime[n], b)
    <2>1. /\ q["next"] = q.next /\ q["prev"] = q.prev
          /\ p["next"] = p.next /\ p["curr"] = p.curr
      OBVIOUS
    <2>2. Most \in Nat /\ \A t \in Slots : p[t].window.counter <= Most
      BY CountedType DEF Counted, Slots
    <2>3. \A t \in Slots : t = "curr" \/ t = "next" \/ t = "prev"
      BY DEF Slots
    <2>4. "curr" \in Slots /\ "next" \in Slots
      BY DEF Slots
    <2>5. q["next"] \in {p["next"], ZeroKeypair} /\ q["prev"] \in {p["next"], p["curr"]}
      BY <1>4, <2>1
    <2>6. \A s \in Slots : q[s].tx = 0 \/ \E t \in Slots : q[s].tx = p[t].tx
      BY <1>2, <1>5, <2>3, <2>4, <2>5, ZeroType
    <2>7. \A s \in Slots : q[s].window.counter <= Most
      BY <1>2, <1>5, <2>2, <2>3, <2>4, <2>5, ZeroType
    <2> QED
      BY <1>4, <2>6, <2>7, MovedCounted
  <1>7. uptime[n] \in Nat /\ uptime[n] >= 1 /\ "curr" \in Slots
    BY Numbers DEF TypeOK, Slots
  <1>8. q["curr"].tx + 1 <= b + uptime[n]
    BY <1>2, <1>5, <1>7
  <1>9. z = Sent(n, q, "curr")
    BY <1>2
  <1> QED
    BY <1>2, <1>6, <1>7, <1>8, <1>9, SentCounted
-----------------------------------------------------------------------------
(***************************************************************************)
(* Counters and packets on record.                                         *)
(***************************************************************************)
\* NoNonceReuse, of the messages N and the packets R of the race.
NonceInv(N, R) ==
    \A m, k \in DataOf(N) : SameNonce(m, k) /\ m.pkt # k.pkt => m.pkt \in R \/ k.pkt \in R

\* A packet sent under a counter that is spent no longer is new, and so it is
\* when the packet is of the race.
LEMMA NonceAdd ==
  ASSUME NEW N, N \subseteq Messages, NEW i, HandshakesInv(N, i), DataInv(N),
         NEW R, NonceInv(N, R), NEW RR, R \subseteq RR,
         NEW n \in Node, NEW k \in Keypairs, NEW pkt \in Nat, Rooted(N, n, k),
         Spent(N, R, n, k) \/ pkt \in RR
  PROVE  NonceInv(N \cup {Data(n, k, pkt)}, RR)
  <1>1. PICK d : d = Data(n, k, pkt)
    OBVIOUS
  <1>2. /\ d \in DataMessages /\ d.to = Other(n) /\ d.key = k.key /\ d.byInit = k.init
        /\ d.ctr = k.tx /\ d.pkt = pkt /\ d.type = "data"
    BY <1>1, DataType
  <1>3. PICK M : M = N \cup {d}
    OBVIOUS
  <1>4. DataOf(M) = DataOf(N) \cup {d}
    BY <1>2, <1>3 DEF DataOf
  <1>5. ASSUME NEW m \in DataOf(N), SameNonce(m, d), pkt \notin RR PROVE m.pkt \in RR
    <2>1. m.key = k.key /\ m.byInit = k.init /\ m.ctr = k.tx
      BY <1>2, <1>5 DEF SameNonce
    <2>2. PICK r \in RespsOf(N) :
            /\ k.key = <<r.idx, r.sender>>
            /\ IF k.init THEN r.to = n /\ k.local = r.idx /\ k.remote = r.sender
                         ELSE r.to = Other(n) /\ k.local = r.sender /\ k.remote = r.idx
      BY DEF Rooted
    <2>3. PICK t \in RespsOf(N) :
            /\ m.key = <<t.idx, t.sender>>
            /\ IF m.byInit THEN t.to = Other(m.to) /\ m.idx = t.sender
                           ELSE t.to = m.to /\ m.idx = t.idx
      BY DEF DataInv
    <2>4. r.sender = t.sender
      <3>1. k.key[2] = r.sender
        BY <2>2
      <3>2. m.key[2] = t.sender
        BY <2>3
      <3> QED
        BY <2>1, <3>1, <3>2
    <2>5. r.to = t.to
      BY <2>4 DEF HandshakesInv
    <2>6. m.to \in Node /\ m.ctr \in Nat
      BY MessageKinds DEF DataOf, DataMessages
    <2>7. m.to = Other(n)
      BY <2>1, <2>2, <2>3, <2>5, <2>6, TwoDevices
    <2>8. Spent(N, R, n, k)
      BY <1>5
    <2>9. m.ctr < k.tx \/ m.pkt \in R
      BY <2>1, <2>7, <2>8 DEF Spent
    <2> QED
      BY <2>1, <2>6, <2>9
  <1>6. ASSUME NEW m \in DataOf(M), NEW o \in DataOf(M), SameNonce(m, o), m.pkt # o.pkt
        PROVE  m.pkt \in RR \/ o.pkt \in RR
    <2>1. CASE m \in DataOf(N) /\ o \in DataOf(N)
      BY <1>6, <2>1 DEF NonceInv
    <2>2. CASE m \in DataOf(N) /\ o = d
      BY <1>2, <1>5, <1>6, <2>2
    <2>3. CASE m = d /\ o \in DataOf(N)
      <3>1. SameNonce(o, d)
        BY <1>6, <2>3 DEF SameNonce
      <3> QED
        BY <1>2, <1>5, <2>3, <3>1
    <2>4. CASE m = d /\ o = d
      BY <1>6, <2>4
    <2> QED
      BY <1>4, <2>1, <2>2, <2>3, <2>4
  <1>7. NonceInv(M, RR)
    BY <1>6 DEF NonceInv
  <1> QED
    BY <1>1, <1>3, <1>7
-----------------------------------------------------------------------------
(***************************************************************************)
(* The state, and a call of wg_mgr as a whole.                             *)
(***************************************************************************)
\* A packet of an application is on record once, and not while lwIP has it.
PacketInv ==
    /\ \A d \in DataOf(net) : d.pkt \in 0 .. packets /\ d.ctr < Most
    /\ \A d, e \in DataOf(net) : d.pkt = e.pkt /\ d.pkt # 0 => d = e
    /\ \A n \in Node :
          /\ sending[n].pkt \in 0 .. packets
          /\ sending[n].pkt # 0 => \A d \in DataOf(net) : d.pkt # sending[n].pkt
    /\ \A n, o \in Node : sending[n].pkt = sending[o].pkt /\ sending[n].pkt # 0 => n = o

\* The packets whose counter has gone up: one that lwIP has is to come.
Budget(n) == IF sending[n] = Idle THEN packets ELSE packets - 1

CounterInv ==
    \A n \in Node : /\ Counted(peer[n], uptime[n], Budget(n))
                    /\ sending[n] # Idle => sending[n].k.tx < Most

\* The initiations a device has made since it started have growing timestamps.
InitiationInv ==
    /\ \A m \in InitsOf(net) : m.boot <= restarts[Other(m.to)]
    /\ \A m \in InitsOf(net) : m.boot = restarts[Other(m.to)] =>
          m.ts <= uptime[Other(m.to)] * (MaxIndex + 1) + index
    /\ \A m, e \in InitsOf(net) :
          m.to = e.to /\ m.boot = e.boot /\ m.idx > e.idx => m.ts > e.ts

Inv == TypeInv /\ SessionInv /\ PacketInv /\ NonceInv(net, raced) /\ CounterInv
       /\ InitiationInv

\* No packet on its way to n names an index of I.
NewTo(n, I) == \A m \in DataOf(net) : m.to = n => m.idx \notin I

\* A call that leaves n with the peer q, has sent O and drawn indices up to i.
Sound(n, q, O, i) ==
    /\ q \in Peers /\ O \subseteq Messages /\ \A m \in O : m.to = Other(n)
    /\ HandshakesInv(net \cup O, i) /\ DataInv(net \cup O)
    /\ PeerInv(net \cup O, raced, n, q)
    /\ NonceInv(net \cup O, raced)
    /\ Counted(q, uptime[n], Budget(n))
    /\ \A d \in DataOf(O) : d.pkt = Empty /\ d.ctr < Most
    /\ i \in index .. MaxIndex
    /\ InitsOf(O) = {} \/ (i = index + 1 /\ InitsOf(O) = {Initiation(n)})
    /\ \E I : NewTo(n, I) /\ Follows(peer[n], q, I)

LEMMA BudgetType ==
  ASSUME Inv, NEW n \in Node
  PROVE  /\ Budget(n) \in Nat /\ Budget(n) <= packets /\ packets <= MaxPackets
         /\ packets \in Nat
         /\ Budget(n) + uptime[n] <= Most /\ uptime[n] \in Nat /\ uptime[n] >= 1
         /\ uptime[n] <= MaxUptime
  <1>1. packets \in Nat /\ packets <= MaxPackets /\ uptime[n] \in 1 .. MaxUptime
    BY Numbers DEF Inv, TypeInv, TypeOK
  <1>2. sending[n] # Idle => sending[n].pkt # 0 /\ sending[n].pkt \in 0 .. packets
    BY DEF Inv, SessionInv, SendingInv, PacketInv
  <1>3. sending[n] # Idle => packets >= 1
    BY <1>1, <1>2
  <1>4. Budget(n) \in Nat /\ Budget(n) <= packets
    BY <1>1, <1>3 DEF Budget
  <1> QED
    BY <1>1, <1>4, Numbers DEF Most

\* A call that sends nothing, and at most clears keypairs.
LEMMA ClearedSound ==
  ASSUME Inv, NEW n \in Node, NEW q \in Peers,
         \A s \in Slots : q[s] = peer[n][s] \/ q[s] = ZeroKeypair,
         q.handshake = peer[n].handshake, q.lastTx = peer[n].lastTx
  PROVE  Sound(n, q, {}, index)
  <1>1. peer[n] \in Peers
    BY DEF Inv, TypeInv, TypeOK
  <1>2. PeerInv(net, raced, n, q)
    BY ClearedKeeps DEF Inv, SessionInv
  <1>3. Counted(q, uptime[n], Budget(n))
    BY <1>1, BudgetType, ClearedCounted DEF Inv, CounterInv
  <1>4. NewTo(n, {}) /\ Follows(peer[n], q, {})
    BY ClearedFollows DEF NewTo
  <1>5. DataOf({}) = {} /\ InitsOf({}) = {} /\ net \cup {} = net
    BY DEF DataOf, InitsOf
  <1>6. index \in index .. MaxIndex
    BY Numbers DEF Inv, TypeInv, TypeOK
  <1>7. HandshakesInv(net, index) /\ DataInv(net) /\ NonceInv(net, raced)
    BY DEF Inv, SessionInv
  <1> QED
    BY <1>2, <1>3, <1>4, <1>5, <1>6, <1>7 DEF Sound

LEMMA OutputSound ==
  ASSUME Inv, NEW n \in Node, NEW p, Sound(n, p, {}, index), p.lastTx + 1 <= uptime[n],
         NEW q, q = Output(n, p, Empty).peer, NEW O, O = Output(n, p, Empty).out
  PROVE  Sound(n, q, O, index)
  <1>1. /\ TypeOK /\ net \subseteq Messages /\ index \in Nat /\ p \in Peers
        /\ HandshakesInv(net, index) /\ DataInv(net) /\ PeerInv(net, raced, n, p)
        /\ NonceInv(net, raced) /\ Counted(p, uptime[n], Budget(n))
        /\ index \in index .. MaxIndex
    <2>1. net \cup {} = net
      OBVIOUS
    <2>2. TypeOK /\ net \subseteq Messages
      BY DEF Inv, TypeInv
    <2>3. index \in Nat
      BY <2>2, Numbers DEF TypeOK
    <2> QED
      BY <2>1, <2>2, <2>3 DEF Sound
  <1>2. /\ Output(n, p, Empty).peer \in Peers
        /\ Output(n, p, Empty).out \subseteq DataMessages
        /\ \A m \in Output(n, p, Empty).out : m.to = Other(n)
        /\ Output(n, p, Empty).peer.greatest = p.greatest
        /\ Output(n, p, Empty).peer.handshake = p.handshake
    BY <1>1, OutputType
  <1>3. /\ HandshakesInv(net \cup O, index) /\ DataInv(net \cup O)
        /\ PeerInv(net \cup O, raced, n, q)
    <2>1. LET r == Output(n, p, Empty)
              M == net \cup r.out
          IN  HandshakesInv(M, index) /\ DataInv(M) /\ PeerInv(M, raced, n, r.peer)
      BY <1>1, OutputKeeps
    <2> QED
      BY <2>1
  <1>4. Counted(q, uptime[n], Budget(n))
    BY <1>1, BudgetType, OutputCounted
  <1>5. \E I : NewTo(n, I) /\ Follows(peer[n], q, I)
    <2>1. PICK I : NewTo(n, I) /\ Follows(peer[n], p, I)
      BY DEF Sound
    <2>2. Follows(p, q, {})
      BY <1>1, OutputFollows
    <2> QED
      BY <2>1, <2>2, FollowsOn
  <1>6. O \subseteq Messages /\ InitsOf(O) = {}
    BY <1>2 DEF Messages, InitsOf, DataMessages
  <1>7. NonceInv(net \cup O, raced) /\ \A d \in DataOf(O) : d.pkt = Empty /\ d.ctr < Most
    <2>0. PICK s \in Slots : s = SendingSlot(p)
      BY <1>1, OutputRefusedType
    <2>1. CASE CanSend(n, p[s])
      <3>1. O = {Data(n, p[s], Empty)}
        BY <1>1, <2>0, <2>1, OutputCases
      <3>2. p[s] \in Keypairs /\ Empty \in Nat
        BY <1>1 DEF Peers, Slots, Empty
      <3>3. Rooted(net, n, p[s]) /\ Spent(net, raced, n, p[s])
        BY <1>1, <2>1 DEF CanSend, PeerInv, KeypairInv
      <3>4. NonceInv(net \cup {Data(n, p[s], Empty)}, raced)
        BY <1>1, <3>2, <3>3, NonceAdd
      <3>5. Data(n, p[s], Empty).pkt = Empty /\ Data(n, p[s], Empty).ctr = p[s].tx
        BY <3>2, DataType
      <3>6. p[s].tx < Most
        <4>1. p[s].tx \in Nat /\ p.lastTx \in Nat /\ p[s].tx <= Budget(n) + p.lastTx
          BY <1>1, CountedType DEF Counted
        <4>2. Budget(n) + uptime[n] <= Most /\ Budget(n) \in Nat /\ uptime[n] \in Nat /\ Most \in Nat
          BY <1>1, BudgetType, CountedType
        <4> QED
          BY <4>1, <4>2
      <3> QED
        BY <3>1, <3>4, <3>5, <3>6 DEF DataOf
    <2>2. CASE ~ CanSend(n, p[s])
      <3>1. O = {} /\ net \cup O = net
        BY <1>1, <2>0, <2>2, OutputCases
      <3> QED
        BY <1>1, <3>1 DEF DataOf
    <2> QED
      BY <2>1, <2>2
  <1> QED
    BY <1>1, <1>2, <1>3, <1>4, <1>5, <1>6, <1>7 DEF Sound

\* wireguard_start_handshake after what the call has done so far.
LEMMA StartSound ==
  ASSUME Inv, CanDraw, NEW n \in Node, NEW p, NEW O, Sound(n, p, O, index),
         NEW q, q = StartHandshake(n, p).peer,
         NEW P, P = O \cup StartHandshake(n, p).out
  PROVE  Sound(n, q, P, index + 1)
  <1>1. /\ TypeOK /\ net \cup O \subseteq Messages /\ index \in Nat /\ p \in Peers
        /\ index + 1 \in index .. MaxIndex /\ O \subseteq Messages
        /\ HandshakesInv(net \cup O, index) /\ DataInv(net \cup O)
        /\ PeerInv(net \cup O, raced, n, p) /\ NonceInv(net \cup O, raced)
        /\ Counted(p, uptime[n], Budget(n)) /\ \A m \in O : m.to = Other(n)
    <2>1. TypeOK /\ net \subseteq Messages
      BY DEF Inv, TypeInv
    <2>2. index \in Nat /\ index + 1 \in index .. MaxIndex
      BY <2>1, Numbers DEF TypeOK, CanDraw
    <2> QED
      BY <2>1, <2>2 DEF Sound
  <1>2. PICK m : m = Initiation(n)
    OBVIOUS
  <1>3. /\ q \in Peers
        /\ \A s \in Slots : q[s] = p[s]
        /\ q.handshake = index + 1
        /\ q.lastTx = p.lastTx
        /\ q.greatest = p.greatest
        /\ StartHandshake(n, p).out = {m}
        /\ m \in InitMessages
        /\ m.idx = index + 1 /\ m.to = Other(n)
        /\ m.ts = Timestamp(n, index + 1) /\ m.boot = restarts[n]
    BY <1>1, <1>2, StartHandshakeType
  <1>4. P = O \cup {m} /\ net \cup P = (net \cup O) \cup {m}
    BY <1>3
  <1>5. HandshakesInv(net \cup P, index + 1) /\ DataInv(net \cup P)
        /\ PeerInv(net \cup P, raced, n, q)
    <2>1. LET M == (net \cup O) \cup StartHandshake(n, p).out
          IN  /\ HandshakesInv(M, index + 1) /\ DataInv(M)
              /\ PeerInv(M, raced, n, StartHandshake(n, p).peer)
      BY <1>1, StartHandshakeKeeps
    <2> QED
      BY <1>3, <1>4, <2>1
  <1>6. Counted(q, uptime[n], Budget(n))
    BY <1>1, <1>3, BudgetType, ClearedCounted
  <1>7. \E I : NewTo(n, I) /\ Follows(peer[n], q, I)
    <2>1. PICK I : NewTo(n, I) /\ Follows(peer[n], p, I)
      BY DEF Sound
    <2>2. Follows(p, q, {})
      BY <1>3, ClearedFollows
    <2> QED
      BY <2>1, <2>2, FollowsOn
  <1>8. m.type = "init" /\ m \in Messages
    BY <1>3 DEF InitMessages, Messages
  <1>9. DataOf(net \cup P) = DataOf(net \cup O) /\ DataOf(P) = DataOf(O)
        /\ InitsOf(P) = InitsOf(O) \cup {m} /\ P \subseteq Messages
    BY <1>1, <1>4, <1>8 DEF DataOf, InitsOf
  <1>10. NonceInv(net \cup P, raced)
    BY <1>1, <1>9 DEF NonceInv
  <1>11. InitsOf(P) = {m}
    <2>1. InitsOf(O) = {}
      BY <1>1 DEF Sound
    <2> QED
      BY <1>9, <2>1
  <1>12. \A d \in DataOf(P) : d.pkt = Empty /\ d.ctr < Most
    BY <1>9 DEF Sound
  <1>13. \A x \in P : x.to = Other(n)
    BY <1>1, <1>3, <1>4
  <1> QED
    BY <1>1, <1>2, <1>3, <1>5, <1>6, <1>7, <1>9, <1>10, <1>11, <1>12, <1>13 DEF Sound

\* The answer to an initiation.
LEMMA ResponseSound ==
  ASSUME Inv, CanDraw, NEW n \in Node, NEW m \in InitsOf(net), m.to = n,
         NEW q, q = SendHandshakeResponse(n, peer[n], m).peer,
         NEW O, O = SendHandshakeResponse(n, peer[n], m).out
  PROVE  Sound(n, q, O, index + 1)
  <1>1. /\ TypeOK /\ net \subseteq Messages /\ index \in Nat /\ peer[n] \in Peers
        /\ index + 1 \in index .. MaxIndex
        /\ HandshakesInv(net, index) /\ DataInv(net)
        /\ PeerInv(net, raced, n, peer[n]) /\ NonceInv(net, raced)
        /\ Counted(peer[n], uptime[n], Budget(n))
    <2>1. TypeOK /\ net \subseteq Messages
      BY DEF Inv, TypeInv
    <2>2. index \in Nat /\ index + 1 \in index .. MaxIndex /\ peer[n] \in Peers
      BY <2>1, Numbers DEF TypeOK, CanDraw
    <2> QED
      BY <2>1, <2>2 DEF Inv, SessionInv, CounterInv
  <1>2. m \in InitMessages /\ m.idx \in 0 .. MaxIndex
    <2>1. m.idx \in 1 .. index
      BY <1>1 DEF HandshakesInv
    <2>2. index <= MaxIndex
      BY <1>1, Numbers DEF TypeOK
    <2> QED
      BY <1>1, <2>1, <2>2, MessageKinds, Numbers DEF InitsOf
  <1>3. PICK d : d = Response(n, m)
    OBVIOUS
  <1>4. /\ q \in Peers
        /\ q["next"] = Responded(n, index + 1, m.idx)
        /\ q["prev"] = ZeroKeypair
        /\ q["curr"] = peer[n]["curr"]
        /\ q.handshake = 0
        /\ q.lastTx = peer[n].lastTx
        /\ q.greatest = m.ts
        /\ SendHandshakeResponse(n, peer[n], m).out = {d}
        /\ d \in RespMessages
        /\ d.to = Other(n) /\ d.idx = m.idx
        /\ d.sender = index + 1
    BY <1>1, <1>2, <1>3, ResponseType
  <1>5. /\ HandshakesInv(net \cup O, index + 1) /\ DataInv(net \cup O)
        /\ PeerInv(net \cup O, raced, n, q)
    BY <1>1, ResponseKeeps
  <1>6. Counted(q, uptime[n], Budget(n))
    BY <1>1, <1>2, BudgetType, ResponseCounted
  <1>7. Follows(peer[n], q, {index + 1})
    BY <1>1, <1>2, ResponseFollows
  <1>8. NewTo(n, {index + 1})
    <2>1. ASSUME NEW x \in DataOf(net) PROVE x.idx # index + 1
      <3>1. PICK r \in RespsOf(net) : x.idx = r.sender \/ x.idx = r.idx
        BY <1>1 DEF DataInv
      <3>2. r.sender # index + 1 /\ r.idx # index + 1
        BY <1>1 DEF HandshakesInv
      <3> QED
        BY <3>1, <3>2
    <2> QED
      BY <2>1 DEF NewTo
  <1>9. O = {d} /\ d.type = "resp" /\ O \subseteq Messages
    BY <1>4 DEF RespMessages, Messages
  <1>10. DataOf(net \cup O) = DataOf(net) /\ DataOf(O) = {} /\ InitsOf(O) = {}
    BY <1>9 DEF DataOf, InitsOf
  <1>11. NonceInv(net \cup O, raced)
    BY <1>1, <1>10 DEF NonceInv
  <1> QED
    BY <1>1, <1>4, <1>5, <1>6, <1>7, <1>8, <1>9, <1>10, <1>11 DEF Sound

\* A packet on its way to n names no handshake of n that is still open.
LEMMA OpenIsNew ==
  ASSUME Inv, NEW n \in Node, peer[n].handshake # 0
  PROVE  NewTo(n, {peer[n].handshake})
  <1>1. /\ net \subseteq Messages /\ HandshakesInv(net, index) /\ DataInv(net)
        /\ HandshakeInv(net, n, peer[n].handshake)
    BY DEF Inv, TypeInv, SessionInv, PeerInv
  <1>2. SUFFICES ASSUME NEW x \in DataOf(net), x.to = n PROVE x.idx # peer[n].handshake
    BY DEF NewTo
  <1>3. PICK r \in RespsOf(net) :
          /\ x.key = <<r.idx, r.sender>>
          /\ IF x.byInit THEN r.to = Other(x.to) /\ x.idx = r.sender
                         ELSE r.to = x.to /\ x.idx = r.idx
    BY <1>1 DEF DataInv
  <1>4. PICK e \in InitsOf(net) : e.idx = peer[n].handshake
    BY <1>1 DEF HandshakeInv
  <1>5. CASE x.byInit
    BY <1>1, <1>3, <1>4, <1>5 DEF HandshakesInv
  <1>6. CASE ~ x.byInit
    <2>1. PICK d \in DataOf(net) : d.byInit /\ d.key = x.key
      BY <1>1 DEF DataInv, Used
    <2>2. PICK u \in RespsOf(net) : d.key = <<u.idx, u.sender>> /\ u.to = Other(d.to)
      BY <1>1, <2>1 DEF DataInv
    <2>3. u.sender = r.sender
      <3>1. d.key[2] = u.sender
        BY <2>2
      <3>2. x.key[2] = r.sender
        BY <1>3
      <3> QED
        BY <2>1, <3>1, <3>2
    <2>4. u.to = n /\ d.to \in Node
      BY <1>1, <1>2, <1>3, <1>6, <2>3, MessageKinds DEF HandshakesInv, DataOf
    <2>5. d.to = Other(n)
      BY <2>2, <2>4, TwoDevices
    <2>6. d.key[1] # peer[n].handshake
      BY <1>1, <2>1, <2>5 DEF HandshakeInv
    <2>7. x.key[1] = x.idx
      BY <1>3, <1>6
    <2> QED
      BY <2>1, <2>6, <2>7
  <1> QED
    BY <1>5, <1>6

\* The answer got: a session and its first packet.
LEMMA ProcessResponseSound ==
  ASSUME Inv, NEW n \in Node, NEW m \in RespsOf(net), m.to = n, m.idx = peer[n].handshake,
         NEW q, q = ProcessResponse(n, peer[n], m).peer,
         NEW O, O = ProcessResponse(n, peer[n], m).out
  PROVE  Sound(n, q, O, index)
  <1>1. /\ TypeOK /\ net \subseteq Messages /\ index \in Nat /\ peer[n] \in Peers
        /\ index \in index .. MaxIndex
        /\ HandshakesInv(net, index) /\ DataInv(net)
        /\ PeerInv(net, raced, n, peer[n]) /\ NonceInv(net, raced)
        /\ Counted(peer[n], uptime[n], Budget(n))
    <2>1. TypeOK /\ net \subseteq Messages
      BY DEF Inv, TypeInv
    <2>2. index \in Nat /\ index \in index .. MaxIndex /\ peer[n] \in Peers
      BY <2>1, Numbers DEF TypeOK
    <2> QED
      BY <2>1, <2>2 DEF Inv, SessionInv, CounterInv
  <1>2. m.sender \in 0 .. MaxIndex /\ peer[n].handshake # 0
    <2>1. m.sender \in 1 .. index
      BY <1>1 DEF HandshakesInv
    <2>2. index <= MaxIndex
      BY <1>1, Numbers DEF TypeOK
    <2>3. PICK e \in InitsOf(net) : e.idx = m.idx
      BY <1>1 DEF HandshakesInv
    <2>4. e.idx \in 1 .. index
      BY <1>1 DEF HandshakesInv
    <2> QED
      BY <1>1, <2>1, <2>2, <2>3, <2>4, Numbers
  <1>3. PICK k, s, d : /\ k = Initiated(n, peer[n].handshake, m.sender)
                       /\ s = InitiatorStarts(n, peer[n], peer[n].handshake, m.sender)
                       /\ d = Data(n, k, Empty)
    OBVIOUS
  <1>4. /\ s \in Peers /\ s.curr = k /\ s["curr"] = k
        /\ ProcessResponse(n, peer[n], m).peer = Sent(n, s, "curr")
        /\ ProcessResponse(n, peer[n], m).out = {d}
    BY <1>1, <1>2, <1>3, ProcessResponseCases
  <1>5. /\ HandshakesInv(net \cup O, index) /\ DataInv(net \cup O)
        /\ PeerInv(net \cup O, raced, n, q)
    BY <1>1, ProcessResponseKeeps
  <1>6. Counted(q, uptime[n], Budget(n))
    BY <1>1, <1>2, BudgetType, ProcessResponseCounted
  <1>7. Follows(peer[n], q, {peer[n].handshake}) /\ NewTo(n, {peer[n].handshake})
    BY <1>1, <1>2, ProcessResponseFollows, OpenIsNew
  <1>8. k \in Keypairs /\ k.tx = 0 /\ k.init /\ k.local = peer[n].handshake /\ k.remote = m.sender
        /\ k.key = <<peer[n].handshake, m.sender>>
    <2>1. peer[n].handshake \in 0 .. MaxIndex
      BY <1>1 DEF Peers
    <2> QED
      BY <1>1, <1>2, <1>3, <2>1, NewKeypairs DEF Initiated
  <1>9. /\ d \in DataMessages /\ d.to = Other(n) /\ d.pkt = Empty /\ d.ctr = 0
        /\ d.type = "data"
    <2>1. Empty \in Nat
      BY DEF Empty
    <2>2. k \in Keypairs
      BY <1>8
    <2>3. /\ Data(n, k, Empty) \in DataMessages
          /\ Data(n, k, Empty).to = Other(n) /\ Data(n, k, Empty).idx = k.remote
          /\ Data(n, k, Empty).key = k.key /\ Data(n, k, Empty).byInit = k.init
          /\ Data(n, k, Empty).ctr = k.tx /\ Data(n, k, Empty).pkt = Empty
          /\ Data(n, k, Empty).type = "data"
      BY <2>1, <2>2, DataType
    <2> QED
      BY <1>3, <1>8, <2>3
  <1>10. O = {d} /\ O \subseteq Messages /\ InitsOf(O) = {}
    BY <1>4, <1>9 DEF Messages, InitsOf
  <1>11. \A x \in DataOf(O) : x.pkt = Empty /\ x.ctr < Most
    <2>1. 0 < Most
      BY BudgetType, Numbers DEF Most
    <2> QED
      BY <1>9, <1>10, <2>1 DEF DataOf
  <1>12. NonceInv(net \cup O, raced)
    <2>1. Rooted(net, n, k)
      BY <1>8 DEF Rooted
    <2>2. Spent(net, raced, n, k)
      <3>1. \A x \in DataOf(net) : x.to = Other(n) /\ x.byInit => x.key[1] # peer[n].handshake
        BY <1>1, <1>2 DEF PeerInv, HandshakeInv
      <3>2. k.key[1] = peer[n].handshake
        BY <1>8
      <3> QED
        BY <1>8, <3>1, <3>2 DEF Spent
    <2>3. Empty \in Nat
      BY DEF Empty
    <2>4. NonceInv(net \cup {Data(n, k, Empty)}, raced)
      BY <1>1, <1>8, <2>1, <2>2, <2>3, NonceAdd
    <2> QED
      BY <1>3, <1>10, <2>4
  <1>13. q \in Peers
    <2>1. "curr" \in Slots
      BY DEF Slots
    <2>2. Sent(n, s, "curr") \in Peers
      BY <1>1, <1>4, <2>1, SentType
    <2> QED
      BY <1>4, <2>2
  <1>14. \A x \in O : x.to = Other(n)
    BY <1>9, <1>10
  <1> QED
    BY <1>1, <1>5, <1>6, <1>7, <1>10, <1>11, <1>12, <1>13, <1>14 DEF Sound
-----------------------------------------------------------------------------
(***************************************************************************)
(* The steps of a device.                                                  *)
(***************************************************************************)
LEMMA SessionMoves ==
  ASSUME Inv, NEW n \in Node,
         \A o \in Node : o # n => peer'[o] = peer[o] /\ sending'[o] = sending[o],
         net \subseteq net', \A m \in net' : m \in net \/ m.to = Other(n),
         raced \subseteq raced',
         HandshakesInv(net', index'), DataInv(net'),
         PeerInv(net', raced', n, peer'[n]), SendingInv(net', n, sending'[n])
  PROVE  SessionInv'
  <1>2. ASSUME NEW o \in Node
        PROVE  PeerInv(net', raced', o, peer'[o]) /\ SendingInv(net', o, sending'[o])
    <2>1. CASE o = n
      BY <2>1
    <2>2. CASE o # n
      <3>1. peer'[o] = peer[o] /\ sending'[o] = sending[o]
        BY <2>2
      <3>2. PeerInv(net, raced, o, peer[o]) /\ SendingInv(net, o, sending[o])
        BY DEF Inv, SessionInv
      <3>3. \A d \in DataOf(net') : d \in net \/ d.to # Other(o)
        <4>1. Other(n) = o /\ Other(o) = n
          BY <2>2, TwoDevices
        <4> QED
          BY <2>2, <4>1 DEF DataOf
      <3>4. PeerInv(net', raced', o, peer[o])
        BY <3>2, <3>3, PeerMonotone
      <3>5. SendingInv(net', o, sending[o])
        BY <3>2, SendingMonotone
      <3> QED
        BY <3>1, <3>4, <3>5
    <2> QED
      BY <2>1, <2>2
  <1> QED
    BY <1>2 DEF SessionInv

\* The clock of a device times the spread of a unit of time.
LEMMA TimestampType ==
  ASSUME TypeOK, NEW n \in Node, NEW i \in Nat
  PROVE  /\ Timestamp(n, i) \in Nat
         /\ Timestamp(n, i) = uptime[n] * (MaxIndex + 1) + i
         /\ uptime[n] * (MaxIndex + 1) \in Nat
  <1>1. uptime[n] \in Nat /\ MaxIndex \in Nat
    BY Numbers DEF TypeOK
  <1>2. uptime[n] * (MaxIndex + 1) \in Nat
    BY <1>1
  <1> QED
    BY <1>2 DEF Timestamp

LEMMA InitiationMoves ==
  ASSUME Inv, NEW n \in Node, NEW O, net' = net \cup O, UNCHANGED <<uptime, restarts>>,
         index' \in index .. MaxIndex,
         InitsOf(O) = {} \/ (index' = index + 1 /\ InitsOf(O) = {Initiation(n)})
  PROVE  InitiationInv'
  <1>1. /\ TypeOK /\ index \in Nat /\ MaxIndex \in Nat /\ index' \in Nat
        /\ restarts[n] \in Nat
    BY Numbers DEF Inv, TypeInv, TypeOK
  <1>2. /\ \A m \in InitsOf(net) : m.boot <= restarts[Other(m.to)]
        /\ \A m \in InitsOf(net) : m.boot = restarts[Other(m.to)] =>
              m.ts <= uptime[Other(m.to)] * (MaxIndex + 1) + index
        /\ \A m, e \in InitsOf(net) :
              m.to = e.to /\ m.boot = e.boot /\ m.idx > e.idx => m.ts > e.ts
    BY DEF Inv, InitiationInv
  <1>3. \A m \in InitsOf(net) : /\ m.ts \in Nat /\ m.boot \in Nat /\ m.to \in Node
                                /\ m.idx \in 1 .. index
    <2>1. net \subseteq Messages /\ HandshakesInv(net, index)
      BY DEF Inv, TypeInv, SessionInv
    <2>2. \A m \in InitsOf(net) : m \in InitMessages
      BY <2>1, MessageKinds DEF InitsOf
    <2> QED
      BY <2>1, <2>2 DEF InitMessages, HandshakesInv
  <1>4. ASSUME NEW m \in InitsOf(net)
        PROVE  m.boot = restarts[Other(m.to)] =>
                  m.ts <= uptime[Other(m.to)] * (MaxIndex + 1) + index'
    <2>1. Other(m.to) \in Node
      BY <1>3, TwoDevices
    <2>2. uptime[Other(m.to)] * (MaxIndex + 1) \in Nat
      BY <1>1, <2>1, TimestampType
    <2> QED
      BY <1>1, <1>2, <1>3, <2>2
  <1>5. CASE InitsOf(O) = {}
    <2>1. InitsOf(net') = InitsOf(net)
      BY <1>5 DEF InitsOf
    <2> QED
      BY <1>2, <1>4, <2>1 DEF InitiationInv
  <1>6. CASE index' = index + 1 /\ InitsOf(O) = {Initiation(n)}
    <2>1. PICK e : e = Initiation(n)
      OBVIOUS
    <2>2. /\ e.to = Other(n) /\ e.idx = index + 1 /\ e.boot = restarts[n]
          /\ e.ts = Timestamp(n, index + 1)
      BY <2>1 DEF Initiation
    <2>3. e.ts = uptime[n] * (MaxIndex + 1) + (index + 1) /\ uptime[n] * (MaxIndex + 1) \in Nat
      BY <1>1, <2>2, TimestampType
    <2>4. Other(e.to) = n
      BY <2>2, TwoDevices
    <2>5. InitsOf(net') = InitsOf(net) \cup {e}
      BY <1>6, <2>1 DEF InitsOf
    <2>6. /\ e.boot <= restarts[Other(e.to)]
          /\ e.ts <= uptime[Other(e.to)] * (MaxIndex + 1) + index'
      BY <1>1, <1>6, <2>2, <2>3, <2>4
    <2>7. ASSUME NEW m \in InitsOf(net), m.to = e.to, m.boot = e.boot
          PROVE  e.ts > m.ts /\ ~ (m.idx > e.idx)
      <3>1. m.ts <= uptime[n] * (MaxIndex + 1) + index
        BY <1>2, <2>2, <2>4, <2>7
      <3> QED
        BY <1>1, <1>3, <2>2, <2>3, <3>1
    <2>8. ASSUME NEW m \in InitsOf(net'), NEW o \in InitsOf(net'),
                 m.to = o.to, m.boot = o.boot, m.idx > o.idx
          PROVE  m.ts > o.ts
      <3>1. CASE m \in InitsOf(net) /\ o \in InitsOf(net)
        BY <1>2, <2>8, <3>1
      <3>2. CASE m \in InitsOf(net) /\ o = e
        BY <2>7, <2>8, <3>2
      <3>3. CASE m = e /\ o \in InitsOf(net)
        BY <2>7, <2>8, <3>3
      <3>4. CASE m = e /\ o = e
        BY <1>1, <2>2, <2>8, <3>4
      <3> QED
        BY <2>5, <3>1, <3>2, <3>3, <3>4
    <2> QED
      BY <1>2, <1>4, <2>5, <2>6, <2>8 DEF InitiationInv
  <1> QED
    BY <1>5, <1>6

LEMMA SoundStep ==
  ASSUME Inv, NEW n \in Node, NEW q, NEW O, NEW i, Sound(n, q, O, i),
         peer' = [peer EXCEPT ![n] = q], net' = net \cup O, index' = i,
         UNCHANGED <<sending, raced>>, Unchanged
  PROVE  Inv'
  <1>1. /\ q \in Peers /\ O \subseteq Messages /\ \A m \in O : m.to = Other(n)
        /\ HandshakesInv(net', i) /\ DataInv(net')
        /\ PeerInv(net', raced, n, q)
        /\ NonceInv(net', raced)
        /\ Counted(q, uptime[n], Budget(n))
        /\ \A d \in DataOf(O) : d.pkt = Empty /\ d.ctr < Most
        /\ i \in index .. MaxIndex
        /\ InitsOf(O) = {} \/ (i = index + 1 /\ InitsOf(O) = {Initiation(n)})
    BY DEF Sound
  <1>2. TypeInv'
    <2>1. TypeOK /\ net \subseteq Messages
      BY DEF Inv, TypeInv
    <2>2. index \in Nat /\ i \in 0 .. MaxIndex
      BY <1>1, <2>1, Numbers DEF TypeOK
    <2>3. peer' \in [Node -> Peers]
      BY <1>1, <2>1 DEF TypeOK
    <2> QED
      BY <1>1, <2>1, <2>2, <2>3 DEF TypeInv, TypeOK, Unchanged
  <1>3. SessionInv'
    <2>1. SendingInv(net', n, sending'[n])
      <3>1. SendingInv(net, n, sending[n])
        BY DEF Inv, SessionInv
      <3> QED
        BY <3>1, SendingMonotone
    <2>2. peer'[n] = q /\ \A o \in Node : o # n => peer'[o] = peer[o] /\ sending'[o] = sending[o]
      BY DEF Inv, TypeInv, TypeOK
    <2>3. \A m \in net' : m \in net \/ m.to = Other(n)
      BY <1>1
    <2> QED
      BY <1>1, <2>1, <2>2, <2>3, SessionMoves
  <1>4. PacketInv'
    <2>1. PacketInv /\ packets \in Nat /\ UNCHANGED packets
      BY Numbers DEF Inv, TypeInv, TypeOK, Unchanged
    <2>2. DataOf(net') = DataOf(net) \cup DataOf(O)
      BY DEF DataOf
    <2>3. \A d \in DataOf(O) : d.pkt = 0 /\ d.ctr < Most
      BY <1>1 DEF Empty
    <2>4. \A d \in DataOf(net') : d.pkt \in 0 .. packets /\ d.ctr < Most
      BY <2>1, <2>2, <2>3 DEF PacketInv
    <2>5. \A d, e \in DataOf(net') : d.pkt = e.pkt /\ d.pkt # 0 => d = e
      BY <2>1, <2>2, <2>3 DEF PacketInv
    <2>6. \A o \in Node : /\ sending[o].pkt \in 0 .. packets
                          /\ sending[o].pkt # 0 =>
                                \A d \in DataOf(net') : d.pkt # sending[o].pkt
      BY <2>1, <2>2, <2>3 DEF PacketInv
    <2> QED
      BY <2>1, <2>4, <2>5, <2>6 DEF PacketInv
  <1>5. CounterInv'
    <2>1. \A o \in Node : Budget(o)' = Budget(o) /\ uptime'[o] = uptime[o]
      BY DEF Budget, Unchanged
    <2>2. ASSUME NEW o \in Node PROVE Counted(peer'[o], uptime[o], Budget(o))
      <3>1. peer \in [Node -> Peers] /\ Counted(peer[o], uptime[o], Budget(o))
        BY DEF Inv, TypeInv, TypeOK, CounterInv
      <3> QED
        BY <1>1, <3>1
    <2>3. \A o \in Node : sending[o] # Idle => sending[o].k.tx < Most
      BY DEF Inv, CounterInv
    <2> QED
      BY <2>1, <2>2, <2>3 DEF CounterInv
  <1>6. InitiationInv'
    BY <1>1, InitiationMoves DEF Unchanged
  <1> QED
    BY <1>1, <1>2, <1>3, <1>4, <1>5, <1>6 DEF Inv

\* A step of n that delivers nothing.
Quiet(n) ==
    /\ peer' = [peer EXCEPT ![n] = peer'[n]]
    /\ net \subseteq net'
    /\ UNCHANGED <<got, confirmers>>
    /\ \E I : NewTo(n, I) /\ Follows(peer[n], peer'[n], I)

LEMMA SoundQuiet ==
  ASSUME Inv, NEW n \in Node, NEW q, NEW O, NEW i, Sound(n, q, O, i),
         peer' = [peer EXCEPT ![n] = q], net' = net \cup O, index' = i,
         UNCHANGED <<sending, raced>>, Unchanged
  PROVE  Inv' /\ Quiet(n)
  <1>1. Inv'
    BY SoundStep
  <1>2. peer'[n] = q
    BY DEF Inv, TypeInv, TypeOK
  <1>3. \E I : NewTo(n, I) /\ Follows(peer[n], q, I)
    BY DEF Sound
  <1> QED
    BY <1>1, <1>2, <1>3 DEF Quiet, Unchanged

LEMMA ConnectStep ==
  ASSUME Inv, NEW n \in Node, Connect(n)
  PROVE  Inv' /\ Quiet(n)
  <1>1. PICK p : p = [peer[n] EXCEPT !.active = TRUE]
    OBVIOUS
  <1>2. peer[n] \in Peers
    BY DEF Inv, TypeInv, TypeOK
  <1>3. /\ p \in Peers /\ p.handshake = peer[n].handshake /\ p.lastTx = peer[n].lastTx
        /\ \A s \in Slots : p[s] = peer[n][s]
    BY <1>1, <1>2 DEF Peers, Slots
  <1>4. Sound(n, p, {}, index)
    BY <1>3, ClearedSound
  <1>5. PICK q, O : q = StartHandshake(n, p).peer /\ O = {} \cup StartHandshake(n, p).out
    OBVIOUS
  <1>6. CanDraw
    BY DEF Connect
  <1>7. Sound(n, q, O, index + 1)
    BY <1>4, <1>5, <1>6, StartSound
  <1>8. /\ peer' = [peer EXCEPT ![n] = q] /\ net' = net \cup O /\ index' = index + 1
        /\ UNCHANGED <<sending, raced>> /\ Unchanged
    BY <1>1, <1>5 DEF Connect, Leaves
  <1> QED
    BY <1>7, <1>8, SoundQuiet

LEMMA ExpiryType ==
  ASSUME NEW n, NEW p \in Peers, NEW q, q = DestroyExpired(n, Reset(n, p))
  PROVE  /\ q \in Peers /\ q.handshake = p.handshake /\ q.lastTx = p.lastTx
         /\ \A s \in Slots : q[s] = p[s] \/ q[s] = ZeroKeypair
  <1>1. PICK r : r = Reset(n, p)
    OBVIOUS
  <1>2. /\ r \in Peers /\ r.handshake = p.handshake /\ r.lastTx = p.lastTx
        /\ \A s \in Slots : r[s] = p[s] \/ r[s] = ZeroKeypair
    <2>1. CASE r = p
      BY <2>1
    <2>2. CASE r = DestroyAll(p)
      BY <2>2, DestroyAllType
    <2> QED
      BY <1>1, <2>1, <2>2 DEF Reset
  <1>3. q = r \/ q = KeypairDestroy(r, "curr")
    BY <1>1 DEF DestroyExpired
  <1>4. CASE q = KeypairDestroy(r, "curr")
    <2>1. "curr" \in Slots
      BY DEF Slots
    <2>2. /\ KeypairDestroy(r, "curr") \in Peers
          /\ KeypairDestroy(r, "curr")["curr"] = ZeroKeypair
          /\ \A t \in Slots : t # "curr" => KeypairDestroy(r, "curr")[t] = r[t]
          /\ KeypairDestroy(r, "curr").handshake = r.handshake
          /\ KeypairDestroy(r, "curr").lastTx = r.lastTx
          /\ KeypairDestroy(r, "curr").greatest = r.greatest
      BY <1>2, <2>1, DestroyType
    <2> QED
      BY <1>2, <1>4, <2>2
  <1> QED
    BY <1>2, <1>3, <1>4

LEMMA PeriodicStep ==
  ASSUME Inv, NEW n \in Node, Periodic(n)
  PROVE  Inv' /\ Quiet(n)
  <1>1. PICK p : p = DestroyExpired(n, Reset(n, peer[n]))
    OBVIOUS
  <1>2. PICK kept : kept = IF ShouldSendKeepalive(n, p) THEN Output(n, p, Empty)
                                                        ELSE Result(p, {})
    OBVIOUS
  <1>3. PICK done : done = IF ShouldSendInitiation(n, kept.peer)
                           THEN StartHandshake(n, kept.peer) ELSE Result(kept.peer, {})
    OBVIOUS
  <1>4. /\ ShouldSendInitiation(n, kept.peer) => CanDraw
        /\ peer' = [peer EXCEPT ![n] = done.peer]
        /\ net' = net \cup (kept.out \cup done.out)
        /\ index' = IF ShouldSendInitiation(n, kept.peer) THEN index + 1 ELSE index
        /\ UNCHANGED <<sending, raced>> /\ Unchanged
    BY <1>1, <1>2, <1>3 DEF Periodic, Leaves, Result
  <1>5. Sound(n, p, {}, index)
    <2>1. peer[n] \in Peers
      BY DEF Inv, TypeInv, TypeOK
    <2>2. /\ p \in Peers /\ p.handshake = peer[n].handshake /\ p.lastTx = peer[n].lastTx
          /\ \A s \in Slots : p[s] = peer[n][s] \/ p[s] = ZeroKeypair
      BY <1>1, <2>1, ExpiryType
    <2> QED
      BY <2>2, ClearedSound
  <1>6. Sound(n, kept.peer, kept.out, index)
    <2>1. CASE ShouldSendKeepalive(n, p)
      <3>1. Expired(n, p.lastTx, Keepalive)
        BY <2>1 DEF ShouldSendKeepalive
      <3>2. p \in Peers
        BY <1>5 DEF Sound
      <3>3. p.lastTx \in Nat /\ uptime[n] \in Nat
        BY <3>2, BudgetType, Numbers DEF Peers
      <3>4. p.lastTx + 1 <= uptime[n]
        BY <3>1, <3>3, Numbers DEF Expired
      <3>5. kept = Output(n, p, Empty)
        BY <1>2, <2>1
      <3> QED
        BY <1>5, <3>4, <3>5, OutputSound
    <2>2. CASE ~ ShouldSendKeepalive(n, p)
      <3>1. kept.peer = p /\ kept.out = {}
        BY <1>2, <2>2 DEF Result
      <3> QED
        BY <1>5, <3>1
    <2> QED
      BY <2>1, <2>2
  <1>7. CASE ShouldSendInitiation(n, kept.peer)
    <2>1. /\ CanDraw /\ done = StartHandshake(n, kept.peer) /\ index' = index + 1
      BY <1>3, <1>4, <1>7
    <2>2. Sound(n, done.peer, kept.out \cup done.out, index + 1)
      BY <1>6, <2>1, StartSound
    <2> QED
      BY <1>4, <2>1, <2>2, SoundQuiet
  <1>8. CASE ~ ShouldSendInitiation(n, kept.peer)
    <2>1. done.peer = kept.peer /\ kept.out \cup done.out = kept.out /\ index' = index
      BY <1>3, <1>4, <1>8 DEF Result
    <2> QED
      BY <1>4, <1>6, <2>1, SoundQuiet
  <1> QED
    BY <1>7, <1>8

LEMMA ReceiveInitiationStep ==
  ASSUME Inv, NEW n \in Node, NEW m \in net, m.to = n, ReceiveInitiation(n, m)
  PROVE  Inv' /\ Quiet(n)
  <1>1. PICK q, O : /\ q = SendHandshakeResponse(n, peer[n], m).peer
                    /\ O = SendHandshakeResponse(n, peer[n], m).out
    OBVIOUS
  <1>2. m \in InitsOf(net) /\ CanDraw
    BY DEF ReceiveInitiation, InitsOf
  <1>3. Sound(n, q, O, index + 1)
    BY <1>1, <1>2, ResponseSound
  <1>4. /\ peer' = [peer EXCEPT ![n] = q] /\ net' = net \cup O /\ index' = index + 1
        /\ UNCHANGED <<sending, raced>> /\ Unchanged
    BY <1>1 DEF ReceiveInitiation, Leaves
  <1> QED
    BY <1>3, <1>4, SoundQuiet

LEMMA ReceiveResponseStep ==
  ASSUME Inv, NEW n \in Node, NEW m \in net, m.to = n, ReceiveResponse(n, m)
  PROVE  Inv' /\ Quiet(n)
  <1>1. PICK q, O : /\ q = ProcessResponse(n, peer[n], m).peer
                    /\ O = ProcessResponse(n, peer[n], m).out
    OBVIOUS
  <1>2. m \in RespsOf(net) /\ m.idx = peer[n].handshake
    BY DEF ReceiveResponse, AcceptsResponse, RespsOf
  <1>3. Sound(n, q, O, index)
    BY <1>1, <1>2, ProcessResponseSound
  <1>4. /\ peer' = [peer EXCEPT ![n] = q] /\ net' = net \cup O /\ index' = index
        /\ UNCHANGED <<sending, raced>> /\ Unchanged
    BY <1>1 DEF ReceiveResponse, Leaves
  <1> QED
    BY <1>3, <1>4, SoundQuiet

LEMMA CountedMore ==
  ASSUME NEW p \in Peers, NEW u \in Nat, NEW v \in Nat, u <= v, NEW b \in Nat, NEW c \in Nat,
         b <= c, Counted(p, u, b)
  PROVE  Counted(p, v, c)
  <1>1. p.lastTx \in Nat /\ p.lastTx <= u /\ p.lastTx <= v
    BY CountedType DEF Counted, Slots
  <1>2. ASSUME NEW s \in Slots PROVE p[s].tx <= c + p.lastTx /\ p[s].window.counter <= Most
    <2>1. p[s].tx \in Nat /\ p[s].tx <= b + p.lastTx
      BY CountedType DEF Counted
    <2> QED
      BY <1>1, <2>1 DEF Counted
  <1> QED
    BY <1>1, <1>2 DEF Counted

LEMMA TickStep ==
  ASSUME Inv, Tick
  PROVE  Inv' /\ UNCHANGED <<peer, net, got, confirmers>>
  <1>1. UNCHANGED <<peer, net, index, packets, restarts, sending, raced, got, confirmers>>
    BY DEF Tick
  <1>2. ASSUME NEW n \in Node
        PROVE  /\ uptime[n] \in Nat /\ uptime'[n] = uptime[n] + 1
               /\ uptime'[n] \in 1 .. MaxUptime
    BY Numbers DEF Tick, Inv, TypeInv, TypeOK
  <1>3. TypeInv'
    <2>1. uptime' \in [Node -> 1 .. MaxUptime]
      BY <1>2 DEF Tick
    <2> QED
      BY <1>1, <2>1 DEF Inv, TypeInv, TypeOK
  <1>4. SessionInv' /\ PacketInv' /\ NonceInv(net, raced)'
    BY <1>1 DEF Inv, SessionInv, PacketInv
  <1>5. CounterInv'
    <2>1. ASSUME NEW n \in Node PROVE Counted(peer[n], uptime'[n], Budget(n))
      <3>1. peer[n] \in Peers /\ Counted(peer[n], uptime[n], Budget(n))
        BY DEF Inv, TypeInv, TypeOK, CounterInv
      <3>2. uptime'[n] \in Nat /\ uptime[n] <= uptime'[n]
        BY <1>2
      <3>3. Budget(n) \in Nat
        BY BudgetType
      <3> QED
        BY <1>2, <3>1, <3>2, <3>3, CountedMore
    <2>2. \A n \in Node : Budget(n)' = Budget(n)
      BY <1>1 DEF Budget
    <2>3. \A n \in Node : sending[n] # Idle => sending[n].k.tx < Most
      BY DEF Inv, CounterInv
    <2> QED
      BY <1>1, <2>1, <2>2, <2>3 DEF CounterInv
  <1>6. InitiationInv'
    <2>1. ASSUME NEW m \in InitsOf(net), m.boot = restarts[Other(m.to)]
          PROVE  m.ts <= uptime'[Other(m.to)] * (MaxIndex + 1) + index
      <3>1. net \subseteq Messages /\ TypeOK
        BY DEF Inv, TypeInv
      <3>2. m \in InitMessages /\ m.ts \in Nat /\ m.to \in Node
        BY <3>1, MessageKinds DEF InitsOf, InitMessages
      <3>3. PICK o \in Node : o = Other(m.to)
        BY <3>2, TwoDevices
      <3>4. m.ts <= uptime[o] * (MaxIndex + 1) + index
        BY <2>1, <3>3 DEF Inv, InitiationInv
      <3>5. uptime[o] \in Nat /\ index \in Nat /\ MaxIndex \in Nat
        BY <1>2, <3>1, Numbers DEF TypeOK
      <3>6. uptime'[o] * (MaxIndex + 1) = uptime[o] * (MaxIndex + 1) + (MaxIndex + 1)
        BY <1>2, <3>5
      <3>7. uptime[o] * (MaxIndex + 1) \in Nat
        BY <3>5
      <3> QED
        BY <3>2, <3>3, <3>4, <3>5, <3>6, <3>7
    <2> QED
      BY <1>1, <2>1 DEF Inv, InitiationInv
  <1> QED
    BY <1>1, <1>3, <1>4, <1>5, <1>6 DEF Inv

\* The packet is encrypted, or the keypair it would go under is cleared.
LEMMA SendBeginStep ==
  ASSUME Inv, NEW n \in Node, SendBegin(n)
  PROVE  Inv' /\ Quiet(n)
  <1>1. PICK p, s : p = peer[n] /\ s = SendingSlot(p)
    OBVIOUS
  <1>2. /\ sending[n] = Idle /\ packets < MaxPackets /\ packets' = packets + 1
        /\ UNCHANGED <<uptime, net, index, restarts, raced, got, confirmers>>
        /\ CanSend(n, p[s]) =>
              /\ sending' = [sending EXCEPT ![n] = [slot |-> s, k |-> p[s], pkt |-> packets + 1]]
              /\ UNCHANGED peer
        /\ ~ CanSend(n, p[s]) => peer' = [peer EXCEPT ![n] = OutputRefused(p)] /\ UNCHANGED sending
    BY <1>1 DEF SendBegin
  <1>3. /\ TypeOK /\ net \subseteq Messages /\ p \in Peers /\ packets \in Nat
        /\ packets + 1 \in 0 .. MaxPackets /\ MaxPackets \in Nat
        /\ uptime[n] \in Nat /\ PeerInv(net, raced, n, p)
        /\ HandshakesInv(net, index) /\ DataInv(net)
    <2>1. TypeOK /\ net \subseteq Messages
      BY DEF Inv, TypeInv
    <2>2. packets \in Nat /\ packets + 1 \in 0 .. MaxPackets /\ uptime[n] \in Nat /\ p \in Peers
          /\ MaxPackets \in Nat
      BY <1>1, <1>2, <2>1, Numbers DEF TypeOK
    <2> QED
      BY <1>1, <2>1, <2>2 DEF Inv, SessionInv
  <1>4. s \in Slots
    BY <1>1, <1>3, OutputRefusedType
  <1>5. p[s] \in Keypairs
    BY <1>3, <1>4 DEF Peers, Slots
  <1>6. PICK q, b : /\ q = IF CanSend(n, p[s]) THEN p ELSE OutputRefused(p)
                    /\ b = IF CanSend(n, p[s])
                           THEN [slot |-> s, k |-> p[s], pkt |-> packets + 1] ELSE Idle
    OBVIOUS
  <1>7. /\ q \in Peers /\ q.handshake = p.handshake /\ q.lastTx = p.lastTx
        /\ \A t \in Slots : q[t] = p[t] \/ q[t] = ZeroKeypair
    <2>1. /\ OutputRefused(p) \in Peers /\ OutputRefused(p).handshake = p.handshake
          /\ OutputRefused(p).lastTx = p.lastTx
          /\ \A t \in Slots : OutputRefused(p)[t] \in {p[t], ZeroKeypair}
      BY <1>3, OutputRefusedType
    <2> QED
      BY <1>3, <1>6, <2>1
  <1>8. peer' = [peer EXCEPT ![n] = q] /\ sending' = [sending EXCEPT ![n] = b]
    <2>1. peer = [peer EXCEPT ![n] = p] /\ sending = [sending EXCEPT ![n] = Idle]
      BY <1>1, <1>2, <1>3 DEF TypeOK
    <2> QED
      BY <1>2, <1>6, <2>1
  <1>9. sending'[n] = b /\ \A o \in Node : o # n => sending'[o] = sending[o]
    BY <1>3, <1>8 DEF TypeOK
  <1>10. b # Idle => CanSend(n, p[s]) /\ b.k = p[s] /\ b.pkt = packets + 1
    BY <1>6
  <1>11. b \in [slot : Slots, k : Keypairs, pkt : 0 .. MaxPackets]
    <2>1. Idle \in [slot : Slots, k : Keypairs, pkt : 0 .. MaxPackets]
      BY <1>3, ZeroType DEF Idle, Slots
    <2> QED
      BY <1>3, <1>4, <1>5, <1>6, <2>1
  <1>12. TypeInv'
    <2>1. peer' \in [Node -> Peers]
      BY <1>3, <1>7, <1>8 DEF TypeOK
    <2>2. sending' \in [Node -> [slot : Slots, k : Keypairs, pkt : 0 .. MaxPackets]]
      BY <1>3, <1>8, <1>11 DEF TypeOK
    <2> QED
      BY <1>2, <1>3, <2>1, <2>2 DEF TypeInv, TypeOK
  <1>13. SessionInv'
    <2>1. PeerInv(net, raced, n, q)
      BY <1>3, <1>7, ClearedKeeps
    <2>2. SendingInv(net, n, b)
      <3>1. CASE b # Idle
        <4>1. p[s].valid /\ (p[s].init \/ p[s].rx)
          BY <1>10, <3>1 DEF CanSend
        <4>2. Rooted(net, n, p[s]) /\ Shared(net, p[s])
          BY <1>3, <1>4, <4>1 DEF PeerInv, KeypairInv
        <4>3. b.pkt # 0
          BY <1>3, <1>10, <3>1
        <4> QED
          BY <1>10, <3>1, <4>1, <4>2, <4>3 DEF SendingInv
      <3> QED
        BY <3>1 DEF SendingInv
    <2>3. peer'[n] = q /\ \A o \in Node : o # n => peer'[o] = peer[o] /\ sending'[o] = sending[o]
      BY <1>3, <1>8, <1>9 DEF TypeOK
    <2>4. /\ raced \subseteq raced' /\ HandshakesInv(net', index') /\ DataInv(net')
          /\ PeerInv(net', raced', n, peer'[n]) /\ SendingInv(net', n, sending'[n])
      BY <1>2, <1>3, <1>9, <2>1, <2>2, <2>3
    <2>5. net' = net
      BY <1>2
    <2> QED
      BY <2>3, <2>4, <2>5, SessionMoves
  <1>14. PacketInv'
    <2>1. PacketInv
      BY DEF Inv
    <2>2. b.pkt = 0 \/ b.pkt = packets + 1
      BY <1>6 DEF Idle
    <2>3. \A d \in DataOf(net) : d.pkt \in 0 .. packets
      BY <2>1 DEF PacketInv
    <2>4. \A o \in Node : sending[o].pkt \in 0 .. packets
      BY <2>1 DEF PacketInv
    <2>5. \A d \in DataOf(net) : d.pkt \in 0 .. (packets + 1) /\ d.pkt # packets + 1
      BY <1>3, <2>3
    <2>6. \A o \in Node : o # n => sending'[o].pkt \in 0 .. (packets + 1)
                                   /\ sending'[o].pkt # packets + 1
      BY <1>3, <1>9, <2>4
    <2>7. \A o \in Node : sending'[o].pkt \in 0 .. (packets + 1)
      BY <1>3, <1>9, <2>2, <2>6
    <2>8. \A o \in Node : sending'[o].pkt # 0 => \A d \in DataOf(net) : d.pkt # sending'[o].pkt
      BY <1>9, <2>1, <2>2, <2>5 DEF PacketInv
    <2>9. ASSUME NEW o \in Node, NEW v \in Node, sending'[o].pkt = sending'[v].pkt,
                 sending'[o].pkt # 0
          PROVE  o = v
      BY <1>9, <2>1, <2>2, <2>6, <2>9 DEF PacketInv
    <2> QED
      BY <1>2, <2>1, <2>5, <2>7, <2>8, <2>9 DEF PacketInv
  <1>15. CounterInv'
    <2>1. ASSUME NEW o \in Node PROVE Budget(o)' \in Nat /\ Budget(o) <= Budget(o)'
      <3>1. CASE o = n
        <4>1. Budget(n) = packets
          BY <1>2 DEF Budget
        <4>2. Budget(n)' = IF b = Idle THEN packets + 1 ELSE (packets + 1) - 1
          BY <1>2, <1>9 DEF Budget
        <4> QED
          BY <1>3, <3>1, <4>1, <4>2
      <3>2. CASE o # n
        <4>1. Budget(o)' = IF sending[o] = Idle THEN packets + 1 ELSE (packets + 1) - 1
          BY <1>2, <1>9, <3>2 DEF Budget
        <4> QED
          BY <1>3, <4>1 DEF Budget
      <3> QED
        BY <3>1, <3>2
    <2>2. ASSUME NEW o \in Node PROVE Counted(peer'[o], uptime[o], Budget(o)')
      <3>1. Counted(peer'[o], uptime[o], Budget(o))
        <4>1. Counted(peer[o], uptime[o], Budget(o)) /\ Budget(o) \in Nat
          BY BudgetType DEF Inv, CounterInv
        <4>2. CASE o = n
          <5>1. peer'[o] = q /\ p = peer[o]
            BY <1>1, <1>3, <1>8, <4>2 DEF TypeOK
          <5> QED
            BY <1>3, <1>7, <4>1, <5>1, ClearedCounted
        <4>3. CASE o # n
          <5>1. peer'[o] = peer[o]
            BY <1>3, <1>8, <4>3 DEF TypeOK
          <5> QED
            BY <4>1, <5>1
        <4> QED
          BY <4>2, <4>3
      <3>2. peer'[o] \in Peers /\ uptime[o] \in Nat /\ Budget(o) \in Nat
        BY <1>12, BudgetType DEF TypeInv, TypeOK
      <3>3. uptime[o] <= uptime[o]
        BY <3>2
      <3> QED
        BY <2>1, <3>1, <3>2, <3>3, CountedMore
    <2>3. ASSUME NEW o \in Node, sending'[o] # Idle PROVE sending'[o].k.tx < Most
      <3>1. CASE o = n
        <4>1. sending'[o].k = p[s]
          BY <1>9, <1>10, <2>3, <3>1
        <4>2. Counted(p, uptime[n], packets)
          BY <1>1, <1>2 DEF Inv, CounterInv, Budget
        <4>3. p[s].tx \in Nat /\ p.lastTx \in Nat /\ p.lastTx <= uptime[n]
              /\ p[s].tx <= packets + p.lastTx
          BY <1>3, <1>4, <4>2, CountedType DEF Counted
        <4>4. uptime[n] <= MaxUptime /\ MaxUptime \in Nat
          BY BudgetType, Numbers
        <4> QED
          BY <1>2, <1>3, <4>1, <4>3, <4>4 DEF Most
      <3>2. CASE o # n
        BY <1>9, <2>3, <3>2 DEF Inv, CounterInv
      <3> QED
        BY <3>1, <3>2
    <2> QED
      BY <1>2, <2>2, <2>3 DEF CounterInv
  <1>16. NonceInv(net, raced)' /\ InitiationInv'
    BY <1>2 DEF Inv, InitiationInv, NonceInv
  <1>17. Quiet(n)
    <2>1. peer'[n] = q /\ peer' = [peer EXCEPT ![n] = peer'[n]]
      BY <1>3, <1>8 DEF TypeOK
    <2>2. NewTo(n, {}) /\ Follows(peer[n], q, {})
      BY <1>1, <1>7, ClearedFollows DEF NewTo
    <2> QED
      BY <1>2, <2>1, <2>2 DEF Quiet
  <1> QED
    BY <1>12, <1>13, <1>14, <1>15, <1>16, <1>17 DEF Inv

\* The packet goes out, under the counter it was encrypted with.
LEMMA SendEndStep ==
  ASSUME Inv, NEW n \in Node, SendEnd(n)
  PROVE  Inv' /\ Quiet(n)
  <1>1. PICK p, s, b, pkt : p = peer[n] /\ s = sending[n].slot /\ b = sending[n].k
                            /\ pkt = sending[n].pkt
    OBVIOUS
  <1>2. PICK q, d : q = Sent(n, p, s) /\ d = Data(n, b, pkt)
    OBVIOUS
  <1>3. /\ sending[n] # Idle
        /\ peer' = [peer EXCEPT ![n] = q] /\ net' = net \cup {d}
        /\ sending' = [sending EXCEPT ![n] = Idle]
        /\ raced' = IF <<p[s].key, p[s].tx>> = <<b.key, b.tx>>
                    THEN raced ELSE raced \cup {pkt}
        /\ UNCHANGED <<index, uptime, packets, restarts, got, confirmers>>
    BY <1>1, <1>2 DEF SendEnd, Leaves, Result, Unchanged
  <1>4. /\ TypeOK /\ net \subseteq Messages /\ p \in Peers /\ index \in Nat
        /\ HandshakesInv(net, index) /\ DataInv(net) /\ PeerInv(net, raced, n, p)
        /\ NonceInv(net, raced)
    <2>1. TypeOK /\ net \subseteq Messages
      BY DEF Inv, TypeInv
    <2>2. p \in Peers /\ index \in Nat
      BY <1>1, <2>1, Numbers DEF TypeOK
    <2> QED
      BY <1>1, <2>1, <2>2 DEF Inv, SessionInv
  <1>5. s \in Slots /\ b \in Keypairs /\ pkt \in 0 .. MaxPackets /\ pkt \in Nat
    BY <1>1, <1>4, Numbers DEF TypeOK
  <1>6. /\ b.valid /\ (b.init \/ b.rx) /\ pkt # 0 /\ Rooted(net, n, b) /\ Shared(net, b)
    BY <1>1, <1>3 DEF Inv, SessionInv, SendingInv
  <1>7. /\ pkt \in 0 .. packets /\ packets \in Nat
        /\ \A x \in DataOf(net) : x.pkt # pkt /\ x.pkt \in 0 .. packets
        /\ \A o \in Node : o # n => sending[o].pkt # pkt
    BY <1>1, <1>6, Numbers DEF Inv, PacketInv, TypeInv, TypeOK
  <1>8. (p[s].key = b.key /\ p[s].tx = b.tx) \/ pkt \in raced'
    BY <1>3
  <1>9. raced \subseteq raced' /\ raced' \subseteq 1 .. MaxPackets
    BY <1>3, <1>4, <1>5, <1>6 DEF TypeOK
  <1>10. HandshakesInv(net', index) /\ DataInv(net') /\ PeerInv(net', raced', n, q)
    BY <1>2, <1>3, <1>4, <1>5, <1>6, <1>8, <1>9, SendEndKeeps, SMTT(20)
  <1>11. /\ d \in DataMessages
         /\ d.to = Other(n) /\ d.idx = b.remote
         /\ d.key = b.key /\ d.byInit = b.init
         /\ d.ctr = b.tx /\ d.pkt = pkt
         /\ d.type = "data"
    BY <1>2, <1>5, DataType
  <1>12. /\ DataOf(net') = DataOf(net) \cup {d} /\ InitsOf(net') = InitsOf(net)
         /\ net' \subseteq Messages
    BY <1>3, <1>4, <1>11 DEF DataOf, InitsOf, Messages
  <1>13. sending'[n] = Idle /\ \A o \in Node : o # n => sending'[o] = sending[o]
    BY <1>3, <1>4 DEF TypeOK
  <1>14. q \in Peers /\ peer'[n] = q
    <2>1. Sent(n, p, s) \in Peers
      BY <1>4, <1>5, SentType
    <2> QED
      BY <1>2, <1>3, <1>4, <2>1 DEF TypeOK
  <1>15. TypeInv'
    <2>1. peer' \in [Node -> Peers]
      BY <1>3, <1>4, <1>14 DEF TypeOK
    <2>2. Idle \in [slot : Slots, k : Keypairs, pkt : 0 .. MaxPackets]
      BY Numbers, ZeroType DEF Idle, Slots
    <2>3. sending' \in [Node -> [slot : Slots, k : Keypairs, pkt : 0 .. MaxPackets]]
      BY <1>3, <1>4, <2>2 DEF TypeOK
    <2> QED
      BY <1>3, <1>4, <1>9, <1>12, <2>1, <2>3 DEF TypeInv, TypeOK
  <1>16. SessionInv'
    <2>1. SendingInv(net', n, sending'[n])
      BY <1>13 DEF SendingInv
    <2>2. net \subseteq net' /\ \A m \in net' : m \in net \/ m.to = Other(n)
      BY <1>3, <1>11
    <2>3. HandshakesInv(net', index') /\ PeerInv(net', raced', n, peer'[n])
      BY <1>3, <1>10, <1>14
    <2>4. \A o \in Node : o # n => peer'[o] = peer[o] /\ sending'[o] = sending[o]
      BY <1>3, <1>4, <1>13 DEF TypeOK
    <2> QED
      BY <1>9, <1>10, <2>1, <2>2, <2>3, <2>4, SessionMoves
  <1>17. b.tx < Most
    BY <1>1, <1>3 DEF Inv, CounterInv
  <1>18. PacketInv'
    <2>1. PacketInv
      BY DEF Inv
    <2>2. \A x \in DataOf(net') : x.pkt \in 0 .. packets /\ x.ctr < Most
      BY <1>7, <1>11, <1>12, <1>17, <2>1 DEF PacketInv
    <2>3. \A x, y \in DataOf(net') : x.pkt = y.pkt /\ x.pkt # 0 => x = y
      BY <1>7, <1>11, <1>12, <2>1 DEF PacketInv
    <2>4. Idle.pkt = 0
      BY DEF Idle
    <2>5. ASSUME NEW o \in Node
          PROVE  /\ sending'[o].pkt \in 0 .. packets
                 /\ sending'[o].pkt # 0 => \A x \in DataOf(net') : x.pkt # sending'[o].pkt
      <3>1. CASE o = n
        BY <1>7, <1>13, <2>4, <3>1
      <3>2. CASE o # n
        BY <1>7, <1>11, <1>12, <1>13, <2>1, <3>2 DEF PacketInv
      <3> QED
        BY <3>1, <3>2
    <2>6. ASSUME NEW o \in Node, NEW v \in Node, sending'[o].pkt = sending'[v].pkt,
                 sending'[o].pkt # 0
          PROVE  o = v
      BY <1>13, <2>1, <2>4, <2>6 DEF PacketInv
    <2> QED
      BY <1>3, <2>2, <2>3, <2>5, <2>6 DEF PacketInv
  <1>19. NonceInv(net', raced')
    <2>1. Spent(net, raced, n, b) \/ pkt \in raced'
      <3>1. CASE p[s].key = b.key /\ p[s].tx = b.tx
        <4>1. CASE p[s].valid
          <5>1. Rooted(net, n, p[s]) /\ Spent(net, raced, n, p[s])
            BY <1>4, <1>5, <4>1 DEF PeerInv, KeypairInv
          <5>2. p[s].init <=> b.init
            BY <1>4, <1>6, <3>1, <5>1, SameRole
          <5>3. p[s] \in Keypairs
            BY <1>4, <1>5 DEF Peers, Slots
          <5>4. p[s].init = b.init
            BY <1>5, <5>2, <5>3 DEF Keypairs
          <5> QED
            BY <3>1, <5>1, <5>4 DEF Spent
        <4>2. CASE ~ p[s].valid
          <5>1. b.key = <<0, 0>>
            BY <1>4, <1>5, <3>1, <4>2 DEF PeerInv, KeypairInv
          <5>2. PICK r \in RespsOf(net) : b.key = <<r.idx, r.sender>>
            BY <1>6 DEF Rooted
          <5>3. r.sender = 0 /\ r.sender \in 1 .. index
            BY <1>4, <5>1, <5>2 DEF HandshakesInv
          <5> QED
            BY <1>4, <5>3
        <4> QED
          BY <4>1, <4>2
      <3> QED
        BY <1>8, <3>1
    <2>2. NonceInv(net \cup {Data(n, b, pkt)}, raced')
      BY <1>4, <1>5, <1>6, <1>9, <2>1, NonceAdd
    <2> QED
      BY <1>2, <1>3, <2>2
  <1>20. CounterInv'
    <2>1. Budget(n)' = packets /\ Budget(n) = packets - 1
      BY <1>3, <1>13 DEF Budget
    <2>2. \A o \in Node : o # n => Budget(o)' = Budget(o)
      BY <1>3, <1>13 DEF Budget
    <2>3. Counted(p, uptime[n], Budget(n)) /\ Budget(n) \in Nat /\ Budget(n) <= packets
          /\ uptime[n] \in Nat
      BY <1>1, BudgetType DEF Inv, CounterInv
    <2>4. p[s].tx + 1 <= packets + uptime[n]
      <3>1. p[s].tx \in Nat /\ p.lastTx \in Nat /\ p.lastTx <= uptime[n]
            /\ p[s].tx <= Budget(n) + p.lastTx
        BY <1>4, <1>5, <2>3, CountedType DEF Counted
      <3> QED
        BY <1>7, <2>1, <2>3, <3>1
    <2>5. Counted(q, uptime[n], packets)
      BY <1>2, <1>4, <1>5, <1>7, <2>3, <2>4, SentCounted
    <2>6. ASSUME NEW o \in Node PROVE Counted(peer'[o], uptime[o], Budget(o)')
      <3>1. CASE o = n
        BY <1>14, <2>1, <2>5, <3>1
      <3>2. CASE o # n
        <4>1. peer'[o] = peer[o]
          BY <1>3, <1>4, <3>2 DEF TypeOK
        <4> QED
          BY <2>2, <3>2, <4>1 DEF Inv, CounterInv
      <3> QED
        BY <3>1, <3>2
    <2>7. \A o \in Node : sending'[o] # Idle => sending'[o].k.tx < Most
      BY <1>13 DEF Inv, CounterInv
    <2> QED
      BY <1>3, <2>6, <2>7 DEF CounterInv
  <1>21. InitiationInv'
    BY <1>3, <1>12 DEF Inv, InitiationInv
  <1>22. Quiet(n)
    <2>1. peer' = [peer EXCEPT ![n] = peer'[n]] /\ net \subseteq net'
      BY <1>3, <1>14
    <2>2. NewTo(n, {}) /\ Follows(peer[n], q, {})
      BY <1>1, <1>2, <1>4, <1>5, SentFollows DEF NewTo
    <2> QED
      BY <1>3, <1>14, <2>1, <2>2 DEF Quiet
  <1> QED
    BY <1>15, <1>16, <1>18, <1>19, <1>20, <1>21 , <1>22 DEF Inv

\* A restart forgets the sessions, and a message under way.
LEMMA RestartStep ==
  ASSUME Inv, NEW n \in Node, Restart(n)
  PROVE  Inv' /\ Quiet(n)
  <1>1. /\ restarts[n] < MaxRestarts
        /\ restarts' = [restarts EXCEPT ![n] = @ + 1]
        /\ uptime' = [uptime EXCEPT ![n] = 1]
        /\ peer' = [peer EXCEPT ![n] = NewPeer]
        /\ sending' = [sending EXCEPT ![n] = Idle]
        /\ UNCHANGED <<net, index, packets, raced, got, confirmers>>
    BY DEF Restart
  <1>2. TypeOK /\ net \subseteq Messages /\ NewPeer \in Peers
    BY ZeroType DEF Inv, TypeInv
  <1>3. /\ restarts[n] \in Nat /\ restarts'[n] = restarts[n] + 1
        /\ restarts'[n] \in 0 .. MaxRestarts
        /\ uptime'[n] = 1 /\ peer'[n] = NewPeer /\ sending'[n] = Idle
        /\ \A o \in Node : o # n => /\ peer'[o] = peer[o] /\ sending'[o] = sending[o]
                                    /\ restarts'[o] = restarts[o] /\ uptime'[o] = uptime[o]
    BY <1>1, <1>2, Numbers DEF TypeOK
  <1>4. TypeInv'
    <2>1. peer' \in [Node -> Peers]
      BY <1>1, <1>2 DEF TypeOK
    <2>2. Idle \in [slot : Slots, k : Keypairs, pkt : 0 .. MaxPackets]
      BY Numbers, ZeroType DEF Idle, Slots
    <2>3. sending' \in [Node -> [slot : Slots, k : Keypairs, pkt : 0 .. MaxPackets]]
      BY <1>1, <1>2, <2>2 DEF TypeOK
    <2>4. restarts' \in [Node -> 0 .. MaxRestarts]
      BY <1>1, <1>2, <1>3 DEF TypeOK
    <2>5. 1 \in 1 .. MaxUptime
      <3>1. uptime[n] \in 1 .. MaxUptime
        BY <1>2 DEF TypeOK
      <3> QED
        BY <3>1, Numbers
    <2>6. uptime' \in [Node -> 1 .. MaxUptime]
      BY <1>1, <1>2, <2>5 DEF TypeOK
    <2> QED
      BY <1>1, <1>2, <2>1, <2>3, <2>4, <2>6 DEF TypeInv, TypeOK
  <1>5. SessionInv'
    <2>1. PeerInv(net', raced', n, peer'[n])
      BY <1>3, NewPeerKeeps
    <2>2. SendingInv(net', n, sending'[n])
      BY <1>3 DEF SendingInv
    <2>3. HandshakesInv(net', index') /\ DataInv(net')
      BY <1>1 DEF Inv, SessionInv
    <2> QED
      BY <1>1, <1>3, <2>1, <2>2, <2>3, SessionMoves
  <1>6. PacketInv'
    <2>1. Idle.pkt = 0 /\ packets \in Nat
      BY <1>2, Numbers DEF Idle, TypeOK
    <2>2. PacketInv
      BY DEF Inv
    <2>3. ASSUME NEW o \in Node
          PROVE  /\ sending'[o].pkt \in 0 .. packets
                 /\ sending'[o].pkt # 0 => \A x \in DataOf(net) : x.pkt # sending'[o].pkt
      <3>1. CASE o = n
        BY <1>3, <2>1, <3>1
      <3>2. CASE o # n
        BY <1>3, <2>2, <3>2 DEF PacketInv
      <3> QED
        BY <3>1, <3>2
    <2>4. ASSUME NEW o \in Node, NEW v \in Node, sending'[o].pkt = sending'[v].pkt,
                 sending'[o].pkt # 0
          PROVE  o = v
      BY <1>3, <2>1, <2>2, <2>4 DEF PacketInv
    <2> QED
      BY <1>1, <2>2, <2>3, <2>4 DEF PacketInv
  <1>7. CounterInv'
    <2>1. Budget(n)' = packets
      BY <1>1, <1>3 DEF Budget
    <2>2. Counted(NewPeer, 1, packets)
      <3>1. packets \in Nat /\ Most \in Nat
        BY <1>2, Numbers, ZeroType, CountedType DEF TypeOK, Slots
      <3>2. NewPeer.lastTx = 0 /\ \A s \in Slots : NewPeer[s] = ZeroKeypair
        BY DEF NewPeer, Slots
      <3> QED
        BY <3>1, <3>2, ZeroType DEF Counted
    <2>3. ASSUME NEW o \in Node PROVE Counted(peer'[o], uptime'[o], Budget(o)')
      <3>1. CASE o = n
        BY <1>3, <2>1, <2>2, <3>1
      <3>2. CASE o # n
        <4>1. Budget(o)' = Budget(o)
          BY <1>1, <1>3, <3>2 DEF Budget
        <4> QED
          BY <1>3, <3>2, <4>1 DEF Inv, CounterInv
      <3> QED
        BY <3>1, <3>2
    <2>4. \A o \in Node : sending'[o] # Idle => sending'[o].k.tx < Most
      BY <1>3 DEF Inv, CounterInv
    <2> QED
      BY <2>3, <2>4 DEF CounterInv
  <1>8. InitiationInv'
    <2>1. InitiationInv
      BY DEF Inv
    <2>2. ASSUME NEW m \in InitsOf(net)
          PROVE  /\ m.boot <= restarts'[Other(m.to)]
                 /\ m.boot = restarts'[Other(m.to)] =>
                       m.ts <= uptime'[Other(m.to)] * (MaxIndex + 1) + index
      <3>1. m.boot \in Nat /\ m.to \in Node
        BY <1>2, MessageKinds DEF InitsOf, InitMessages
      <3>2. PICK o \in Node : o = Other(m.to)
        BY <3>1, TwoDevices
      <3>3. m.boot <= restarts[o]
        BY <2>1, <3>2 DEF InitiationInv
      <3>4. CASE o = n
        BY <1>3, <3>1, <3>2, <3>3, <3>4
      <3>5. CASE o # n
        BY <1>3, <2>1, <3>2, <3>5 DEF InitiationInv
      <3> QED
        BY <3>4, <3>5
    <2> QED
      BY <1>1, <2>1, <2>2 DEF InitiationInv
  <1>9. NonceInv(net, raced)'
    BY <1>1 DEF Inv
  <1>10. Quiet(n)
    <2>1. \A s \in Slots : NewPeer[s] = ZeroKeypair
      BY DEF NewPeer, Slots
    <2>2. NewTo(n, {}) /\ Follows(peer[n], NewPeer, {})
      BY <2>1, ClearedFollows DEF NewTo
    <2> QED
      BY <1>1, <1>3, <2>2 DEF Quiet
  <1> QED
    BY <1>4, <1>5, <1>6, <1>7, <1>8, <1>9, <1>10 DEF Inv

LEMMA SlotFound ==
  ASSUME NEW p, NEW idx, SlotsFor(p, idx) # {}
  PROVE  /\ SlotFor(p, idx) \in Slots
         /\ p[SlotFor(p, idx)].valid /\ p[SlotFor(p, idx)].local = idx
  <1>1. \E s \in SlotsFor(p, idx) : "next" \in SlotsFor(p, idx) => s = "next"
    OBVIOUS
  <1>2. SlotFor(p, idx) \in SlotsFor(p, idx)
    BY <1>1 DEF SlotFor
  <1> QED
    BY <1>2 DEF SlotsFor

\* A packet arrives for a session.
LEMMA DataStep ==
  ASSUME Inv, NEW n \in Node, NEW m \in net, m.to = n, ReceiveData(n, m)
  PROVE  Inv'
  <1>1. PICK p, s, q : /\ p = peer[n] /\ s = SlotFor(p, m.idx)
                       /\ q = ProcessData(n, p, s, m)
    OBVIOUS
  <1>2. /\ m.type = "data" /\ SlotsFor(p, m.idx) # {}
        /\ peer' = [peer EXCEPT ![n] = q]
        /\ Delivers(n, p, s, m) => got[m.pkt] < 3
        /\ got' = IF Delivers(n, p, s, m) THEN [got EXCEPT ![m.pkt] = @ + 1] ELSE got
        /\ confirmers' = IF Delivers(n, p, s, m) /\ s = "next"
                         THEN confirmers \cup {m.pkt} ELSE confirmers
        /\ UNCHANGED <<uptime, net, index, packets, restarts, sending, raced>>
    BY <1>1 DEF ReceiveData
  <1>3. /\ TypeOK /\ net \subseteq Messages /\ p \in Peers /\ m \in DataOf(net)
        /\ m \in DataMessages /\ HandshakesInv(net, index) /\ DataInv(net)
        /\ PeerInv(net, raced, n, p)
    <2>1. TypeOK /\ net \subseteq Messages
      BY DEF Inv, TypeInv
    <2>2. p \in Peers /\ m \in DataOf(net) /\ m \in DataMessages
      BY <1>1, <1>2, <2>1, MessageKinds DEF TypeOK, DataOf
    <2> QED
      BY <1>1, <2>1, <2>2 DEF Inv, SessionInv
  <1>4. s \in Slots /\ p[s].valid /\ p[s].local = m.idx
    BY <1>1, <1>2, SlotFound
  <1>5. q \in Peers /\ PeerInv(net, raced, n, q)
        /\ q.handshake = p.handshake /\ q.lastTx = p.lastTx /\ q.greatest = p.greatest
    BY <1>1, <1>3, <1>4, ProcessDataKeeps
  <1>6. peer'[n] = q /\ \A o \in Node : o # n => peer'[o] = peer[o] /\ sending'[o] = sending[o]
    BY <1>2, <1>3 DEF TypeOK
  <1>7. TypeInv'
    <2>1. peer' \in [Node -> Peers]
      BY <1>2, <1>3, <1>5 DEF TypeOK
    <2>2. Delivers(n, p, s, m) => m.pkt \in 1 .. MaxPackets
      <3>1. m.pkt \in 0 .. packets /\ packets \in 0 .. MaxPackets
        BY <1>3 DEF Inv, PacketInv, TypeOK
      <3>2. Delivers(n, p, s, m) => m.pkt # 0
        BY DEF Delivers, Empty
      <3> QED
        BY <3>1, <3>2, Numbers
    <2>3. got' \in [1 .. MaxPackets -> 0 .. 3] /\ confirmers' \subseteq 1 .. MaxPackets
      <3>1. CASE Delivers(n, p, s, m)
        <4>1. got[m.pkt] + 1 \in 0 .. 3
          <5>1. m.pkt \in 1 .. MaxPackets /\ got[m.pkt] < 3
            BY <1>2, <2>2, <3>1
          <5>2. got[m.pkt] \in 0 .. 3
            BY <1>3, <5>1 DEF TypeOK
          <5> QED
            BY <5>1, <5>2
        <4>2. got' = [got EXCEPT ![m.pkt] = got[m.pkt] + 1]
          BY <1>2, <3>1
        <4> QED
          BY <1>2, <1>3, <2>2, <3>1, <4>1, <4>2 DEF TypeOK
      <3>2. CASE ~ Delivers(n, p, s, m)
        BY <1>2, <1>3, <3>2 DEF TypeOK
      <3> QED
        BY <3>1, <3>2
    <2> QED
      BY <1>2, <1>3, <2>1, <2>3 DEF TypeInv, TypeOK
  <1>8. SessionInv'
    <2>1. PeerInv(net', raced', n, peer'[n]) /\ SendingInv(net', n, sending'[n])
      BY <1>2, <1>5, <1>6 DEF Inv, SessionInv
    <2>2. HandshakesInv(net', index') /\ DataInv(net')
      BY <1>2, <1>3
    <2> QED
      BY <1>2, <1>6, <2>1, <2>2, SessionMoves
  <1>9. PacketInv' /\ NonceInv(net, raced)' /\ InitiationInv'
    BY <1>2 DEF Inv, PacketInv, InitiationInv
  <1>10. CounterInv'
    <2>1. \A o \in Node : Budget(o)' = Budget(o)
      BY <1>2 DEF Budget
    <2>2. m.ctr + 1 <= Most
      <3>1. m.ctr < Most /\ m.ctr \in Nat /\ Most \in Nat
        BY <1>3, <1>4, CountedType DEF Inv, PacketInv, DataMessages
      <3> QED
        BY <3>1
    <2>3. Counted(q, uptime[n], Budget(n))
      <3>1. Counted(p, uptime[n], Budget(n)) /\ Budget(n) \in Nat
        BY <1>1, BudgetType DEF Inv, CounterInv
      <3> QED
        BY <1>1, <1>3, <1>4, <2>2, <3>1, ProcessDataCounted
    <2>4. ASSUME NEW o \in Node PROVE Counted(peer'[o], uptime[o], Budget(o))
      <3>1. CASE o = n
        BY <1>6, <2>3, <3>1
      <3>2. CASE o # n
        BY <1>6, <3>2 DEF Inv, CounterInv
      <3> QED
        BY <3>1, <3>2
    <2>5. \A o \in Node : sending[o] # Idle => sending[o].k.tx < Most
      BY DEF Inv, CounterInv
    <2> QED
      BY <1>2, <2>1, <2>4, <2>5 DEF CounterInv
  <1> QED
    BY <1>7, <1>8, <1>9, <1>10 DEF Inv
-----------------------------------------------------------------------------
(***************************************************************************)
(* The invariant, and what follows from it.                                *)
(***************************************************************************)
LEMMA NextCases ==
  ASSUME Next
  PROVE  \/ Tick
         \/ \E n \in Node : \/ Connect(n) \/ SendBegin(n) \/ SendEnd(n) \/ Periodic(n)
                            \/ Restart(n)
                            \/ \E m \in net : /\ m.to = n
                                              /\ \/ ReceiveInitiation(n, m)
                                                 \/ ReceiveResponse(n, m)
                                                 \/ ReceiveData(n, m)
  BY DEF Next, Receive

LEMMA InvInit == Init => Inv
  <1> SUFFICES ASSUME Init PROVE Inv
    OBVIOUS
  <1>1. /\ peer = [n \in Node |-> NewPeer] /\ uptime = [n \in Node |-> 1]
        /\ net = {} /\ index = 0 /\ packets = 0 /\ restarts = [n \in Node |-> 0]
        /\ sending = [n \in Node |-> Idle] /\ raced = {}
        /\ got = [x \in 1 .. MaxPackets |-> 0] /\ confirmers = {}
    BY DEF Init
  <1>2. TypeInv
    <2>1. 1 \in 1 .. MaxUptime /\ 0 \in 0 .. MaxIndex /\ 0 \in 0 .. MaxPackets
          /\ 0 \in 0 .. MaxRestarts
      BY Numbers
    <2>2. NewPeer \in Peers /\ Idle \in [slot : Slots, k : Keypairs, pkt : 0 .. MaxPackets]
      BY <2>1, ZeroType DEF Idle, Slots
    <2> QED
      BY <1>1, <2>1, <2>2 DEF TypeInv, TypeOK
  <1>3. InitsOf(net) = {} /\ RespsOf(net) = {} /\ DataOf(net) = {}
    BY <1>1 DEF InitsOf, RespsOf, DataOf
  <1>4. SessionInv
    <2>1. HandshakesInv(net, index) /\ DataInv(net)
      BY <1>3 DEF HandshakesInv, DataInv
    <2>2. \A n \in Node : PeerInv(net, raced, n, peer[n]) /\ SendingInv(net, n, sending[n])
      BY <1>1, NewPeerKeeps DEF SendingInv
    <2> QED
      BY <2>1, <2>2 DEF SessionInv
  <1>5. PacketInv
    BY <1>1, <1>3 DEF PacketInv, Idle
  <1>6. NonceInv(net, raced) /\ InitiationInv
    BY <1>3 DEF NonceInv, InitiationInv
  <1>7. CounterInv
    <2>1. Most \in Nat
      BY ZeroType, CountedType DEF Slots
    <2>2. NewPeer.lastTx = 0 /\ \A s \in Slots : NewPeer[s] = ZeroKeypair
      BY DEF NewPeer, Slots
    <2>3. Counted(NewPeer, 1, 0)
      BY <2>1, <2>2, ZeroType DEF Counted
    <2> QED
      BY <1>1, <2>3 DEF CounterInv, Budget
  <1> QED
    BY <1>2, <1>4, <1>5, <1>6, <1>7 DEF Inv

LEMMA InvNext == Inv /\ [Next]_vars => Inv'
  <1> SUFFICES ASSUME Inv, [Next]_vars PROVE Inv'
    OBVIOUS
  <1>1. CASE Tick
    BY <1>1, TickStep
  <1>2. ASSUME NEW n \in Node, Connect(n) PROVE Inv'
    BY <1>2, ConnectStep
  <1>3. ASSUME NEW n \in Node, SendBegin(n) PROVE Inv'
    BY <1>3, SendBeginStep
  <1>4. ASSUME NEW n \in Node, SendEnd(n) PROVE Inv'
    BY <1>4, SendEndStep
  <1>5. ASSUME NEW n \in Node, Periodic(n) PROVE Inv'
    BY <1>5, PeriodicStep
  <1>6. ASSUME NEW n \in Node, Restart(n) PROVE Inv'
    BY <1>6, RestartStep
  <1>7. ASSUME NEW n \in Node, NEW m \in net, m.to = n, ReceiveInitiation(n, m) PROVE Inv'
    BY <1>7, ReceiveInitiationStep
  <1>8. ASSUME NEW n \in Node, NEW m \in net, m.to = n, ReceiveResponse(n, m) PROVE Inv'
    BY <1>8, ReceiveResponseStep
  <1>9. ASSUME NEW n \in Node, NEW m \in net, m.to = n, ReceiveData(n, m) PROVE Inv'
    BY <1>9, DataStep
  <1>10. CASE UNCHANGED vars
    <2>1. \A n \in Node : Budget(n)' = Budget(n)
      BY <1>10 DEF vars, Budget
    <2> QED
      BY <1>10, <2>1 DEF vars, Inv, TypeInv, TypeOK, SessionInv, PacketInv, CounterInv,
                         InitiationInv
  <1> QED
    BY <1>1, <1>2, <1>3, <1>4, <1>5, <1>6, <1>7, <1>8, <1>9, <1>10, NextCases

LEMMA Invariance == Spec => []Inv
  BY InvInit, InvNext, PTL DEF Spec

\* What a keypair decrypts it has the key for: the packet and the keypair come
\* from one response, and the two ends have one role each.
LEMMA FoundKeyFits ==
  ASSUME Inv, NEW m \in DataOf(net), NEW s \in Slots,
         peer[m.to][s].valid, peer[m.to][s].local = m.idx
  PROVE  Decrypts(peer[m.to][s], m)
  <1>1. PICK k : k = peer[m.to][s]
    OBVIOUS
  <1>2. net \subseteq Messages /\ HandshakesInv(net, index) /\ DataInv(net)
    BY DEF Inv, TypeInv, SessionInv
  <1>3. m.to \in Node /\ m \in DataMessages
    BY <1>2, MessageKinds DEF DataOf
  <1>4. k \in Keypairs /\ Rooted(net, m.to, k)
    BY <1>1, <1>3 DEF Inv, TypeInv, TypeOK, SessionInv, PeerInv, KeypairInv, Peers, Slots
  <1>5. PICK r \in RespsOf(net) :
          /\ k.key = <<r.idx, r.sender>>
          /\ IF k.init THEN r.to = m.to /\ k.local = r.idx /\ k.remote = r.sender
                       ELSE r.to = Other(m.to) /\ k.local = r.sender /\ k.remote = r.idx
    BY <1>4 DEF Rooted
  <1>6. PICK t \in RespsOf(net) :
          /\ m.key = <<t.idx, t.sender>>
          /\ IF m.byInit THEN t.to = Other(m.to) /\ m.idx = t.sender
                         ELSE t.to = m.to /\ m.idx = t.idx
    BY <1>2 DEF DataInv
  <1>7. PICK e, f \in InitsOf(net) : e.idx = r.idx /\ f.idx = t.idx
    BY <1>2 DEF HandshakesInv
  <1>8. Other(m.to) # m.to
    BY <1>3, TwoDevices
  <1>9. CASE k.init /\ m.byInit
    BY <1>1, <1>2, <1>5, <1>6, <1>7, <1>9 DEF HandshakesInv
  <1>10. CASE k.init /\ ~ m.byInit
    <2>1. r.idx = t.idx
      BY <1>1, <1>5, <1>6, <1>10
    <2>2. Used(net, m.key) /\ Used(net, k.key)
      BY <1>1, <1>2, <1>3, <1>10 DEF DataInv, Inv, SessionInv, PeerInv, KeypairInv, Shared
    <2>3. PICK d, g \in DataOf(net) : d.byInit /\ d.key = m.key /\ g.byInit /\ g.key = k.key
      BY <2>2 DEF Used
    <2>4. d.key[1] = g.key[1]
      <3>1. m.key[1] = t.idx /\ k.key[1] = r.idx
        BY <1>5, <1>6
      <3> QED
        BY <2>1, <2>3, <3>1
    <2>5. m.key = k.key
      BY <1>2, <2>3, <2>4 DEF DataInv
    <2> QED
      BY <1>1, <1>10, <2>5 DEF Decrypts
  <1>11. CASE ~ k.init /\ m.byInit
    <2>1. r.sender = t.sender
      BY <1>1, <1>5, <1>6, <1>11
    <2>2. r.idx = t.idx
      BY <1>2, <2>1 DEF HandshakesInv
    <2> QED
      BY <1>1, <1>5, <1>6, <1>11, <2>1, <2>2 DEF Decrypts
  <1>12. CASE ~ k.init /\ ~ m.byInit
    BY <1>1, <1>2, <1>5, <1>6, <1>7, <1>12 DEF HandshakesInv
  <1> QED
    BY <1>9, <1>10, <1>11, <1>12

\* The two ends of a session have the same keys, and nobody sends under a key
\* the other has not derived: for any crossing, loss and repetition of the
\* handshakes, and restarts between them (keypair_update, start_session).
THEOREM SessionEndsAgree == Spec => []EndsAgree
  <1>1. Inv => EndsAgree
    <2> SUFFICES ASSUME Inv PROVE EndsAgree
      OBVIOUS
    <2>1. DataInFlight = DataOf(net)
      BY DEF DataInFlight, DataOf
    <2>2. KeysAgree
      BY <2>1, FoundKeyFits DEF KeysAgree
    <2>3. KeyIsShared
      <3>1. \A m \in DataOf(net) : \E r \in RespsOf(net) : m.key = <<r.idx, r.sender>>
        BY DEF Inv, SessionInv, DataInv
      <3>2. \A m \in DataOf(net) : \E d \in DataOf(net) : d.byInit /\ d.key = m.key
        BY DEF Inv, SessionInv, DataInv, Used
      <3> QED
        BY <2>1, <3>1, <3>2 DEF KeyIsShared, RespsOf
    <2> QED
      BY <2>2, <2>3 DEF EndsAgree, Inv, TypeInv
  <1> QED
    BY <1>1, Invariance, PTL

\* A counter goes twice under a key only when wg_mgr changed the keypair while
\* lwIP was sending with it (wireguardif_output).
THEOREM SessionNonces == Spec => []NoNonceReuse
  <1>1. Inv => NoNonceReuse
    BY DEF Inv, NonceInv, NoNonceReuse, DataInFlight, DataOf
  <1> QED
    BY <1>1, Invariance, PTL

\* Within one boot of a device its newer initiation is not refused for an older
\* one (wireguard_process_initiation_message, wireguard_tai64n_now).
THEOREM SessionHearsNewer == Spec => []NewerInitiationIsHeard
  <1>1. Inv => NewerInitiationIsHeard
    <2> SUFFICES ASSUME Inv PROVE NewerInitiationIsHeard
      OBVIOUS
    <2>1. Initiations = InitsOf(net)
      BY DEF Initiations, InitsOf
    <2>2. \A m \in InitsOf(net) : m.ts \in Nat
      BY MessageKinds DEF Inv, TypeInv, InitsOf, InitMessages
    <2>3. \A m, e \in InitsOf(net) :
             m.to = e.to /\ m.boot = e.boot /\ m.idx > e.idx => m.ts > e.ts
      BY DEF Inv, InitiationInv
    <2> QED
      BY <2>1, <2>2, <2>3 DEF NewerInitiationIsHeard, RefusedThoughNewer
  <1> QED
    BY <1>1, Invariance, PTL
-----------------------------------------------------------------------------
(***************************************************************************)
(* Deliveries.  What a packet has been delivered under refuses it from then *)
(* on, or is the keypair it confirmed, whose window the code left empty.   *)
(***************************************************************************)
Delivered(m) ==
    /\ got[m.pkt] = 1 \/ (got[m.pkt] = 2 /\ m.pkt \in confirmers)
    /\ \A s \in Slots : peer[m.to][s].valid /\ peer[m.to][s].local = m.idx =>
          /\ s # "next"
          /\ Fresh(peer[m.to][s].window, m.ctr + 1) => m.pkt \in confirmers /\ got[m.pkt] = 1

DeliveryInv ==
    \A x \in 1 .. MaxPackets : got[x] # 0 =>
        \E m \in DataOf(net) : m.pkt = x /\ Delivered(m)

\* A delivered packet stays so over a step that does not deliver it.
LEMMA DeliveredStays ==
  ASSUME NEW m \in DataMessages, Delivered(m),
         got'[m.pkt] = got[m.pkt], m.pkt \in confirmers' <=> m.pkt \in confirmers,
         NEW I, m.idx \notin I, Follows(peer[m.to], peer'[m.to], I)
  PROVE  Delivered(m)'
  <1>1. m.ctr + 1 \in Sequence
    BY DEF DataMessages, Sequence
  <1>2. ASSUME NEW s \in Slots, peer'[m.to][s].valid, peer'[m.to][s].local = m.idx
        PROVE  /\ s # "next"
               /\ Fresh(peer'[m.to][s].window, m.ctr + 1) => m.pkt \in confirmers /\ got[m.pkt] = 1
    <2>1. PICK t \in Slots :
             /\ peer[m.to][t].valid /\ peer[m.to][t].local = peer'[m.to][s].local
             /\ s = "next" => t = "next"
             /\ \A x \in Sequence :
                   ~ Fresh(peer[m.to][t].window, x) => ~ Fresh(peer'[m.to][s].window, x)
      BY <1>2 DEF Follows
    <2>2. /\ t # "next"
          /\ Fresh(peer[m.to][t].window, m.ctr + 1) => m.pkt \in confirmers /\ got[m.pkt] = 1
      BY <1>2, <2>1 DEF Delivered
    <2> QED
      BY <1>1, <2>1, <2>2
  <1> QED
    BY <1>2 DEF Delivered

LEMMA QuietDelivers ==
  ASSUME Inv, DeliveryInv, NEW n \in Node, Quiet(n)
  PROVE  DeliveryInv'
  <1> SUFFICES ASSUME NEW x \in 1 .. MaxPackets, got'[x] # 0
               PROVE  \E m \in DataOf(net') : m.pkt = x /\ Delivered(m)'
    BY DEF DeliveryInv
  <1>1. /\ peer' = [peer EXCEPT ![n] = peer'[n]] /\ net \subseteq net'
        /\ got' = got /\ confirmers' = confirmers
    BY DEF Quiet
  <1>2. PICK m \in DataOf(net) : m.pkt = x /\ Delivered(m)
    BY <1>1 DEF DeliveryInv
  <1>3. m \in DataMessages /\ m.to \in Node
    BY MessageKinds DEF Inv, TypeInv, DataOf
  <1>4. m \in DataOf(net')
    BY <1>1 DEF DataOf
  <1>5. CASE m.to = n
    <2>1. PICK I : NewTo(n, I) /\ Follows(peer[n], peer'[n], I)
      BY DEF Quiet
    <2>2. m.idx \notin I
      BY <1>5, <2>1 DEF NewTo
    <2>3. Delivered(m)'
      BY <1>1, <1>2, <1>3, <1>5, <2>1, <2>2, DeliveredStays
    <2> QED
      BY <1>2, <1>4, <2>3
  <1>6. CASE m.to # n
    <2>1. peer'[m.to] = peer[m.to]
      BY <1>1, <1>3, <1>6 DEF Inv, TypeInv, TypeOK
    <2>2. Follows(peer[m.to], peer'[m.to], {})
      BY <2>1, ClearedFollows
    <2>3. Delivered(m)'
      BY <1>1, <1>2, <1>3, <2>2, DeliveredStays
    <2> QED
      BY <1>2, <1>4, <2>3
  <1> QED
    BY <1>5, <1>6

\* Where a delivered packet leaves its keypair.
LEMMA DeliveryLeaves ==
  ASSUME NEW n, NEW p \in Peers, SlotsInv(p), NEW s \in Slots, NEW m \in DataMessages,
         p[s].valid, p[s].local = m.idx, NEW q, q = ProcessData(n, p, s, m),
         Delivers(n, p, s, m), NEW t \in Slots, q[t].valid, q[t].local = m.idx
  PROVE  /\ t # "next"
         /\ s # "next" => /\ Fresh(p[s].window, m.ctr + 1)
                          /\ ~ Fresh(q[t].window, m.ctr + 1)
  <1>1. PICK a : a = Authenticated(n, p, s, m)
    OBVIOUS
  <1>2. /\ ~ Expired(n, p[s].born, RejectAfter) /\ Decrypts(p[s], m) /\ m.pkt # Empty
        /\ Fresh(a[s].window, m.ctr + 1)
    BY <1>1 DEF Delivers, NotReplayed
  <1>3. q = RecordPacket(a, s, m)
    BY <1>1, <1>2, ProcessDataCases
  <1>4. /\ a \in Peers
        /\ a.handshake = p.handshake /\ a.lastTx = p.lastTx /\ a.greatest = p.greatest
        /\ s = "next" => /\ a["prev"] = p["curr"] /\ a["next"] = ZeroKeypair
                         /\ a["curr"] = [p["next"] EXCEPT !.rx = TRUE]
        /\ s # "next" => /\ a[s] = [p[s] EXCEPT !.rx = TRUE]
                         /\ \A u \in Slots : u # s => a[u] = p[u]
    BY ONLY <1>1, p \in Peers, s \in Slots, AuthenticatedCases
  <1>5. /\ q \in Peers
        /\ q.handshake = a.handshake /\ q.lastTx = a.lastTx /\ q.greatest = a.greatest
        /\ q[s] = [a[s] EXCEPT !.window = Checked(a[s].window, m.ctr + 1)]
        /\ \A u \in Slots : u # s => q[u] = a[u]
        /\ a[s] \in Keypairs /\ a[s].window \in Windows /\ m.ctr + 1 \in Sequence
        /\ Checked(a[s].window, m.ctr + 1) \in Windows
    BY <1>3, <1>4, RecordCases
  <1>6. p[s] \in Keypairs /\ p["curr"] \in Keypairs
    BY DEF Peers, Slots
  <1>7. q[s].valid = a[s].valid /\ q[s].window = Checked(a[s].window, m.ctr + 1)
    BY <1>5 DEF Keypairs
  <1>8. CASE s = "next"
    <2>1. ~ q["next"].valid
      BY <1>4, <1>7, <1>8, ZeroType
    <2> QED
      BY <1>8, <2>1
  <1>9. CASE s # "next"
    <2>1. a[s].window = p[s].window
      BY <1>4, <1>6, <1>9 DEF Keypairs
    <2>2. t = s
      <3>1. ASSUME t # s PROVE p[t].valid /\ p[t].local = p[s].local
        BY <1>4, <1>5, <1>9, <3>1
      <3> QED
        BY <3>1 DEF SlotsInv
    <2>3. ~ Fresh(q[s].window, m.ctr + 1)
      BY <1>5, <1>7, CheckedIsStale
    <2> QED
      BY <1>2, <1>9, <2>1, <2>2, <2>3
  <1> QED
    BY <1>8, <1>9

\* A packet arrives for a session.  Its window knows the counters it has seen
\* while they fit the word the code keeps their distance in.
LEMMA DataDelivers ==
  ASSUME Most < Modulus, Inv, DeliveryInv, NEW n \in Node, NEW m \in net, m.to = n,
         ReceiveData(n, m)
  PROVE  DeliveryInv'
  <1>1. PICK p, s, q : /\ p = peer[n] /\ s = SlotFor(p, m.idx)
                       /\ q = ProcessData(n, p, s, m)
    OBVIOUS
  <1>2. /\ m.type = "data" /\ SlotsFor(p, m.idx) # {}
        /\ peer' = [peer EXCEPT ![n] = q]
        /\ got' = IF Delivers(n, p, s, m) THEN [got EXCEPT ![m.pkt] = @ + 1] ELSE got
        /\ confirmers' = IF Delivers(n, p, s, m) /\ s = "next"
                         THEN confirmers \cup {m.pkt} ELSE confirmers
        /\ net' = net
    BY <1>1 DEF ReceiveData
  <1>3. /\ TypeOK /\ net \subseteq Messages /\ p \in Peers /\ m \in DataOf(net)
        /\ m \in DataMessages /\ SlotsInv(p)
    <2>1. TypeOK /\ net \subseteq Messages
      BY DEF Inv, TypeInv
    <2>2. p \in Peers /\ m \in DataOf(net) /\ m \in DataMessages
      BY <1>1, <1>2, <2>1, MessageKinds DEF TypeOK, DataOf
    <2> QED
      BY <1>1, <2>1, <2>2 DEF Inv, SessionInv, PeerInv
  <1>4. s \in Slots /\ p[s].valid /\ p[s].local = m.idx
    BY <1>1, <1>2, SlotFound
  <1>5. peer'[n] = q /\ \A o \in Node : o # n => peer'[o] = peer[o]
    BY <1>2, <1>3 DEF TypeOK
  <1>6. Follows(p, q, {})
    <2>1. p[s].window.counter <= Most /\ p[s].window.counter \in Nat /\ Most \in Nat
      BY <1>1, <1>3, <1>4, CountedType DEF Inv, CounterInv, Counted
    <2>2. m.ctr < Most /\ m.ctr \in Nat
      BY <1>3 DEF Inv, PacketInv, DataMessages
    <2>3. p[s].window.counter < Modulus /\ m.ctr + 1 < Modulus
      BY <2>1, <2>2, WindowAssumption
    <2> QED
      BY <1>1, <1>3, <1>4, <2>3, ProcessDataFollows
  <1>7. ASSUME NEW d \in DataOf(net), Delivered(d),
               got'[d.pkt] = got[d.pkt], d.pkt \in confirmers' <=> d.pkt \in confirmers
        PROVE  Delivered(d)'
    <2>1. d \in DataMessages /\ d.to \in Node
      BY <1>3, MessageKinds DEF DataOf
    <2>2. Follows(peer[d.to], peer'[d.to], {})
      <3>1. CASE d.to = n
        BY <1>1, <1>5, <1>6, <3>1
      <3>2. CASE d.to # n
        <4>1. peer'[d.to] = peer[d.to]
          BY <1>5, <2>1, <3>2
        <4> QED
          BY <4>1, ClearedFollows
      <3> QED
        BY <3>1, <3>2
    <2> QED
      BY <1>7, <2>1, <2>2, DeliveredStays
  <1>8. ASSUME Delivers(n, p, s, m), m.pkt \in 1 .. MaxPackets PROVE Delivered(m)'
    <2>1. got'[m.pkt] = got[m.pkt] + 1 /\ got[m.pkt] \in Nat
      <3>1. got' = [got EXCEPT ![m.pkt] = got[m.pkt] + 1]
        BY <1>2, <1>8
      <3>2. got \in [1 .. MaxPackets -> 0 .. 3]
        BY <1>3 DEF TypeOK
      <3>3. got'[m.pkt] = got[m.pkt] + 1
        BY <1>8, <3>1, <3>2
      <3>4. got[m.pkt] \in 0 .. 3
        BY <1>8, <3>2
      <3> QED
        BY <3>3, <3>4
    <2>2. ASSUME NEW t \in Slots, peer'[n][t].valid, peer'[n][t].local = m.idx
          PROVE  /\ t # "next"
                 /\ s # "next" => /\ Fresh(p[s].window, m.ctr + 1)
                                  /\ ~ Fresh(peer'[n][t].window, m.ctr + 1)
      <3>1. q[t].valid /\ q[t].local = m.idx
        BY <1>5, <2>2
      <3>2. /\ t # "next"
            /\ s # "next" => /\ Fresh(p[s].window, m.ctr + 1)
                             /\ ~ Fresh(q[t].window, m.ctr + 1)
        BY <1>1, <1>3, <1>4, <1>8, <3>1, DeliveryLeaves
      <3> QED
        BY <1>5, <3>2
    <2>3. CASE got[m.pkt] = 0
      <3>1. got'[m.pkt] = 1
        BY <2>1, <2>3
      <3>2. s = "next" => m.pkt \in confirmers'
        BY <1>2, <1>8
      <3> QED
        BY <2>2, <3>1, <3>2 DEF Delivered
    <2>4. CASE got[m.pkt] # 0
      <3>1. PICK d \in DataOf(net) : d.pkt = m.pkt /\ Delivered(d)
        BY <1>8, <2>4 DEF DeliveryInv
      <3>2. m.pkt # 0
        BY <1>8
      <3>3. d = m
        BY <1>3, <3>1, <3>2 DEF Inv, PacketInv
      <3>4. s # "next" /\ (Fresh(p[s].window, m.ctr + 1) => m.pkt \in confirmers /\ got[m.pkt] = 1)
        BY <1>1, <1>4, <3>1, <3>3 DEF Delivered
      <3>5. Fresh(p[s].window, m.ctr + 1)
        <4>1. PICK a : a = Authenticated(n, p, s, m)
          OBVIOUS
        <4>2. Fresh(a[s].window, m.ctr + 1)
          BY <1>8, <4>1 DEF Delivers, NotReplayed
        <4>3. /\ a \in Peers
              /\ a.handshake = p.handshake /\ a.lastTx = p.lastTx /\ a.greatest = p.greatest
              /\ s = "next" => /\ a["prev"] = p["curr"] /\ a["next"] = ZeroKeypair
                               /\ a["curr"] = [p["next"] EXCEPT !.rx = TRUE]
              /\ s # "next" => /\ a[s] = [p[s] EXCEPT !.rx = TRUE]
                               /\ \A u \in Slots : u # s => a[u] = p[u]
          BY <1>3, <1>4, <4>1, AuthenticatedCases
        <4>4. a[s].window = p[s].window
          BY <1>3, <1>4, <3>4, <4>3 DEF Peers, Slots, Keypairs
        <4> QED
          BY <4>2, <4>4
      <3>6. got'[m.pkt] = 2 /\ m.pkt \in confirmers'
        BY <1>2, <2>1, <3>4, <3>5
      <3> QED
        BY <2>2, <3>4, <3>6 DEF Delivered
    <2> QED
      BY <2>3, <2>4
  <1>9. ASSUME NEW x \in 1 .. MaxPackets, got'[x] # 0
        PROVE  \E d \in DataOf(net') : d.pkt = x /\ Delivered(d)'
    <2>1. CASE Delivers(n, p, s, m) /\ m.pkt = x
      BY <1>2, <1>3, <1>8, <2>1
    <2>2. CASE ~ (Delivers(n, p, s, m) /\ m.pkt = x)
      <3>1. got'[x] = got[x] /\ (x \in confirmers' <=> x \in confirmers)
        BY <1>2, <1>3, <2>2 DEF TypeOK
      <3>2. PICK d \in DataOf(net) : d.pkt = x /\ Delivered(d)
        BY <1>9, <3>1 DEF DeliveryInv
      <3>3. Delivered(d)'
        BY <1>7, <3>1, <3>2
      <3> QED
        BY <1>2, <3>2, <3>3
    <2> QED
      BY <2>1, <2>2
  <1> QED
    BY <1>9 DEF DeliveryInv

LEMMA DeliveryNext ==
  ASSUME Most < Modulus, Inv, DeliveryInv, [Next]_vars
  PROVE  DeliveryInv'
  <1>1. CASE Tick
    <2>1. UNCHANGED <<peer, net, got, confirmers>>
      BY <1>1, TickStep
    <2> QED
      BY <2>1 DEF DeliveryInv, Delivered
  <1>2. ASSUME NEW n \in Node,
               Connect(n) \/ SendBegin(n) \/ SendEnd(n) \/ Periodic(n) \/ Restart(n)
        PROVE  DeliveryInv'
    <2>1. Quiet(n)
      BY <1>2, ConnectStep, SendBeginStep, SendEndStep, PeriodicStep, RestartStep
    <2> QED
      BY <2>1, QuietDelivers
  <1>3. ASSUME NEW n \in Node, NEW m \in net, m.to = n,
               ReceiveInitiation(n, m) \/ ReceiveResponse(n, m)
        PROVE  DeliveryInv'
    <2>1. Quiet(n)
      BY <1>3, ReceiveInitiationStep, ReceiveResponseStep
    <2> QED
      BY <2>1, QuietDelivers
  <1>4. ASSUME NEW n \in Node, NEW m \in net, m.to = n, ReceiveData(n, m)
        PROVE  DeliveryInv'
    BY <1>4, DataDelivers
  <1>5. CASE UNCHANGED vars
    BY <1>5 DEF vars, DeliveryInv, Delivered
  <1> QED
    BY <1>1, <1>2, <1>3, <1>4, <1>5, NextCases

\* A packet reaches the IP layer once, or twice if it was the one that confirmed
\* a keypair (wireguardif_process_data_message goes on with the slot that
\* keypair_update has cleared), as long as counters fit the 32 bits wireguard_
\* check_replay keeps their distance in: what a session sends in its 180 s.
THEOREM SessionDelivers ==
  ASSUME Most < Modulus
  PROVE  Spec => []OnlyConfirmersRepeat
  <1>1. Init => DeliveryInv
    BY DEF Init, DeliveryInv
  <1>2. Inv /\ DeliveryInv /\ [Next]_vars => DeliveryInv'
    BY DeliveryNext
  <1>3. Inv /\ DeliveryInv => OnlyConfirmersRepeat
    <2> SUFFICES ASSUME Inv, DeliveryInv, NEW x \in 1 .. packets, got[x] > 1
                 PROVE  x \in confirmers /\ got[x] = 2
      BY DEF OnlyConfirmersRepeat
    <2>1. x \in 1 .. MaxPackets
      <3>1. packets \in 0 .. MaxPackets
        BY DEF Inv, TypeInv, TypeOK
      <3> QED
        BY <3>1, Numbers
    <2>2. PICK m \in DataOf(net) : m.pkt = x /\ Delivered(m)
      BY <2>1 DEF DeliveryInv
    <2> QED
      BY <2>2 DEF Delivered
  <1> QED
    BY <1>1, <1>2, <1>3, Invariance, PTL DEF Spec
=============================================================================
