-------------------------- MODULE MlControl_proofs --------------------------
(***************************************************************************)
(* Theorems about the two ends of what the coordination server says: the   *)
(* connection in MlCoord, for any faults, rebinds, unread frames and       *)
(* depth of the queue of commands, and the table of peers in MlPeers, for  *)
(* any nodes, sizes of table, cache and queue, changes and breaks.         *)
(*                                                                         *)
(* What holds of a task that listens was arranged some states before: the  *)
(* first part says what sending and reading do to a connection, the        *)
(* second what each state of the task knows (StateInv). The table is the   *)
(* server's only when the queue is empty; before, the last update of a     *)
(* peer in the queue says what it will be (QueueTells).                    *)
(***************************************************************************)
EXTENDS MlCoord, MlPeers, FiniteSetTheorems, SequenceTheorems,
        WellFoundedInduction, TLAPS
Kinds == {"early", "json", "h2", "reg", "map"}
Commands == {"CONNECT", "FORCE_RECONNECT"}

Conns ==
    [link : {"up", "silent", "reset"}, wire : Seq(Kinds), cut : BOOLEAN, rx : Int,
     broken : BOOLEAN, streams : Seq(Nat), answered : Nat, mute : BOOLEAN,
     late : BOOLEAN, mapped : BOOLEAN, faults : Nat]

Lacks(wire, kind) == \A i \in 1 .. Len(wire) : wire[i] # kind
Asc(s) == \A i \in 1 .. Len(s) - 1 : s[i] < s[i + 1]
Below(s, n) == \A i \in 1 .. Len(s) : s[i] < n
Has(s, n) == \E i \in 1 .. Len(s) : s[i] = n

\* The long poll is asked for, or the stream to the server is out of step.
Open(c) == c.link = "up" /\ ~ c.broken => Has(c.streams, 5)

\* The streams ascend up to the next one.
Listening(c, next) == Asc(c.streams) /\ Below(c.streams, next) /\ Open(c)
-----------------------------------------------------------------------------
TypeInv ==
    /\ state \in States
    /\ mlState \in {"WIFI_WAIT", "CONNECTING", "REGISTERING", "CONNECTED", "RECONNECTING"}
    /\ cmds \in Seq(Commands) /\ Len(cmds) <= CmdDepth
    /\ made \in Nat /\ sock \in 0 .. made /\ open \subseteq 1 .. made
    /\ challenge \in 0 .. made
    /\ conn \in Conns /\ conn.answered <= made /\ conn.faults <= MaxFaults
    /\ sid \in 7 .. MaxStream
    /\ stalled \in BOOLEAN /\ keyExpired \in BOOLEAN /\ registered \in BOOLEAN
    /\ derpAsked \in BOOLEAN /\ shutdown \in BOOLEAN
    /\ rebinds \in 0 .. MaxRebinds /\ rebound \in 0 .. made

\* The commands in the queue: CONNECT is there until it is handled, and first.
CommandInv ==
    /\ state = "IDLE" => cmds # <<>> /\ cmds[1] = "CONNECT"
    /\ state = "IDLE" => \A i \in 2 .. Len(cmds) : cmds[i] = "FORCE_RECONNECT"
    /\ state \notin {"IDLE", "EXITED"} => \A i \in 1 .. Len(cmds) : cmds[i] = "FORCE_RECONNECT"
    /\ state = "EXITED" => shutdown

SocketInv ==
    /\ open = {sock} \ {0}
    /\ state \in {"IDLE", "STUN_PROBE", "DNS_RESOLVE", "EXITED"} => sock = 0
    /\ state \in SettingUp \cup {"LONG_POLL"} => sock # 0
    /\ state \in SettingUp \cup {"LONG_POLL"} /\ cmds = <<>> => sock > rebound

\* What each state of the task knows of the connection.
StateInv ==
    /\ Asc(conn.streams)
    /\ state \in {"NOISE_HANDSHAKE", "H2_PREFACE", "REGISTER"} => conn.streams = <<>>
    /\ state \in {"H2_PREFACE", "REGISTER"} => conn.mute \/ challenge = sock
    /\ state \in {"FETCH_PEERS", "LONG_POLL"} => conn.mute \/ conn.answered = sock
    /\ state = "FETCH_PEERS" => /\ Below(conn.streams, 2)
                                /\ conn.late \/ Lacks(conn.wire, "reg")
    /\ state = "LONG_POLL" => /\ Listening(conn, sid)
                              /\ conn.late \/ conn.mapped
                              /\ stalled \/ (~ conn.cut /\ conn.rx = 0)

IInv == TypeInv /\ CommandInv /\ SocketInv /\ StateInv
-----------------------------------------------------------------------------
(***************************************************************************)
(* Sequences.                                                              *)
(***************************************************************************)
LEMMA InRange ==
  ASSUME NEW S, NEW s \in Seq(S), NEW x
  PROVE  x \in ToSet(s) <=> \E i \in 1 .. Len(s) : s[i] = x
  <1>1. DOMAIN s = 1 .. Len(s)
    BY LenProperties
  <1> QED
    BY <1>1 DEF ToSet

\* Frames that are consumed are not read again, and no others come instead.
LEMMA SuffixLacks ==
  ASSUME NEW w \in Seq(Kinds), NEW k \in 0 .. Len(w)
  PROVE  /\ SubSeq(w, k + 1, Len(w)) \in Seq(Kinds)
         /\ Lacks(w, "reg") => Lacks(SubSeq(w, k + 1, Len(w)), "reg")
  <1> DEFINE t == SubSeq(w, k + 1, Len(w))
  <1>1. Len(w) \in Nat /\ k \in Nat
    BY LenProperties
  <1>2. \A i \in k + 1 .. Len(w) : w[i] \in Kinds
    BY <1>1, ElementOfSeq
  <1>3. /\ t \in Seq(Kinds)
        /\ Len(t) = IF k + 1 <= Len(w) THEN Len(w) - (k + 1) + 1 ELSE 0
        /\ \A i \in 1 .. Len(w) - (k + 1) + 1 : t[i] = w[k + 1 + i - 1]
    BY <1>1, <1>2, SubSeqProperties
  <1>4. ASSUME Lacks(w, "reg"), NEW i \in 1 .. Len(t) PROVE t[i] # "reg"
    <2>1. i \in 1 .. Len(w) - (k + 1) + 1 /\ k + 1 + i - 1 \in 1 .. Len(w)
      BY <1>1, <1>3
    <2> QED
      BY <1>3, <1>4, <2>1 DEF Lacks
  <1> QED
    BY <1>3, <1>4 DEF Lacks

LEMMA ConcatLacks ==
  ASSUME NEW w \in Seq(Kinds), NEW v \in Seq(Kinds)
  PROVE  /\ w \o v \in Seq(Kinds)
         /\ Lacks(w, "reg") /\ Lacks(v, "reg") => Lacks(w \o v, "reg")
  <1>1. Len(w) \in Nat /\ Len(v) \in Nat
    BY LenProperties
  <1>2. /\ w \o v \in Seq(Kinds) /\ Len(w \o v) = Len(w) + Len(v)
        /\ \A i \in 1 .. Len(w) + Len(v) :
              (w \o v)[i] = IF i <= Len(w) THEN w[i] ELSE v[i - Len(w)]
    BY ConcatProperties
  <1>3. ASSUME Lacks(w, "reg"), Lacks(v, "reg"), NEW i \in 1 .. Len(w \o v)
        PROVE  (w \o v)[i] # "reg"
    <2>1. CASE i <= Len(w)
      BY <1>1, <1>2, <1>3, <2>1 DEF Lacks
    <2>2. CASE ~ i <= Len(w)
      <3>1. i - Len(w) \in 1 .. Len(v) /\ (w \o v)[i] = v[i - Len(w)]
        BY <1>1, <1>2, <2>2
      <3> QED
        BY <1>3, <3>1 DEF Lacks
    <2> QED
      BY <2>1, <2>2
  <1> QED
    BY <1>2, <1>3 DEF Lacks

\* A stream that is opened after those below it.
LEMMA NextStream ==
  ASSUME NEW s \in Seq(Nat), NEW n \in Nat, Asc(s), Below(s, n)
  PROVE  /\ Append(s, n) \in Seq(Nat)
         /\ Asc(Append(s, n)) /\ Has(Append(s, n), n)
         /\ \A m \in Nat : n < m => Below(Append(s, n), m)
         /\ Has(s, 5) => Has(Append(s, n), 5)
  <1>1. /\ Len(s) \in Nat
        /\ Append(s, n) \in Seq(Nat) /\ Len(Append(s, n)) = Len(s) + 1
        /\ \A i \in 1 .. Len(s) : Append(s, n)[i] = s[i]
        /\ Append(s, n)[Len(s) + 1] = n
    BY AppendProperties, LenProperties
  <1>2. \A i \in 1 .. Len(s) : s[i] \in Nat
    BY ElementOfSeq
  <1>3. Asc(Append(s, n))
    <2>1. SUFFICES ASSUME NEW i \in 1 .. Len(s)
                   PROVE  Append(s, n)[i] < Append(s, n)[i + 1]
      BY <1>1 DEF Asc
    <2>2. CASE i = Len(s)
      BY <1>1, <1>2, <2>2 DEF Below
    <2>3. CASE i # Len(s)
      <3>1. i \in 1 .. Len(s) - 1 /\ i + 1 \in 1 .. Len(s)
        BY <1>1, <2>3
      <3> QED
        BY <1>1, <3>1 DEF Asc
    <2> QED
      BY <2>2, <2>3
  <1>4. ASSUME NEW m \in Nat, n < m PROVE Below(Append(s, n), m)
    <2>1. SUFFICES ASSUME NEW i \in 1 .. Len(s) + 1 PROVE Append(s, n)[i] < m
      BY <1>1 DEF Below
    <2>2. CASE i = Len(s) + 1
      BY <1>1, <1>4, <2>2
    <2>3. CASE i # Len(s) + 1
      <3>1. i \in 1 .. Len(s)
        BY <1>1, <2>3
      <3>2. Append(s, n)[i] = s[i] /\ s[i] < n /\ s[i] \in Nat
        BY <1>1, <1>2, <3>1 DEF Below
      <3> QED
        BY <1>4, <3>2
    <2> QED
      BY <2>2, <2>3
  <1>5. Len(s) + 1 \in 1 .. Len(Append(s, n)) /\ 1 .. Len(s) \subseteq 1 .. Len(Append(s, n))
    BY <1>1
  <1>6. Has(Append(s, n), n) /\ (Has(s, 5) => Has(Append(s, n), 5))
    BY <1>1, <1>5 DEF Has
  <1> QED
    BY <1>1, <1>3, <1>4, <1>6

LEMMA FirstStream ==
  ASSUME NEW s \in Seq(Nat), Asc(s), Below(s, 1)
  PROVE  Asc(Append(s, 1)) /\ Below(Append(s, 1), 2)
  BY NextStream

LEMMA BelowMore ==
  ASSUME NEW s \in Seq(Nat), NEW n \in Nat, NEW m \in Nat, n <= m, Below(s, n)
  PROVE  Below(s, m)
  <1>1. \A i \in 1 .. Len(s) : s[i] \in Nat
    BY ElementOfSeq
  <1> QED
    BY <1>1 DEF Below

LEMMA NoStream == <<>> \in Seq(Nat) /\ Asc(<<>>) /\ \A n \in Nat : Below(<<>>, n)
  BY EmptySeq DEF Asc, Below

-----------------------------------------------------------------------------
(***************************************************************************)
(* What sending and reading do to a connection.                            *)
(***************************************************************************)
\* What only the set-up notes.
Noted(c, d) ==
    d.rx = c.rx /\ d.answered = c.answered /\ d.mute = c.mute /\ d.late = c.late /\ d.mapped = c.mapped

\* In common: a connection does not come back, and what the set-up noted stays.
Kept(c, d) ==
    /\ d \in Conns /\ Noted(c, d) /\ d.faults <= c.faults
    /\ d.link = "up" => c.link = "up"
    /\ c.broken => d.broken

\* A frame that opens stream s is sent, or s is 0 and it opens none.
Sent(c, d, s) ==
    /\ Kept(c, d) /\ d.cut = c.cut
    /\ d.streams = c.streams \/ (s > 0 /\ d.streams = Append(c.streams, s))
    /\ d.link = "up" /\ ~ d.broken /\ s > 0 => d.streams = Append(c.streams, s)
    /\ s # 1 /\ Lacks(c.wire, "reg") => Lacks(d.wire, "reg")

Acked(c, d) ==
    /\ Kept(c, d) /\ d.cut = c.cut /\ d.streams = c.streams
    /\ Lacks(c.wire, "reg") => Lacks(d.wire, "reg")

\* Frames are read, the last of them in part.
Read(c, d) ==
    /\ Kept(c, d) /\ d.broken = c.broken /\ d.streams = c.streams
    /\ Lacks(c.wire, "reg") => Lacks(d.wire, "reg")

LEMMA AnswerLacks ==
  ASSUME NEW s \in Nat
  PROVE  Answer(s) \in Seq(Kinds) /\ (s # 1 => Lacks(Answer(s), "reg"))
  <1>1. /\ <<"h2">> \in Seq(Kinds) /\ <<"reg">> \in Seq(Kinds) /\ <<"map">> \in Seq(Kinds)
        /\ <<>> \in Seq(Kinds)
    BY DEF Kinds
  <1>2. Lacks(<<"h2">>, "reg") /\ Lacks(<<"map">>, "reg") /\ Lacks(<<>>, "reg")
    BY DEF Lacks
  <1> QED
    BY <1>1, <1>2 DEF Answer

LEMMA ResetIsKept ==
  ASSUME NEW c \in Conns
  PROVE  /\ Kept(c, Reset(c)) /\ Lacks(Reset(c).wire, "reg")
         /\ Reset(c).link = "reset" /\ Reset(c).cut = c.cut /\ Reset(c).streams = c.streams
  <1>1. <<>> \in Seq(Kinds) /\ Lacks(<<>>, "reg")
    BY EmptySeq DEF Lacks
  <1>2. PICK d : d = Reset(c) /\ d = [c EXCEPT !.link = "reset", !.wire = <<>>]
    BY DEF Reset
  <1>3. d \in Conns
    BY <1>1, <1>2 DEF Conns
  <1>4. Noted(c, d) /\ d.faults <= c.faults
    BY <1>2 DEF Noted, Conns
  <1>5. /\ d.link = "reset" /\ d.wire = <<>> /\ d.cut = c.cut /\ d.streams = c.streams
        /\ c.broken => d.broken
    BY <1>2 DEF Conns
  <1>6. Kept(c, d)
    BY <1>3, <1>4, <1>5 DEF Kept
  <1> QED
    BY <1>1, <1>2, <1>5, <1>6

LEMMA ServedIsSent ==
  ASSUME NEW c \in Conns, NEW s \in Nat
  PROVE  Sent(c, Served(c, s), s)
  <1>1. c.wire \in Seq(Kinds) /\ c.streams \in Seq(Nat) /\ c.broken \in BOOLEAN /\ c.faults \in Nat
    BY DEF Conns
  <1>2. /\ c.wire \o Answer(s) \in Seq(Kinds)
        /\ s # 1 /\ Lacks(c.wire, "reg") => Lacks(c.wire \o Answer(s), "reg")
    BY <1>1, AnswerLacks, ConcatLacks
  <1>3. Append(c.streams, s) \in Seq(Nat)
    BY <1>1, AppendProperties
  <1>4. CASE c.link # "up"
    <2>1. Served(c, s) = c
      BY <1>4 DEF Served
    <2>2. Kept(c, c)
      BY <1>1 DEF Kept, Noted
    <2> QED
      BY <1>4, <2>1, <2>2 DEF Sent
  <1>5. CASE c.link = "up" /\ c.broken
    <2>1. Served(c, s) = Reset(c)
      BY <1>5 DEF Served
    <2> QED
      BY <2>1, ResetIsKept DEF Sent
  <1>6. CASE c.link = "up" /\ ~ c.broken
    <2>1. PICK d : /\ d = Served(c, s)
                   /\ d = [c EXCEPT !.wire = c.wire \o Answer(s),
                                    !.streams = IF s > 0 THEN Append(c.streams, s) ELSE c.streams]
      BY <1>6 DEF Served
    <2>2. d \in Conns
      BY <1>2, <1>3, <2>1 DEF Conns
    <2>3. Noted(c, d) /\ d.faults <= c.faults
      BY <2>1 DEF Noted, Conns
    <2>4. /\ d.link = c.link /\ d.cut = c.cut /\ d.wire = c.wire \o Answer(s)
          /\ d.streams = IF s > 0 THEN Append(c.streams, s) ELSE c.streams
      BY <2>1 DEF Conns
    <2>5. Kept(c, d)
      BY <1>6, <2>2, <2>3, <2>4 DEF Kept
    <2> QED
      BY <1>2, <2>1, <2>4, <2>5 DEF Sent
  <1> QED
    BY <1>4, <1>5, <1>6

\* The connection c, with a fault fewer or not, is out of step.
LEMMA BrokenIsSent ==
  ASSUME NEW c \in Conns, NEW s \in Nat, NEW d, NEW n \in Nat, n <= c.faults,
         d = [c EXCEPT !.broken = TRUE, !.faults = n]
  PROVE  Sent(c, d, s)
  <1>1. d \in Conns
    BY DEF Conns
  <1>2. Noted(c, d) /\ d.faults <= c.faults
    BY DEF Noted, Conns
  <1>3. /\ d.link = c.link /\ d.cut = c.cut /\ d.wire = c.wire /\ d.streams = c.streams
        /\ d.broken
    BY DEF Conns
  <1>4. Kept(c, d)
    BY <1>1, <1>2, <1>3 DEF Kept
  <1> QED
    BY <1>3, <1>4 DEF Sent

LEMMA SendsAreSent ==
  ASSUME NEW c \in Conns, NEW s \in Nat, NEW r \in Sends(c, s)
  PROVE  r.ok \in BOOLEAN /\ Sent(c, r.c, s) /\ r \in [c : Conns, ok : BOOLEAN]
  <1>1. CASE r = [c |-> Served(c, s), ok |-> TRUE]
    <2>1. r.c = Served(c, s) /\ r.ok = TRUE /\ Sent(c, r.c, s)
      BY <1>1, ServedIsSent
    <2> QED
      BY <1>1, <2>1 DEF Sent, Kept
  <1>2. CASE \E n \in Nat : /\ n <= c.faults
                            /\ r = [c |-> [c EXCEPT !.broken = TRUE, !.faults = n], ok |-> FALSE]
    <2>1. PICK n \in Nat : /\ n <= c.faults
                           /\ r = [c |-> [c EXCEPT !.broken = TRUE, !.faults = n], ok |-> FALSE]
      BY <1>2
    <2>2. PICK d : d = [c EXCEPT !.broken = TRUE, !.faults = n] /\ Sent(c, d, s)
      BY <2>1, BrokenIsSent
    <2>3. r = [c |-> d, ok |-> FALSE] /\ d \in Conns
      BY <2>1, <2>2 DEF Sent, Kept
    <2> QED
      BY <2>2, <2>3
  <1>3. CASE r = [c |-> [c EXCEPT !.broken = TRUE], ok |-> FALSE]
    <2>1. [c EXCEPT !.broken = TRUE] = [c EXCEPT !.broken = TRUE, !.faults = c.faults]
      BY DEF Conns
    <2>2. c.faults \in Nat /\ c.faults <= c.faults
      BY DEF Conns
    <2> QED
      BY <1>2, <1>3, <2>1, <2>2
  <1>4. CASE Faulty(c) /\ r = [c |-> [Spend(c) EXCEPT !.broken = TRUE], ok |-> FALSE]
    <2>1. [Spend(c) EXCEPT !.broken = TRUE] = [c EXCEPT !.broken = TRUE, !.faults = c.faults - 1]
      BY DEF Spend, Conns
    <2>2. c.faults - 1 \in Nat /\ c.faults - 1 <= c.faults
      BY <1>4 DEF Faulty, Conns
    <2> QED
      BY <1>2, <1>4, <2>1, <2>2
  <1> QED
    BY <1>1, <1>3, <1>4 DEF Sends

LEMMA AcknowledgeIsAcked ==
  ASSUME NEW c \in Conns, NEW d \in Acknowledge(c)
  PROVE  Acked(c, d)
  <1>1. PICK r \in Sends(c, 7) : d = [r.c EXCEPT !.streams = c.streams]
    BY DEF Acknowledge
  <1>2. PICK e : e = r.c /\ Sent(c, e, 7)
    BY SendsAreSent
  <1>3. e \in Conns /\ c.streams \in Seq(Nat)
    BY <1>2 DEF Sent, Kept, Conns
  <1>4. d = [e EXCEPT !.streams = c.streams]
    BY <1>1, <1>2
  <1>5. d \in Conns
    BY <1>3, <1>4 DEF Conns
  <1>6. Noted(e, d) /\ d.faults = e.faults
    BY <1>3, <1>4 DEF Noted, Conns
  <1>7. /\ d.link = e.link /\ d.cut = e.cut /\ d.wire = e.wire /\ d.streams = c.streams
        /\ d.broken = e.broken
    BY <1>3, <1>4 DEF Conns
  <1>8. Kept(c, d)
    BY <1>2, <1>5, <1>6, <1>7 DEF Sent, Kept, Noted
  <1> QED
    BY <1>2, <1>7, <1>8 DEF Sent, Acked

LEMMA ConsumedIsRead ==
  ASSUME NEW c \in Conns, NEW k \in 0 .. Len(c.wire)
  PROVE  /\ Read(c, Consumed(c, k)) /\ Consumed(c, k).cut = c.cut
         /\ Consumed(c, k).faults = c.faults /\ Consumed(c, k).link = c.link
  <1>1. c.wire \in Seq(Kinds) /\ c.faults \in Nat
    BY DEF Conns
  <1>2. /\ SubSeq(c.wire, k + 1, Len(c.wire)) \in Seq(Kinds)
        /\ Lacks(c.wire, "reg") => Lacks(SubSeq(c.wire, k + 1, Len(c.wire)), "reg")
    BY <1>1, SuffixLacks
  <1>3. PICK w, d : /\ w = SubSeq(c.wire, k + 1, Len(c.wire))
                    /\ d = Consumed(c, k) /\ d = [c EXCEPT !.wire = w]
    BY DEF Consumed
  <1>4. d \in Conns
    BY <1>2, <1>3 DEF Conns
  <1>5. Noted(c, d) /\ d.faults = c.faults
    BY <1>3 DEF Noted, Conns
  <1>6. /\ d.link = c.link /\ d.cut = c.cut /\ d.wire = w /\ d.streams = c.streams
        /\ d.broken = c.broken
    BY <1>3 DEF Conns
  <1>7. Kept(c, d)
    BY <1>1, <1>4, <1>5, <1>6 DEF Kept
  <1> QED
    BY <1>2, <1>3, <1>5, <1>6, <1>7 DEF Read

LEMMA LateReadsAreRead ==
  ASSUME NEW c \in Conns, NEW k \in 0 .. Len(c.wire), NEW d \in ReadsLate(c, k)
  PROVE  Read(c, d)
  <1>1. Len(c.wire) \in Nat
    BY LenProperties DEF Conns
  <1>2. PICK j \in 0 .. k - 1 :
           Faulty(c) /\ (d = Spend(Consumed(c, j)) \/ d = [Spend(Consumed(c, j)) EXCEPT !.cut = TRUE])
    BY DEF ReadsLate
  <1>3. j \in 0 .. Len(c.wire)
    BY <1>1, <1>2
  <1>4. PICK e : e = Consumed(c, j) /\ Read(c, e) /\ e.faults = c.faults
    BY <1>3, ConsumedIsRead
  <1>5. e \in Conns
    BY <1>4 DEF Read, Kept
  <1>6. e.faults - 1 \in Nat /\ e.faults - 1 <= c.faults
    BY <1>2, <1>4, <1>5 DEF Faulty, Conns
  <1>7. PICK b \in BOOLEAN : d = [e EXCEPT !.cut = b, !.faults = e.faults - 1]
    <2>1. CASE d = Spend(e)
      <3>1. d = [e EXCEPT !.cut = e.cut, !.faults = e.faults - 1] /\ e.cut \in BOOLEAN
        BY <1>5, <2>1 DEF Spend, Conns
      <3> QED
        BY <3>1
    <2>2. CASE d = [Spend(e) EXCEPT !.cut = TRUE]
      <3>1. d = [e EXCEPT !.cut = TRUE, !.faults = e.faults - 1]
        BY <1>5, <2>2 DEF Spend, Conns
      <3> QED
        BY <3>1
    <2> QED
      BY <1>2, <1>4, <2>1, <2>2
  <1>8. d \in Conns
    BY <1>5, <1>6, <1>7 DEF Conns
  <1>9. Noted(e, d) /\ d.faults = e.faults - 1
    BY <1>5, <1>7 DEF Noted, Conns
  <1>10. /\ d.link = e.link /\ d.wire = e.wire /\ d.streams = e.streams
         /\ d.broken = e.broken
    BY <1>5, <1>7 DEF Conns
  <1>11. Kept(c, d)
    BY <1>4, <1>6, <1>8, <1>9, <1>10 DEF Read, Kept, Noted
  <1> QED
    BY <1>4, <1>10, <1>11 DEF Read

LEMMA ReadUntilIsBounded ==
  ASSUME NEW c \in Conns, NEW kinds
  PROVE  /\ ReadUntil(c, kinds) \in 0 .. Len(c.wire)
         /\ Ends(c, kinds) # {} => c.wire[ReadUntil(c, kinds)] \in kinds
  <1>1. Len(c.wire) \in Nat
    BY LenProperties DEF Conns
  <1>2. \A i \in Ends(c, kinds) : i \in 1 .. Len(c.wire) /\ c.wire[i] \in kinds
    BY DEF Ends
  <1> QED
    BY <1>1, <1>2 DEF ReadUntil

LEMMA KeptKept ==
  ASSUME NEW c \in Conns, NEW d, NEW e, Kept(c, d), Kept(d, e)
  PROVE  Kept(c, e)
  <1>1. c.faults \in Nat /\ d.faults \in Nat /\ e.faults \in Nat
    BY DEF Kept, Conns
  <1>2. e.faults <= c.faults
    BY <1>1 DEF Kept
  <1> QED
    BY <1>2 DEF Kept, Noted

LEMMA NothingRead == ASSUME NEW c \in Conns PROVE Read(c, c)
  <1>1. c.faults <= c.faults
    BY DEF Conns
  <1> QED
    BY <1>1 DEF Read, Kept, Noted

LEMMA PrefacedIsRead ==
  ASSUME NEW c \in Conns, NEW d \in Prefaced(c)
  PROVE  Read(c, d)
  <1>1. CASE c.wire # <<>>
    <2>1. c.wire \in Seq(Kinds)
      BY DEF Conns
    <2>2. 1 \in 0 .. Len(c.wire)
      BY <1>1, <2>1, EmptySeq
    <2> QED
      BY <2>2, ConsumedIsRead, LateReadsAreRead, NothingRead DEF Prefaced
  <1>2. CASE c.wire = <<>>
    BY <1>2, NothingRead DEF Prefaced
  <1> QED
    BY <1>1, <1>2

\* The answer to the registration has been read, or is noted as late.
LEMMA RegisterReadsAll ==
  ASSUME NEW c \in Conns, NEW d \in RegisterReads(c)
  PROVE  /\ d \in Conns /\ d.streams = c.streams /\ d.answered = c.answered
         /\ d.mute = c.mute /\ d.faults <= c.faults
         /\ d.late \/ Lacks(d.wire, "reg")
  <1> DEFINE k == ReadUntil(c, {"reg"})
  <1>1. k \in 0 .. Len(c.wire)
    BY ReadUntilIsBounded
  <1>2. PICK e : /\ e \in IF InStep(c) THEN {Consumed(c, k)} \cup ReadsLate(c, k) ELSE {c}
                 /\ d = [e EXCEPT !.late = "reg" \in ToSet(e.wire)]
    BY DEF RegisterReads
  <1>3. Read(c, e)
    BY <1>1, <1>2, ConsumedIsRead, LateReadsAreRead, NothingRead
  <1>4. e \in Conns
    BY <1>3 DEF Read, Kept
  <1> DEFINE b == "reg" \in ToSet(e.wire)
  <1>5. b \in BOOLEAN /\ d = [e EXCEPT !.late = b]
    BY <1>2
  <1>b. b \/ Lacks(e.wire, "reg")
    <2>1. e.wire \in Seq(Kinds)
      BY <1>4 DEF Conns
    <2> QED
      BY <2>1, InRange DEF Lacks
  <1> HIDE DEF b
  <1>6. d \in Conns
    BY <1>4, <1>5 DEF Conns
  <1>7. /\ d.streams = e.streams /\ d.answered = e.answered /\ d.mute = e.mute
        /\ d.faults = e.faults /\ d.wire = e.wire /\ d.late = b
    BY <1>4, <1>5 DEF Conns
  <1> QED
    BY <1>3, <1>6, <1>7, <1>b, Zenon DEF Read, Kept, Noted

\* The peers have been parsed when no answer to the registration was left.
Fetched(c, d) ==
    /\ d \in Conns /\ d.streams = c.streams /\ d.faults <= c.faults
    /\ d.answered = c.answered /\ d.mute = c.mute /\ d.late = c.late
    /\ d.link = "up" => c.link = "up"
    /\ c.broken => d.broken

LEMMA ReadIsFetched == ASSUME NEW c, NEW d, Read(c, d) \/ Acked(c, d) PROVE Fetched(c, d)
  BY DEF Read, Acked, Kept, Noted, Fetched

LEMMA FetchReadsPeers ==
  ASSUME NEW c \in Conns, NEW f \in FetchReads(c)
  PROVE  /\ f.ok \in BOOLEAN /\ Fetched(c, f.c)
         /\ f.ok => ~ f.c.cut /\ f.c.rx = 0
         /\ f.ok /\ Lacks(c.wire, "reg") => f.c.mapped
  <1> DEFINE kinds == {"reg", "map"}
             k == ReadUntil(c, kinds)
  <1>1. k \in 0 .. Len(c.wire) /\ (Ends(c, kinds) # {} => c.wire[k] \in kinds /\ k \in 1 .. Len(c.wire))
    <2>1. Ends(c, kinds) # {} => k \in Ends(c, kinds)
      BY DEF ReadUntil
    <2> QED
      BY <2>1, ReadUntilIsBounded DEF Ends
  <1>2. CASE ~ InStep(c)
    <2>1. f.c = c /\ f.ok = FALSE
      BY <1>2 DEF FetchReads
    <2> QED
      BY <2>1, NothingRead, ReadIsFetched
  <1>3. CASE InStep(c) /\ f \in {[c |-> d, ok |-> FALSE] : d \in ReadsLate(c, k)}
    <2>1. f.c \in ReadsLate(c, k) /\ f.ok = FALSE
      BY <1>3
    <2> QED
      BY <1>1, <2>1, LateReadsAreRead, ReadIsFetched
  <1>4. CASE InStep(c) /\ Ends(c, kinds) = {} /\ f = [c |-> Consumed(c, k), ok |-> FALSE]
    <2>1. f.c = Consumed(c, k) /\ f.ok = FALSE
      BY <1>4
    <2> QED
      BY <1>1, <2>1, ConsumedIsRead, ReadIsFetched
  <1>5. CASE /\ InStep(c) /\ Ends(c, kinds) # {}
             /\ f \in {[c |-> [d EXCEPT !.mapped = c.wire[k] = "map"], ok |-> TRUE] :
                          d \in Acknowledge(Consumed(c, k))}
    <2>1. PICK e : e = Consumed(c, k) /\ Read(c, e) /\ e.cut = c.cut
      BY <1>1, ConsumedIsRead
    <2>2. e \in Conns
      BY <2>1 DEF Read, Kept
    <2> DEFINE m == c.wire[k] = "map"
    <2>3. PICK d \in Acknowledge(e) : f.ok = TRUE /\ f.c = [d EXCEPT !.mapped = m]
      BY SMTT(20), <1>5, <2>1
    <2>m. m \in BOOLEAN /\ (Lacks(c.wire, "reg") => m)
      BY <1>1, <1>5 DEF Lacks
    <2> HIDE DEF m
    <2>4. Acked(e, d)
      BY <2>2, <2>3, AcknowledgeIsAcked
    <2>5. d \in Conns
      BY <2>4 DEF Acked, Kept
    <2>6. PICK g : g = f.c /\ g = [d EXCEPT !.mapped = m]
      BY <2>3
    <2>7. g \in Conns
      BY <2>5, <2>6, <2>m DEF Conns
    <2>8. /\ g.streams = d.streams /\ g.faults = d.faults /\ g.answered = d.answered
          /\ g.mute = d.mute /\ g.late = d.late /\ g.link = d.link
          /\ g.cut = d.cut /\ g.rx = d.rx /\ g.mapped = m
      BY <2>5, <2>6 DEF Conns
    <2>9. g.broken = d.broken
      BY <2>5, <2>6 DEF Conns
    <2>10. Fetched(c, d)
      <3>1. Fetched(c, e) /\ Fetched(e, d)
        BY <2>1, <2>4, ReadIsFetched
      <3>2. d.faults <= c.faults
        BY <2>2, <2>5, <3>1 DEF Fetched, Conns
      <3> QED
        BY <3>1, <3>2 DEF Fetched
    <2>11. Fetched(c, g)
      BY <2>7, <2>8, <2>9, <2>10, Zenon DEF Fetched
    <2>12. ~ g.cut /\ g.rx = 0
      BY <1>5, <2>1, <2>4, <2>8 DEF InStep, Read, Acked, Kept, Noted
    <2> QED
      BY <2>3, <2>6, <2>8, <2>11, <2>12, <2>m
  <1> QED
    BY <1>2, <1>3, <1>4, <1>5 DEF FetchReads

\* A poll that loses its place in a frame says so by stalling.
LEMMA PollKeepsStep ==
  ASSUME NEW c \in Conns, NEW p \in Polls(c)
  PROVE  /\ p.stall \in BOOLEAN /\ Kept(c, p.c) /\ p.c.streams = c.streams
         /\ ~ c.cut => p.stall \/ ~ p.c.cut
  <1>1. c.wire \in Seq(Kinds)
    BY DEF Conns
  <1>2. c.wire # <<>> => 1 \in 0 .. Len(c.wire)
    BY <1>1, EmptySeq
  <1>3. CASE p.c = c /\ p.stall = FALSE
    BY <1>3, NothingRead DEF Read
  <1>4. CASE c.wire # <<>> /\ p.c = Consumed(c, 1) /\ p.stall = FALSE
    BY <1>2, <1>4, ConsumedIsRead DEF Read
  <1>5. CASE /\ c.wire # <<>> /\ p.stall = FALSE
             /\ p.c \in Acknowledge(Consumed(c, 1))
    <2>1. PICK e : e = Consumed(c, 1) /\ Read(c, e) /\ e.cut = c.cut
      BY <1>2, <1>5, ConsumedIsRead
    <2>2. e \in Conns
      BY <2>1 DEF Read, Kept
    <2>3. Acked(e, p.c)
      BY <1>5, <2>1, <2>2, AcknowledgeIsAcked
    <2>4. p.c \in Conns
      BY <2>3 DEF Acked, Kept
    <2>5. p.c.faults <= c.faults
      BY <2>1, <2>2, <2>3, <2>4 DEF Read, Acked, Kept, Conns
    <2>6. Kept(c, p.c)
      BY <2>1, <2>3, <2>5, Zenon DEF Read, Acked, Kept, Noted
    <2> QED
      BY <1>5, <2>1, <2>3, <2>6 DEF Read, Acked
  <1>6. CASE Faulty(c) /\ p.stall = TRUE /\ p.c = [Spend(c) EXCEPT !.cut = TRUE]
    <2>1. PICK d : d = p.c /\ d = [c EXCEPT !.cut = TRUE, !.faults = c.faults - 1]
      BY <1>6 DEF Spend, Conns
    <2>2. c.faults - 1 \in Nat /\ c.faults - 1 <= c.faults
      BY <1>6 DEF Faulty, Conns
    <2>3. d \in Conns
      BY <2>1, <2>2 DEF Conns
    <2>4. Noted(c, d) /\ d.faults = c.faults - 1
      BY <2>1 DEF Noted, Conns
    <2>5. d.link = c.link /\ d.broken = c.broken /\ d.streams = c.streams
      BY <2>1 DEF Conns
    <2>6. Kept(c, d)
      BY <2>2, <2>3, <2>4, <2>5 DEF Kept
    <2> QED
      BY <1>6, <2>1, <2>5, <2>6
  <1>7. CASE c.link # "up" \/ c.wire = <<>>
    <2>1. c.link \in {"up", "silent", "reset"}
      BY DEF Conns
    <2>2. p.c = c /\ p.stall = FALSE
      BY <1>7, <2>1 DEF Polls
    <2> QED
      BY <1>3, <2>2
  <1>8. CASE c.link = "up" /\ c.wire # <<>> /\ ~ InStep(c)
    <2>1. p.stall = FALSE /\ p.c = IF c.cut THEN c ELSE Consumed(c, 1)
      BY <1>8 DEF Polls
    <2> QED
      BY <1>3, <1>4, <1>8, <2>1
  <1>9. CASE c.link = "up" /\ c.wire # <<>> /\ InStep(c)
    <2>1. \/ \E d \in Acknowledge(Consumed(c, 1)) : p = [c |-> d, ret |-> 1, stall |-> FALSE]
          \/ Faulty(c) /\ p = [c |-> [Spend(c) EXCEPT !.cut = TRUE], ret |-> 0, stall |-> TRUE]
      BY <1>9 DEF Polls
    <2>2. \/ p.c \in Acknowledge(Consumed(c, 1)) /\ p.stall = FALSE
          \/ Faulty(c) /\ p.c = [Spend(c) EXCEPT !.cut = TRUE] /\ p.stall = TRUE
      <3>1. CASE \E d \in Acknowledge(Consumed(c, 1)) : p = [c |-> d, ret |-> 1, stall |-> FALSE]
        <4>1. PICK d \in Acknowledge(Consumed(c, 1)) : p = [c |-> d, ret |-> 1, stall |-> FALSE]
          BY <3>1
        <4>2. p.c = d /\ p.stall = FALSE
          BY <4>1
        <4> QED
          BY <4>2
      <3>2. CASE p = [c |-> [Spend(c) EXCEPT !.cut = TRUE], ret |-> 0, stall |-> TRUE] /\ Faulty(c)
        BY <3>2
      <3> QED
        BY <2>1, <3>1, <3>2
    <2> QED
      BY <1>5, <1>6, <1>9, <2>2
  <1> QED
    BY <1>7, <1>8, <1>9

(***************************************************************************)
(* A task that listens goes on listening, whatever it sends.               *)
(***************************************************************************)
LEMMA KeptListens ==
  ASSUME NEW c \in Conns, NEW d, NEW n, Listening(c, n), Kept(c, d), d.streams = c.streams
  PROVE  Listening(d, n)
  BY DEF Listening, Open, Kept

LEMMA SentListens ==
  ASSUME NEW c \in Conns, NEW d, NEW n \in Nat, NEW m \in Nat, 0 < n, n < m,
         Sent(c, d, n), Asc(c.streams), Below(c.streams, n), Open(c) \/ n = 5
  PROVE  Listening(d, m)
  <1>1. c.streams \in Seq(Nat)
    BY DEF Conns
  <1>2. /\ Asc(Append(c.streams, n)) /\ Has(Append(c.streams, n), n)
        /\ Below(Append(c.streams, n), m)
        /\ Has(c.streams, 5) => Has(Append(c.streams, n), 5)
    BY <1>1, NextStream
  <1>3. Below(c.streams, m)
    BY <1>1, BelowMore
  <1>4. Asc(d.streams) /\ Below(d.streams, m)
    BY <1>2, <1>3 DEF Sent
  <1>5. ASSUME d.link = "up", ~ d.broken PROVE Has(d.streams, 5)
    <2>1. d.streams = Append(c.streams, n) /\ c.link = "up" /\ ~ c.broken
      BY <1>5 DEF Sent, Kept
    <2> QED
      BY <1>2, <2>1 DEF Open
  <1> QED
    BY <1>4, <1>5 DEF Listening, Open

\* An endpoint update, if there is one, takes the next stream.
LEMMA UpdateListens ==
  ASSUME NEW c \in Conns, Listening(c, sid), sid \in 7 .. MaxStream, NEW stun \in BOOLEAN,
         NEW d \in IF stun THEN EndpointUpdate(c) ELSE {c}
  PROVE  /\ Listening(d, IF stun THEN sid + 2 ELSE sid)
         /\ Kept(c, d) /\ d.cut = c.cut
  <1>0. sid \in Nat /\ sid + 2 \in Nat /\ 0 < sid /\ sid < sid + 2
    BY CoordAssumption
  <1>1. CASE stun
    <2>1. PICK r \in Sends(c, sid) : d = r.c
      BY <1>1 DEF EndpointUpdate
    <2>2. Sent(c, d, sid)
      BY <1>0, <2>1, SendsAreSent
    <2>3. Listening(d, sid + 2)
      BY <1>0, <2>2, SentListens DEF Listening
    <2> QED
      BY <1>1, <2>2, <2>3 DEF Sent
  <1>2. CASE ~ stun
    <2>1. d = c /\ Kept(c, c)
      BY <1>2, NothingRead DEF Read
    <2> QED
      BY <1>2, <2>1
  <1> QED
    BY <1>1, <1>2
-----------------------------------------------------------------------------
(***************************************************************************)
(* The invariant.                                                          *)
(***************************************************************************)
LEMMA InvariantSuffices == IInv => SocketStateOK /\ ListensInStep /\ SetUpInOrder
  <1>1. SUFFICES ASSUME IInv PROVE SocketStateOK /\ ListensInStep /\ SetUpInOrder
    OBVIOUS
  <1>2. conn.streams \in Seq(Nat)
    BY <1>1 DEF IInv, TypeInv, Conns
  <1>3. TypeOK
    <2>1. cmds \in [1 .. Len(cmds) -> Commands] /\ Len(cmds) \in 0 .. CmdDepth
      BY <1>1, CoordAssumption, LenProperties DEF IInv, TypeInv
    <2>2. cmds \in BoundedSeq(Commands, CmdDepth)
      BY <2>1, Zenon DEF BoundedSeq, SeqOf
    <2>3. /\ conn.link \in {"up", "silent", "reset"} /\ conn.rx \in Int
          /\ conn.answered \in Nat /\ conn.faults \in Nat
      BY <1>1 DEF IInv, TypeInv, Conns
    <2>4. conn.answered \in 0 .. made /\ conn.faults \in 0 .. MaxFaults
      BY <1>1, <2>3, CoordAssumption DEF IInv, TypeInv
    <2> QED
      BY <1>1, <2>2, <2>3, <2>4 DEF IInv, TypeInv, TypeOK, Commands
  <1>4. SocketStateOK
    BY <1>1, <1>3 DEF IInv, SocketInv, SocketStateOK, SocketIsOwned
  <1>5. ListensInStep
    <2>1. LongPollIsOpen
      BY <1>1, <1>2, InRange DEF IInv, StateInv, Listening, Open, Has, LongPollIsOpen
    <2> QED
      BY <1>1, <2>1 DEF IInv, StateInv, SocketInv, Asc, ListensInStep, ReadsInStep,
                        StreamsAscend, RebindMoves
  <1>6. SetUpInOrder
    BY <1>1 DEF IInv, StateInv, SetUpInOrder, AnswersOwnChallenge, PeersBeforePoll
  <1> QED
    BY <1>4, <1>5, <1>6

\* A fresh connection, and what is left of one that is closed.
LEMMA NewConnIsNew ==
  ASSUME NEW n \in Nat
  PROVE  /\ NewConn(n) \in Conns /\ [NewConn(n) EXCEPT !.link = "reset"] \in Conns
         /\ NewConn(n).faults = n /\ NewConn(n).answered = 0 /\ NewConn(n).streams = <<>>
         /\ [NewConn(n) EXCEPT !.link = "reset"].faults = n
         /\ [NewConn(n) EXCEPT !.link = "reset"].answered = 0
         /\ [NewConn(n) EXCEPT !.link = "reset"].streams = <<>>
  <1>1. <<>> \in Seq(Kinds) /\ <<>> \in Seq(Nat) /\ 0 \in Int /\ 0 \in Nat
    BY EmptySeq
  <1>2. NewConn(n) \in Conns
    BY <1>1 DEF NewConn, Conns
  <1>3. [NewConn(n) EXCEPT !.link = "reset"] \in Conns
    BY <1>2 DEF Conns
  <1> QED
    BY <1>2, <1>3 DEF NewConn

LEMMA InvariantInit == Init => IInv
  <1> SUFFICES ASSUME Init PROVE IInv
    OBVIOUS
  <1>1. /\ CmdDepth \in Nat /\ MaxFaults \in Nat /\ MaxRebinds \in Nat /\ MaxStream \in Nat
        /\ CmdDepth > 0 /\ MaxStream >= 7
    BY CoordAssumption
  <1>2. conn \in Conns /\ conn.faults = MaxFaults /\ conn.answered = 0 /\ conn.streams = <<>>
    <2>1. conn = [NewConn(MaxFaults) EXCEPT !.link = "reset"]
      BY DEF Init
    <2> QED
      BY <1>1, <2>1, NewConnIsNew
  <1>3. cmds = <<"CONNECT">> /\ cmds \in Seq(Commands) /\ Len(cmds) = 1 /\ cmds[1] = "CONNECT"
    BY DEF Init, Commands
  <1>4. TypeInv
    <2>1. /\ state \in States /\ mlState = "WIFI_WAIT" /\ cmds \in Seq(Commands) /\ Len(cmds) <= CmdDepth
          /\ made \in Nat /\ sock \in 0 .. made /\ open \subseteq 1 .. made /\ challenge \in 0 .. made
      BY <1>1, <1>3 DEF Init, States
    <2>2. conn.answered <= made /\ conn.faults <= MaxFaults /\ sid \in 7 .. MaxStream
      BY <1>1, <1>2 DEF Init
    <2>3. rebinds \in 0 .. MaxRebinds /\ rebound \in 0 .. made
      BY <1>1 DEF Init
    <2> QED
      BY <1>2, <2>1, <2>2, <2>3 DEF Init, TypeInv
  <1>5. CommandInv
    BY <1>3 DEF Init, CommandInv
  <1>6. SocketInv
    BY DEF Init, SocketInv, SettingUp
  <1>7. StateInv
    BY <1>2, NoStream DEF Init, StateInv
  <1> QED
    BY <1>4, <1>5, <1>6, <1>7 DEF IInv

\* A turn finds no command, or CONNECT at the start, or is a reconnection.
LEMMA TurnIs ==
  ASSUME IInv, NEW s \in States, Turn(s)
  PROVE  /\ ~ shutdown /\ state # "EXITED" /\ UNCHANGED env
         /\ s \notin {"STUN_PROBE", "RECONNECTING"} => state = s /\ (cmds = <<>> \/ s = "IDLE")
         /\ s = "STUN_PROBE" => (state = s /\ cmds = <<>>) \/ state = "IDLE"
         /\ s = "RECONNECTING" => state # "IDLE"
  <1>1. cmds \in Seq(Commands) /\ Len(cmds) \in Nat
    BY LenProperties DEF IInv, TypeInv
  <1>2. cmds # <<>> => 1 \in 1 .. Len(cmds) /\ Head(cmds) = cmds[1]
    BY <1>1, EmptySeq
  <1>3. state = "IDLE" => Commanded = "STUN_PROBE"
    BY <1>2 DEF IInv, CommandInv, Commanded
  <1>4. state # "IDLE" /\ state # "EXITED" /\ cmds # <<>> => Commanded = "RECONNECTING"
    BY <1>2 DEF IInv, CommandInv, Commanded
  <1>5. cmds = <<>> => Commanded = state
    BY DEF Commanded
  <1> QED
    BY <1>3, <1>4, <1>5 DEF Turn

\* What the queue holds after the task has taken its commands.
LEMMA CommandsLeft ==
  ASSUME IInv, state # "EXITED",
         \/ Dequeue
         \/ state # "IDLE" /\ cmds' = SubSeq(cmds, 3, Len(cmds))
  PROVE  /\ cmds' \in Seq(Commands) /\ Len(cmds') <= CmdDepth
         /\ \A i \in 1 .. Len(cmds') : cmds'[i] = "FORCE_RECONNECT"
         /\ cmds = <<>> => cmds' = <<>>
  <1>1. /\ cmds \in Seq(Commands) /\ Len(cmds) \in Nat /\ Len(cmds) <= CmdDepth /\ CmdDepth \in Nat
        /\ <<>> \in Seq(Commands) /\ Len(<<>>) = 0
    BY LenProperties, EmptySeq, CoordAssumption DEF IInv, TypeInv
  <1>2. \A i \in 2 .. Len(cmds) : cmds[i] = "FORCE_RECONNECT"
    BY <1>1 DEF IInv, CommandInv
  <1>3. CASE cmds = <<>> /\ cmds' = <<>>
    BY <1>1, <1>3
  <1>4. CASE cmds # <<>> /\ cmds' = Tail(cmds)
    <2>1. /\ Tail(cmds) \in Seq(Commands) /\ Len(Tail(cmds)) = Len(cmds) - 1
          /\ \A i \in 1 .. Len(Tail(cmds)) : Tail(cmds)[i] = cmds[i + 1]
      BY <1>1, <1>4, HeadTailProperties
    <2>2. Len(cmds) - 1 <= CmdDepth /\ \A i \in 1 .. Len(cmds) - 1 : i + 1 \in 2 .. Len(cmds)
      BY <1>1
    <2> QED
      BY <1>2, <1>4, <2>1, <2>2
  <1>5. CASE cmds' = SubSeq(cmds, 3, Len(cmds))
    <2>1. \A i \in 3 .. Len(cmds) : cmds[i] \in Commands
      BY <1>1, ElementOfSeq
    <2>2. /\ cmds' \in Seq(Commands)
          /\ Len(cmds') = IF 3 <= Len(cmds) THEN Len(cmds) - 3 + 1 ELSE 0
          /\ \A i \in 1 .. Len(cmds) - 3 + 1 : cmds'[i] = cmds[3 + i - 1]
      BY <1>1, <1>5, <2>1, SubSeqProperties
    <2>3. Len(cmds') <= CmdDepth
      BY <1>1, <2>2
    <2>4. \A i \in 1 .. Len(cmds') : i \in 1 .. Len(cmds) - 3 + 1 /\ 3 + i - 1 \in 2 .. Len(cmds)
      BY <1>1, <2>2
    <2>5. cmds = <<>> => cmds' = <<>>
      BY <1>1, <1>5, SubSeqEmpty
    <2> QED
      BY <1>2, <2>2, <2>3, <2>4, <2>5
  <1> QED
    BY <1>1, <1>3, <1>4, <1>5 DEF Dequeue
-----------------------------------------------------------------------------
(***************************************************************************)
(* The turns of the task.                                                  *)
(***************************************************************************)
MlStates == {"WIFI_WAIT", "CONNECTING", "REGISTERING", "CONNECTED", "RECONNECTING"}

\* What every turn leaves typed, and the queue of commands it leaves.
LEMMA TurnFrame ==
  ASSUME IInv, state # "EXITED", UNCHANGED env,
         \/ Dequeue
         \/ state # "IDLE" /\ cmds' = SubSeq(cmds, 3, Len(cmds)),
         state' \in States \ {"IDLE", "EXITED"}, mlState' \in MlStates,
         made' \in Nat, made <= made', sock' \in 0 .. made', open' \subseteq 1 .. made',
         challenge' \in 0 .. made',
         conn' \in Conns, conn'.answered <= made', conn'.faults <= MaxFaults,
         sid' \in 7 .. MaxStream, stalled' \in BOOLEAN, keyExpired' \in BOOLEAN,
         registered' \in BOOLEAN, derpAsked' \in BOOLEAN
  PROVE  TypeInv' /\ CommandInv'
  <1>1. /\ cmds' \in Seq(Commands) /\ Len(cmds') <= CmdDepth
        /\ \A i \in 1 .. Len(cmds') : cmds'[i] = "FORCE_RECONNECT"
    BY CommandsLeft
  <1>2. CommandInv'
    BY <1>1 DEF CommandInv
  <1>3. rebound' \in 0 .. made' /\ rebinds' \in 0 .. MaxRebinds /\ shutdown' \in BOOLEAN
    BY DEF env, IInv, TypeInv
  <1>4. TypeInv'
    BY <1>1, <1>3 DEF TypeInv, MlStates
  <1> QED
    BY <1>2, <1>4

\* A turn of an established connection keeps it, or closes it to try again.
LEMMA SocketFrame ==
  ASSUME IInv, state \in SettingUp \cup {"LONG_POLL"}, cmds = <<>>, cmds' = <<>>, UNCHANGED <<made, rebound>>,
         \/ KeepSock /\ state' \in SettingUp \cup {"LONG_POLL", "RECONNECTING"}
         \/ CloseSock /\ state' = "RECONNECTING"
  PROVE  SocketInv' /\ sock' \in 0 .. made /\ open' \subseteq 1 .. made
  BY DEF IInv, TypeInv, SocketInv, SettingUp, KeepSock, CloseSock

\* The two together, for the turns that leave challenge and the notes alone.
LEMMA ConnectedTurn ==
  ASSUME IInv, NEW s \in SettingUp \cup {"LONG_POLL"}, Turn(s), Dequeue,
         UNCHANGED made, challenge' \in 0 .. made, mlState' \in MlStates,
         \/ KeepSock /\ state' \in SettingUp \cup {"LONG_POLL", "RECONNECTING"}
         \/ CloseSock /\ state' = "RECONNECTING",
         conn' \in Conns, conn'.answered <= made, conn'.faults <= conn.faults,
         sid' \in 7 .. MaxStream, stalled' \in BOOLEAN, keyExpired' \in BOOLEAN,
         registered' \in BOOLEAN, derpAsked' \in BOOLEAN
  PROVE  TypeInv' /\ CommandInv' /\ SocketInv'
  <1>1. s \in States \ {"STUN_PROBE", "RECONNECTING", "IDLE", "EXITED"}
    BY DEF SettingUp, States
  <1>2. state = s /\ cmds = <<>> /\ UNCHANGED env
    BY <1>1, TurnIs
  <1>3. cmds' = <<>>
    BY <1>2 DEF Dequeue
  <1>4. SocketInv' /\ sock' \in 0 .. made /\ open' \subseteq 1 .. made
    BY <1>2, <1>3, SocketFrame DEF env
  <1>5. made \in Nat /\ made' = made /\ made <= made'
    BY DEF IInv, TypeInv
  <1>6. conn'.faults <= MaxFaults
    <2>1. conn'.faults \in Nat /\ conn.faults \in Nat /\ conn.faults <= MaxFaults /\ MaxFaults \in Nat
      BY CoordAssumption DEF IInv, TypeInv, Conns
    <2> QED
      BY <2>1
  <1>7. state' \in States \ {"IDLE", "EXITED"}
    BY DEF SettingUp, States
  <1> QED
    BY <1>1, <1>2, <1>4, <1>5, <1>6, <1>7, TurnFrame

LEMMA StunProbeStep == ASSUME IInv, StunProbe PROVE IInv'
  <1>1. "STUN_PROBE" \in States
    BY DEF States
  <1>2. /\ state \in {"IDLE", "STUN_PROBE"} /\ UNCHANGED env
    BY <1>1, TurnIs DEF StunProbe
  <1>3. /\ UNCHANGED <<made, sock, open, challenge, conn, sid, stalled, keyExpired, registered,
                       derpAsked>>
        /\ state' = "DNS_RESOLVE" /\ Dequeue
    BY DEF StunProbe, KeepSock, NoteBits
  <1>4. mlState' \in MlStates
    BY DEF StunProbe, MlCommanded, IInv, TypeInv, MlStates
  <1>5. TypeInv' /\ CommandInv'
    <2>1. made \in Nat /\ made <= made'
      BY <1>3 DEF IInv, TypeInv
    <2>2. state' \in States \ {"IDLE", "EXITED"} /\ state # "EXITED"
      BY <1>2, <1>3 DEF States
    <2> QED
      BY <1>2, <1>3, <1>4, <2>1, <2>2, TurnFrame DEF IInv, TypeInv
  <1>6. SocketInv'
    BY <1>2, <1>3 DEF IInv, SocketInv, SettingUp
  <1>7. StateInv'
    BY <1>3 DEF IInv, StateInv
  <1> QED
    BY <1>5, <1>6, <1>7 DEF IInv

LEMMA TcpConnectStep == ASSUME IInv, TcpConnect PROVE IInv'
  <1>1. "DNS_RESOLVE" \in States /\ {"NOISE_HANDSHAKE", "RECONNECTING"} \subseteq States
    BY DEF States
  <1>2. state = "DNS_RESOLVE" /\ cmds = <<>> /\ UNCHANGED env
    BY <1>1, TurnIs DEF TcpConnect
  <1>3. /\ UNCHANGED <<mlState, challenge, stalled, keyExpired, registered, derpAsked>> /\ Dequeue
    BY DEF TcpConnect, NoteBits
  <1>4. /\ made \in Nat /\ sock = 0 /\ open = {} /\ rebound \in 0 .. made
        /\ challenge \in 0 .. made /\ conn \in Conns /\ conn.faults \in Nat /\ conn.faults <= MaxFaults
        /\ MaxStream \in Nat /\ MaxStream >= 7 /\ MaxFaults \in Nat /\ sid \in 7 .. MaxStream
    BY <1>2, CoordAssumption DEF IInv, TypeInv, SocketInv, Conns
  <1>5. CASE state' = "RECONNECTING"
    <2>1. Faulty(conn) /\ conn' = Spend(conn) /\ UNCHANGED <<made, sid, sock, open>>
      BY <1>5 DEF TcpConnect, KeepSock
    <2>2. conn' = [conn EXCEPT !.faults = conn.faults - 1] /\ conn.faults - 1 \in Nat
      BY <1>4, <2>1 DEF Faulty, Spend
    <2>3. conn' \in Conns
      BY <1>4, <2>2 DEF Conns
    <2>4. /\ conn'.faults <= MaxFaults /\ conn'.answered = conn.answered
          /\ conn'.streams = conn.streams
      BY <1>4, <2>2 DEF Conns
    <2>5. TypeInv' /\ CommandInv'
      <3>1. state' \in States \ {"IDLE", "EXITED"} /\ state # "EXITED" /\ made <= made'
        BY <1>1, <1>2, <1>4, <1>5, <2>1
      <3> QED
        BY <1>2, <1>3, <2>1, <2>3, <2>4, <3>1, TurnFrame DEF IInv, TypeInv, MlStates
    <2>6. SocketInv'
      BY <1>4, <1>5, <2>1 DEF SocketInv, SettingUp
    <2>7. StateInv'
      BY <1>5, <2>4 DEF IInv, StateInv
    <2> QED
      BY <2>5, <2>6, <2>7 DEF IInv
  <1>6. CASE state' # "RECONNECTING"
    <2>1. /\ made' = made + 1 /\ sock' = made + 1 /\ open' = {made + 1}
          /\ conn' = NewConn(conn.faults) /\ sid' = 7 /\ state' = "NOISE_HANDSHAKE"
      BY <1>4, <1>6 DEF TcpConnect
    <2>2. conn' \in Conns /\ conn'.faults = conn.faults /\ conn'.answered = 0 /\ conn'.streams = <<>>
      BY <1>4, <2>1, NewConnIsNew
    <2>3. TypeInv' /\ CommandInv'
      <3>1. /\ state' \in States \ {"IDLE", "EXITED"} /\ state # "EXITED"
            /\ made' \in Nat /\ made <= made' /\ sock' \in 0 .. made' /\ open' \subseteq 1 .. made'
            /\ challenge' \in 0 .. made' /\ sid' \in 7 .. MaxStream
            /\ conn'.answered <= made' /\ conn'.faults <= MaxFaults
        BY <1>1, <1>2, <1>3, <1>4, <2>1, <2>2
      <3> QED
        BY <1>2, <1>3, <2>2, <3>1, TurnFrame DEF IInv, TypeInv, MlStates
    <2>4. SocketInv'
      BY <1>2, <1>4, <2>1 DEF env, SocketInv, SettingUp
    <2>5. StateInv'
      BY <2>1, <2>2, NoStream DEF StateInv
    <2> QED
      BY <2>3, <2>4, <2>5 DEF IInv
  <1> QED
    BY <1>5, <1>6

LEMMA HandshakeIsNoted ==
  ASSUME NEW c \in Conns, NEW k \in 0 .. Len(Proactive), NEW cut \in BOOLEAN,
         NEW d, d = HandshakeDone(c, k, cut)
  PROVE  /\ d \in Conns /\ d.streams = c.streams /\ d.answered = c.answered
         /\ d.faults = c.faults /\ (k >= 2 \/ d.mute)
  <1>1. Proactive \in Seq(Kinds) /\ Len(Proactive) = 3
    BY DEF Proactive, Kinds
  <1>2. SubSeq(Proactive, k + 1, Len(Proactive)) \in Seq(Kinds)
    BY <1>1, SuffixLacks
  <1>3. PICK w \in Seq(Kinds) : d = [c EXCEPT !.wire = w, !.cut = cut, !.rx = 0, !.mute = k < 2]
    BY <1>2 DEF HandshakeDone
  <1> DEFINE m == k < 2
  <1>4. m \in BOOLEAN /\ (k >= 2 \/ m) /\ d = [c EXCEPT !.wire = w, !.cut = cut, !.rx = 0, !.mute = m]
    BY <1>1, <1>3
  <1> HIDE DEF m
  <1>5. d \in Conns
    <2>1. [c EXCEPT !.wire = w, !.cut = cut] \in Conns
      BY DEF Conns
    <2>2. PICK e \in Conns : e = [c EXCEPT !.wire = w, !.cut = cut]
      BY <2>1
    <2>3. d = [e EXCEPT !.rx = 0, !.mute = m] /\ 0 \in Int
      BY <1>4, <2>2 DEF Conns
    <2> QED
      BY <1>4, <2>2, <2>3 DEF Conns
  <1>6. d.streams = c.streams /\ d.answered = c.answered /\ d.faults = c.faults /\ d.mute = m
    BY <1>4 DEF Conns
  <1> QED
    BY <1>4, <1>5, <1>6

LEMMA SpendIsKept ==
  ASSUME NEW c \in Conns, Faulty(c)
  PROVE  Spend(c) \in Conns /\ Kept(c, Spend(c)) /\ Spend(c).streams = c.streams
         /\ Spend(c).cut = c.cut /\ Spend(c).wire = c.wire
  <1>1. PICK d : d = Spend(c) /\ d = [c EXCEPT !.faults = c.faults - 1]
    BY DEF Spend
  <1>2. c.faults - 1 \in Nat /\ c.faults - 1 <= c.faults
    BY DEF Faulty, Conns
  <1>3. d \in Conns
    BY <1>1, <1>2 DEF Conns
  <1>4. Noted(c, d) /\ d.faults = c.faults - 1
    BY <1>1 DEF Noted, Conns
  <1>5. /\ d.streams = c.streams /\ d.cut = c.cut /\ d.wire = c.wire /\ d.link = c.link
        /\ d.broken = c.broken
    BY <1>1 DEF Conns
  <1>6. Kept(c, d)
    BY <1>2, <1>3, <1>4, <1>5 DEF Kept
  <1> QED
    BY <1>1, <1>3, <1>5, <1>6

LEMMA NoiseHandshakeStep == ASSUME IInv, NoiseHandshake PROVE IInv'
  <1>1. "NOISE_HANDSHAKE" \in SettingUp \cup {"LONG_POLL"} /\ "NOISE_HANDSHAKE" \in States
    BY DEF SettingUp, States
  <1>2. state = "NOISE_HANDSHAKE"
    BY <1>1, TurnIs DEF NoiseHandshake
  <1>3. /\ Turn("NOISE_HANDSHAKE") /\ Dequeue /\ UNCHANGED <<made, sid, stalled, keyExpired, registered, derpAsked>>
        /\ mlState' \in MlStates
    BY DEF NoiseHandshake, NoteBits, MlStates
  <1>4. /\ conn \in Conns /\ conn.streams = <<>> /\ conn.answered <= made /\ sock \in 0 .. made
        /\ challenge \in 0 .. made /\ made \in Nat /\ conn.faults <= conn.faults
    BY <1>2 DEF IInv, TypeInv, StateInv, Conns
  <1>5. CASE /\ state' = "RECONNECTING" /\ CloseSock /\ UNCHANGED challenge
             /\ conn.link # "up" \/ Faulty(conn)
             /\ conn' = IF conn.link = "up" THEN Spend(conn) ELSE conn
    <2>1. /\ conn' \in Conns /\ conn'.answered <= made /\ conn'.faults <= conn.faults
          /\ conn'.streams = <<>>
      <3>1. CASE conn.link = "up"
        BY <1>4, <1>5, <3>1, SpendIsKept DEF Kept, Noted
      <3>2. CASE conn.link # "up"
        BY <1>4, <1>5, <3>2
      <3> QED
        BY <3>1, <3>2
    <2>2. TypeInv' /\ CommandInv' /\ SocketInv'
      BY <1>1, <1>3, <1>4, <1>5, <2>1, ConnectedTurn DEF IInv, TypeInv
    <2>3. StateInv'
      BY <1>5, <2>1, NoStream DEF StateInv
    <2> QED
      BY <2>2, <2>3 DEF IInv
  <1>6. ASSUME NEW k \in 0 .. Len(Proactive), NEW cut \in BOOLEAN,
               cut => k < Len(Proactive) /\ Faulty(conn),
               conn' = HandshakeDone(IF cut THEN Spend(conn) ELSE conn, k, cut),
               challenge' = ChallengeAfter(k, cut), state' = "H2_PREFACE", KeepSock
        PROVE  IInv'
    <2>1. PICK c : /\ c = IF cut THEN Spend(conn) ELSE conn
                   /\ c \in Conns /\ c.streams = <<>> /\ c.answered <= made /\ c.faults <= conn.faults
      BY <1>4, <1>6, SpendIsKept DEF Kept, Noted
    <2>2. /\ conn' \in Conns /\ conn'.streams = <<>> /\ conn'.answered <= made
          /\ conn'.faults <= conn.faults /\ (k >= 2 \/ conn'.mute)
      BY <1>6, <2>1, HandshakeIsNoted
    <2>3. challenge' \in 0 .. made /\ (k >= 2 => challenge' = sock)
      BY <1>4, <1>6 DEF ChallengeAfter
    <2>4. TypeInv' /\ CommandInv' /\ SocketInv'
      <3>1. state' \in SettingUp
        BY <1>6 DEF SettingUp
      <3> QED
        BY <1>1, <1>3, <1>6, <2>2, <2>3, <3>1, ConnectedTurn DEF IInv, TypeInv
    <2>5. StateInv'
      BY <1>6, <2>2, <2>3, NoStream DEF StateInv, KeepSock
    <2> QED
      BY <2>4, <2>5 DEF IInv
  <1> QED
    BY <1>5, <1>6 DEF NoiseHandshake

\* A stage of the set-up that fails closes the connection.
LEMMA StageFails ==
  ASSUME IInv, NEW s \in SettingUp, Turn(s), Dequeue, NoteBits,
         UNCHANGED <<mlState, made, challenge, sid, stalled>>,
         conn' \in Conns, conn'.answered <= made, conn'.faults <= conn.faults, Asc(conn'.streams),
         state' = "RECONNECTING", CloseSock
  PROVE  IInv'
  <1>1. TypeInv' /\ CommandInv' /\ SocketInv'
    BY ConnectedTurn DEF IInv, TypeInv, NoteBits, MlStates
  <1>2. StateInv'
    BY DEF StateInv
  <1> QED
    BY <1>1, <1>2 DEF IInv

LEMMA StageIs ==
  ASSUME NEW r \in [c : Conns, ok : BOOLEAN], NEW c, NEW next, Stage([r EXCEPT !.c = c], next)
  PROVE  /\ conn' = c
         /\ IF r.ok THEN state' = next /\ KeepSock ELSE state' = "RECONNECTING" /\ CloseSock
  <1>1. PICK q : q = [r EXCEPT !.c = c] /\ Stage(q, next)
    OBVIOUS
  <1>2. q.c = c /\ q.ok = r.ok
    BY <1>1
  <1> QED
    BY <1>1, <1>2 DEF Stage

LEMMA H2PrefaceStep == ASSUME IInv, H2Preface PROVE IInv'
  <1>1. "H2_PREFACE" \in SettingUp /\ "REGISTER" \in SettingUp /\ "H2_PREFACE" \in States
    BY DEF SettingUp, States
  <1>2. state = "H2_PREFACE"
    BY <1>1, TurnIs DEF H2Preface
  <1>3. /\ conn \in Conns /\ conn.streams = <<>> /\ conn.answered <= made
        /\ conn.mute \/ challenge = sock
    BY <1>2 DEF IInv, TypeInv, StateInv
  <1>a. PICK r \in Sends(conn, 0) :
           \E c \in IF r.ok THEN Prefaced(r.c) ELSE {r.c} : Stage([r EXCEPT !.c = c], "REGISTER")
    BY DEF H2Preface
  <1>4. PICK c \in IF r.ok THEN Prefaced(r.c) ELSE {r.c} : Stage([r EXCEPT !.c = c], "REGISTER")
    BY <1>a
  <1>5. PICK e : e = r.c /\ Sent(conn, e, 0)
    BY <1>3, SendsAreSent
  <1>6. e \in Conns /\ e.streams = <<>> /\ e.answered <= made /\ e.mute = conn.mute /\ e.faults <= conn.faults
    BY <1>3, <1>5 DEF Sent, Kept, Noted
  <1>7. Read(e, c)
    BY <1>4, <1>5, <1>6, PrefacedIsRead, NothingRead
  <1>8. /\ conn' = c
        /\ IF r.ok THEN state' = "REGISTER" /\ KeepSock ELSE state' = "RECONNECTING" /\ CloseSock
    BY <1>3, <1>4, SendsAreSent, StageIs
  <1>9. /\ c \in Conns /\ c.streams = <<>> /\ c.answered <= made /\ c.mute = conn.mute
        /\ c.faults <= conn.faults
    <2>1. c \in Conns /\ c.faults <= e.faults /\ c.streams = <<>> /\ c.answered <= made /\ c.mute = conn.mute
      BY <1>6, <1>7 DEF Read, Kept, Noted
    <2> QED
      BY <1>3, <1>6, <2>1 DEF Conns
  <1>10. CASE r.ok
    <2>1. TypeInv' /\ CommandInv' /\ SocketInv'
      BY <1>1, <1>8, <1>9, <1>10, ConnectedTurn DEF H2Preface, NoteBits, IInv, TypeInv, MlStates
    <2>2. StateInv'
      BY <1>3, <1>8, <1>9, <1>10, NoStream DEF StateInv, KeepSock, H2Preface
    <2> QED
      BY <2>1, <2>2 DEF IInv
  <1>11. CASE ~ r.ok
    BY <1>1, <1>8, <1>9, <1>11, StageFails, NoStream DEF H2Preface
  <1> QED
    BY <1>10, <1>11

\* The registration is sent with the challenge, and opens the first stream.
LEMMA RegisterStep == ASSUME IInv, Register PROVE IInv'
  <1>1. "REGISTER" \in SettingUp /\ "FETCH_PEERS" \in SettingUp /\ "REGISTER" \in States
    BY DEF SettingUp, States
  <1>2. state = "REGISTER"
    BY <1>1, TurnIs DEF Register
  <1>3. /\ conn \in Conns /\ conn.streams = <<>> /\ challenge \in 0 .. made /\ made \in Nat
        /\ conn.mute \/ challenge = sock
    BY <1>2 DEF IInv, TypeInv, StateInv
  <1>4. PICK a : a = [conn EXCEPT !.answered = challenge]
    OBVIOUS
  <1>5. /\ a \in Conns /\ a.streams = <<>> /\ a.answered = challenge /\ a.mute = conn.mute
        /\ a.faults = conn.faults
    BY <1>3, <1>4 DEF Conns
  <1>6. PICK r \in Sends(a, 1) :
           \E c \in IF r.ok THEN RegisterReads(r.c) ELSE {r.c} : Stage([r EXCEPT !.c = c], "FETCH_PEERS")
    BY <1>4 DEF Register
  <1>7. PICK c \in IF r.ok THEN RegisterReads(r.c) ELSE {r.c} : Stage([r EXCEPT !.c = c], "FETCH_PEERS")
    BY <1>6
  <1>8. PICK e : e = r.c /\ Sent(a, e, 1)
    BY <1>5, SendsAreSent
  <1>9. /\ e \in Conns /\ e.answered = challenge /\ e.mute = conn.mute /\ e.faults <= conn.faults
        /\ Asc(e.streams) /\ Below(e.streams, 2)
    <2>1. PICK z \in Seq(Nat) : z = <<>> /\ Asc(z) /\ Below(z, 1) /\ Below(z, 2)
      BY NoStream
    <2>2. Asc(Append(z, 1)) /\ Below(Append(z, 1), 2)
      BY <2>1, FirstStream
    <2>3. e.streams = z \/ e.streams = Append(z, 1)
      BY <1>5, <1>8, <2>1 DEF Sent
    <2>4. Asc(e.streams) /\ Below(e.streams, 2)
      BY <2>1, <2>2, <2>3
    <2> QED
      BY <1>5, <1>8, <2>4 DEF Sent, Kept, Noted
  <1>10. /\ c \in Conns /\ c.answered = challenge /\ c.mute = conn.mute /\ c.faults <= e.faults
         /\ Asc(c.streams) /\ Below(c.streams, 2)
         /\ r.ok => c.late \/ Lacks(c.wire, "reg")
    <2>1. CASE r.ok
      BY <1>7, <1>8, <1>9, <2>1, RegisterReadsAll
    <2>2. CASE ~ r.ok
      <3>1. c = e /\ e.faults <= e.faults
        BY <1>7, <1>8, <1>9, <2>2 DEF Conns
      <3> QED
        BY <1>9, <2>2, <3>1
    <2> QED
      BY <2>1, <2>2
  <1>11. c.faults <= conn.faults /\ c.answered <= made
    BY <1>3, <1>9, <1>10 DEF Conns
  <1>12. /\ conn' = c
         /\ IF r.ok THEN state' = "FETCH_PEERS" /\ KeepSock ELSE state' = "RECONNECTING" /\ CloseSock
    BY <1>5, <1>7, SendsAreSent, StageIs
  <1>13. CASE r.ok
    <2>1. TypeInv' /\ CommandInv' /\ SocketInv'
      BY <1>1, <1>10, <1>11, <1>12, <1>13, ConnectedTurn DEF Register, NoteBits, IInv, TypeInv, MlStates
    <2>2. state' = "FETCH_PEERS" /\ sock' = sock
      BY <1>12, <1>13 DEF KeepSock
    <2>3. StateInv'
      BY <1>3, <1>10, <1>12, <1>13, <2>2 DEF StateInv
    <2> QED
      BY <2>1, <2>3 DEF IInv
  <1>14. CASE ~ r.ok
    BY <1>1, <1>10, <1>11, <1>12, <1>14, StageFails DEF Register
  <1> QED
    BY <1>13, <1>14

\* The request for the peers opens the second stream.
LEMMA FetchIsSent ==
  ASSUME IInv, state = "FETCH_PEERS", NEW r \in Sends(conn, 3)
  PROVE  /\ r \in [c : Conns, ok : BOOLEAN] /\ r.c.faults <= conn.faults
         /\ Asc(r.c.streams) /\ Below(r.c.streams, 5)
         /\ r.c.answered = conn.answered /\ r.c.mute = conn.mute
         /\ r.c.late \/ Lacks(r.c.wire, "reg")
  <1>1. /\ conn \in Conns /\ conn.streams \in Seq(Nat) /\ Asc(conn.streams) /\ Below(conn.streams, 2)
        /\ conn.late \/ Lacks(conn.wire, "reg")
    BY DEF IInv, TypeInv, StateInv, Conns
  <1>2. PICK e : e = r.c /\ Sent(conn, e, 3) /\ r \in [c : Conns, ok : BOOLEAN]
    BY <1>1, SendsAreSent
  <1>3. Below(conn.streams, 3) /\ Below(conn.streams, 5)
    BY <1>1, BelowMore
  <1>4. Asc(Append(conn.streams, 3)) /\ Below(Append(conn.streams, 3), 5)
    BY <1>1, <1>3, NextStream
  <1>5. Asc(e.streams) /\ Below(e.streams, 5)
    BY <1>1, <1>2, <1>3, <1>4 DEF Sent
  <1>6. e.late \/ Lacks(e.wire, "reg")
    BY <1>1, <1>2 DEF Sent, Kept, Noted
  <1>7. e.faults <= conn.faults /\ e.answered = conn.answered /\ e.mute = conn.mute
    BY <1>2 DEF Sent, Kept, Noted
  <1> QED
    BY <1>2, <1>5, <1>6, <1>7

LEMMA FetchFailsStep == ASSUME IInv, FetchFails PROVE IInv'
  <1>1. "FETCH_PEERS" \in SettingUp /\ "FETCH_PEERS" \in States
    BY DEF SettingUp, States
  <1>2. state = "FETCH_PEERS"
    BY <1>1, TurnIs DEF FetchFails
  <1>3. PICK r \in Sends(conn, 3) :
           \E f \in IF r.ok THEN FetchReads(r.c) ELSE {r} : ~ f.ok /\ Stage(f, "LONG_POLL")
    BY DEF FetchFails
  <1>4. PICK f \in IF r.ok THEN FetchReads(r.c) ELSE {r} : ~ f.ok /\ Stage(f, "LONG_POLL")
    BY <1>3
  <1>5. PICK e : /\ e = r.c /\ e \in Conns /\ e.faults <= conn.faults /\ Asc(e.streams)
                 /\ e.answered = conn.answered
    BY <1>2, FetchIsSent
  <1>6. Fetched(e, f.c)
    <2>1. CASE r.ok
      BY <1>4, <1>5, <2>1, FetchReadsPeers
    <2>2. CASE ~ r.ok
      BY <1>4, <1>5, <2>2, NothingRead, ReadIsFetched
    <2> QED
      BY <2>1, <2>2
  <1>7. /\ f.c \in Conns /\ f.c.faults <= conn.faults /\ Asc(f.c.streams) /\ f.c.answered <= made
    <2>1. f.c \in Conns /\ f.c.faults <= e.faults /\ f.c.streams = e.streams /\ f.c.answered = e.answered
      BY <1>6 DEF Fetched
    <2>2. conn \in Conns /\ conn.answered <= made
      BY DEF IInv, TypeInv
    <2>3. f.c.faults <= conn.faults
      BY SMTT(20), <1>5, <2>1, <2>2 DEF Conns
    <2> QED
      BY <1>5, <2>1, <2>2, <2>3
  <1>8. conn' = f.c /\ state' = "RECONNECTING" /\ CloseSock
    BY <1>4 DEF Stage
  <1> QED
    BY <1>1, <1>7, <1>8, StageFails DEF FetchFails

\* The peers have been fetched: what the poll, the endpoints and the PING make
\* of the connection f.
LEMMA PollBegins ==
  ASSUME IInv, NEW f \in Conns, Asc(f.streams), Below(f.streams, 5), NEW stun \in BOOLEAN,
         NEW p \in StartLongPoll(f), NEW u \in IF stun THEN EndpointUpdate(p) ELSE {p},
         NEW q \in Acknowledge(u), NEW d, d = q \/ (Faulty(q) /\ d = Spend(q))
  PROVE  Kept(f, d) /\ d.cut = f.cut /\ Listening(d, IF stun THEN sid + 2 ELSE sid)
  <1>1. sid \in 7 .. MaxStream /\ sid \in Nat /\ 5 < sid
    BY CoordAssumption DEF IInv, TypeInv
  <1>2. Sent(f, p, 5)
    BY SendsAreSent DEF StartLongPoll
  <1>3. Kept(f, p) /\ p \in Conns /\ p.cut = f.cut
    BY <1>2 DEF Sent, Kept
  <1>4. Listening(p, sid)
    BY <1>1, <1>2, SentListens
  <1>5. /\ Listening(u, IF stun THEN sid + 2 ELSE sid)
        /\ Kept(p, u) /\ u.cut = p.cut
    BY <1>1, <1>3, <1>4, UpdateListens
  <1>6. u \in Conns /\ Kept(f, u)
    <2>1. u \in Conns
      BY <1>5 DEF Kept
    <2> QED
      BY <1>3, <1>5, <2>1, KeptKept
  <1>7. Acked(u, q)
    BY <1>6, AcknowledgeIsAcked
  <1>8. q \in Conns /\ Kept(u, q) /\ q.cut = u.cut /\ q.streams = u.streams
    BY <1>7 DEF Acked, Kept
  <1>9. Kept(q, d) /\ d.cut = q.cut /\ d.streams = q.streams
    BY <1>8, SpendIsKept, NothingRead DEF Read
  <1>10. Listening(d, IF stun THEN sid + 2 ELSE sid)
    BY <1>5, <1>6, <1>8, <1>9, KeptListens
  <1>11. Kept(f, d)
    BY <1>6, <1>8, <1>9, KeptKept
  <1> QED
    BY <1>3, <1>5, <1>8, <1>9, <1>10, <1>11

LEMMA FetchPeersStep == ASSUME IInv, FetchPeers PROVE IInv'
  <1>1. "FETCH_PEERS" \in SettingUp /\ "FETCH_PEERS" \in States
    BY DEF SettingUp, States
  <1>2. state = "FETCH_PEERS"
    BY <1>1, TurnIs DEF FetchPeers
  <1>3. PICK r \in Sends(conn, 3) : r.ok /\ \E f \in FetchReads(r.c) :
          /\ f.ok
          /\ \E p \in StartLongPoll(f.c), stun \in BOOLEAN, expires \in BOOLEAN :
                /\ stun => sid + 2 <= MaxStream
                /\ sid' = IF stun THEN sid + 2 ELSE sid
                /\ expires => Faulty(p)
                /\ keyExpired' = IF f.c.mapped THEN expires ELSE keyExpired
                /\ \E u \in IF stun THEN EndpointUpdate(p) ELSE {p} :
                   \E q \in Acknowledge(u) :
                      conn' = IF expires /\ Faulty(q) THEN Spend(q) ELSE q
    BY DEF FetchPeers
  <1>4. PICK f \in FetchReads(r.c) :
          /\ f.ok
          /\ \E p \in StartLongPoll(f.c), stun \in BOOLEAN, expires \in BOOLEAN :
                /\ stun => sid + 2 <= MaxStream
                /\ sid' = IF stun THEN sid + 2 ELSE sid
                /\ keyExpired' = IF f.c.mapped THEN expires ELSE keyExpired
                /\ \E u \in IF stun THEN EndpointUpdate(p) ELSE {p} :
                   \E q \in Acknowledge(u) :
                      conn' = IF expires /\ Faulty(q) THEN Spend(q) ELSE q
    BY <1>3
  <1>5. PICK p \in StartLongPoll(f.c), stun \in BOOLEAN, expires \in BOOLEAN :
                /\ stun => sid + 2 <= MaxStream
                /\ sid' = IF stun THEN sid + 2 ELSE sid
                /\ keyExpired' = IF f.c.mapped THEN expires ELSE keyExpired
                /\ \E u \in IF stun THEN EndpointUpdate(p) ELSE {p} :
                   \E q \in Acknowledge(u) :
                      conn' = IF expires /\ Faulty(q) THEN Spend(q) ELSE q
    BY <1>4
  <1>6. PICK u \in IF stun THEN EndpointUpdate(p) ELSE {p} :
           \E q \in Acknowledge(u) : conn' = IF expires /\ Faulty(q) THEN Spend(q) ELSE q
    BY <1>5
  <1>7. PICK q \in Acknowledge(u) : conn' = q \/ (Faulty(q) /\ conn' = Spend(q))
    BY <1>6
  <1>8. PICK e : /\ e = r.c /\ e \in Conns /\ e.faults <= conn.faults
                 /\ Asc(e.streams) /\ Below(e.streams, 5)
                 /\ e.answered = conn.answered /\ e.mute = conn.mute
                 /\ e.late \/ Lacks(e.wire, "reg")
    BY <1>2, FetchIsSent
  <1>9. /\ Fetched(e, f.c) /\ ~ f.c.cut /\ f.c.rx = 0
        /\ Lacks(e.wire, "reg") => f.c.mapped
    BY <1>4, <1>8, FetchReadsPeers
  <1>10. PICK g : /\ g = f.c /\ g \in Conns /\ Asc(g.streams) /\ Below(g.streams, 5)
                  /\ g.faults <= e.faults /\ ~ g.cut /\ g.rx = 0
                  /\ g.late \/ g.mapped
                  /\ g.answered = conn.answered /\ g.mute = conn.mute
    BY <1>8, <1>9 DEF Fetched
  <1>d. PICK d : d = conn'
    OBVIOUS
  <1>11. Kept(g, d) /\ d.cut = g.cut /\ Listening(d, sid')
    BY <1>5, <1>6, <1>7, <1>10, <1>d, PollBegins
  <1>12. d \in Conns /\ Noted(g, d) /\ d.faults <= conn.faults
    <2>1. conn \in Conns
      BY DEF IInv, TypeInv
    <2>2. d \in Conns /\ Noted(g, d) /\ d.faults <= g.faults
      BY <1>11 DEF Kept
    <2>3. d.faults \in Nat /\ g.faults \in Nat /\ e.faults \in Nat /\ conn.faults \in Nat
      BY <1>8, <1>10, <2>1, <2>2 DEF Conns
    <2> QED
      BY <1>8, <1>10, <2>2, <2>3
  <1>13. /\ d.answered = conn.answered /\ d.mute = conn.mute /\ d.rx = 0
         /\ d.late = g.late /\ d.mapped = g.mapped
    BY <1>10, <1>12 DEF Noted
  <1>14. sid' \in 7 .. MaxStream
    BY <1>5, CoordAssumption DEF IInv, TypeInv
  <1>p. /\ conn' \in Conns /\ conn'.answered = conn.answered /\ conn'.mute = conn.mute
        /\ conn'.faults <= conn.faults /\ conn'.rx = 0 /\ ~ conn'.cut
        /\ (conn'.late \/ conn'.mapped) /\ Listening(conn', sid')
    <2>1. /\ d \in Conns /\ d.answered = conn.answered /\ d.mute = conn.mute
          /\ d.faults <= conn.faults /\ d.rx = 0 /\ ~ d.cut
          /\ (d.late \/ d.mapped) /\ Listening(d, sid')
      BY <1>10, <1>11, <1>12, <1>13
    <2> QED
      BY <1>d, <2>1
  <1>15. /\ UNCHANGED <<made, challenge>> /\ KeepSock /\ Turn("FETCH_PEERS") /\ Dequeue
         /\ state' = "LONG_POLL" /\ mlState' = "CONNECTED" /\ stalled' = FALSE
         /\ registered' \in BOOLEAN /\ derpAsked' \in BOOLEAN /\ keyExpired' \in BOOLEAN
    BY <1>5 DEF FetchPeers, IInv, TypeInv
  <1>16. TypeInv' /\ CommandInv' /\ SocketInv'
    BY <1>1, <1>14, <1>15, <1>p, ConnectedTurn DEF IInv, TypeInv, MlStates
  <1>17. StateInv'
    <2>1. conn'.mute \/ conn'.answered = sock'
      BY <1>2, <1>15, <1>p DEF IInv, StateInv, KeepSock
    <2> QED
      BY <1>15, <1>p, <2>1 DEF StateInv, Listening
  <1> QED
    BY <1>16, <1>17 DEF IInv

\* The task listens, and tries again.
LEMMA WatchdogStep == ASSUME IInv, Watchdog \/ KeyExpiry PROVE IInv'
  <1>1. Turn("LONG_POLL") /\ Dequeue /\ state' = "RECONNECTING"
    BY DEF Watchdog, KeyExpiry
  <1>2. UNCHANGED <<mlState, made, conn, challenge, sid, stalled, keyExpired, registered, derpAsked>>
    BY DEF Watchdog, KeyExpiry, NoteBits
  <1>3. KeepSock
    BY DEF Watchdog, KeyExpiry
  <1>4. conn' \in Conns /\ conn'.answered <= made /\ conn'.faults <= conn.faults /\ Asc(conn'.streams)
    BY <1>2 DEF IInv, TypeInv, StateInv, Conns
  <1>5. TypeInv' /\ CommandInv' /\ SocketInv'
    BY <1>1, <1>2, <1>3, <1>4, ConnectedTurn DEF IInv, TypeInv, MlStates
  <1>6. StateInv'
    BY <1>1, <1>4 DEF StateInv
  <1> QED
    BY <1>5, <1>6 DEF IInv

LEMMA LongPollStep == ASSUME IInv, NEW ping \in BOOLEAN, LongPoll(ping) PROVE IInv'
  <1>1. "LONG_POLL" \in States
    BY DEF States
  <1>2. state = "LONG_POLL"
    BY <1>1, TurnIs DEF LongPoll
  <1>3. PICK stun \in BOOLEAN :
          /\ stun => sid + 2 <= MaxStream
          /\ sid' = IF stun THEN sid + 2 ELSE sid
          /\ \E u \in IF stun THEN EndpointUpdate(conn) ELSE {conn} :
             \E r \in IF ping THEN {[s EXCEPT !.c.streams = u.streams] : s \in Sends(u, 7)}
                              ELSE {[c |-> u, ok |-> TRUE]} :
                IF ~ r.ok
                THEN conn' = r.c /\ state' = "RECONNECTING" /\ UNCHANGED stalled
                ELSE \E p \in Polls(r.c) :
                        /\ conn' = p.c
                        /\ stalled' = p.stall
                        /\ state' = IF p.ret < 0 THEN "RECONNECTING" ELSE "LONG_POLL"
    BY DEF LongPoll
  <1>4. PICK u \in IF stun THEN EndpointUpdate(conn) ELSE {conn} :
             \E r \in IF ping THEN {[s EXCEPT !.c.streams = u.streams] : s \in Sends(u, 7)}
                              ELSE {[c |-> u, ok |-> TRUE]} :
                IF ~ r.ok
                THEN conn' = r.c /\ state' = "RECONNECTING" /\ UNCHANGED stalled
                ELSE \E p \in Polls(r.c) :
                        /\ conn' = p.c
                        /\ stalled' = p.stall
                        /\ state' = IF p.ret < 0 THEN "RECONNECTING" ELSE "LONG_POLL"
    BY <1>3
  <1>5. PICK r \in IF ping THEN {[s EXCEPT !.c.streams = u.streams] : s \in Sends(u, 7)}
                         ELSE {[c |-> u, ok |-> TRUE]} :
                IF ~ r.ok
                THEN conn' = r.c /\ state' = "RECONNECTING" /\ UNCHANGED stalled
                ELSE \E p \in Polls(r.c) :
                        /\ conn' = p.c
                        /\ stalled' = p.stall
                        /\ state' = IF p.ret < 0 THEN "RECONNECTING" ELSE "LONG_POLL"
    BY <1>4
  <1>6. /\ conn \in Conns /\ Listening(conn, sid) /\ conn.answered <= made
        /\ conn.mute \/ conn.answered = sock
        /\ conn.late \/ conn.mapped
        /\ sid \in 7 .. MaxStream /\ stalled \in BOOLEAN
    BY <1>2 DEF IInv, TypeInv, StateInv
  <1>7. ~ conn.cut /\ conn.rx = 0
    BY <1>2 DEF LongPoll, NotStalled, IInv, StateInv
  <1>8. Listening(u, sid') /\ Kept(conn, u) /\ u.cut = conn.cut /\ u \in Conns
    <2>1. Listening(u, sid') /\ Kept(conn, u) /\ u.cut = conn.cut
      BY <1>3, <1>4, <1>6, UpdateListens
    <2> QED
      BY <2>1 DEF Kept
  <1>9. Kept(u, r.c) /\ r.c.cut = u.cut /\ r.c.streams = u.streams /\ r.c \in Conns
    <2>1. CASE ping
      <3>1. PICK s \in Sends(u, 7) : r = [s EXCEPT !.c.streams = u.streams]
        BY <1>5, <2>1
      <3>2. s \in [c : Conns, ok : BOOLEAN]
        BY <1>8, SendsAreSent
      <3>3. r.c = [s.c EXCEPT !.streams = u.streams]
        BY <3>1, <3>2
      <3>4. r.c \in Acknowledge(u)
        BY <3>3 DEF Acknowledge
      <3>5. Acked(u, r.c)
        BY <1>8, <3>4, AcknowledgeIsAcked
      <3> QED
        BY <3>5 DEF Acked, Kept
    <2>2. CASE ~ ping
      <3>1. r.c = u
        BY <1>5, <2>2
      <3> QED
        BY <1>8, <3>1, NothingRead DEF Read
    <2> QED
      BY <2>1, <2>2
  <1>d. PICK d : d = conn'
    OBVIOUS
  <1>10. /\ Kept(r.c, d) /\ d.streams = r.c.streams /\ stalled' \in BOOLEAN
         /\ state' \in {"RECONNECTING", "LONG_POLL"}
         /\ state' = "LONG_POLL" => stalled' \/ ~ d.cut
    <2>1. CASE ~ r.ok
      <3>1. d = r.c /\ state' = "RECONNECTING" /\ stalled' = stalled
        BY <1>5, <1>d, <2>1
      <3> QED
        BY <1>6, <1>9, <3>1, NothingRead DEF Read
    <2>2. CASE r.ok
      <3>1. PICK p \in Polls(r.c) :
              /\ d = p.c /\ stalled' = p.stall
              /\ state' = IF p.ret < 0 THEN "RECONNECTING" ELSE "LONG_POLL"
        BY <1>5, <1>d, <2>2
      <3>2. /\ p.stall \in BOOLEAN /\ Kept(r.c, p.c) /\ p.c.streams = r.c.streams
            /\ ~ r.c.cut => p.stall \/ ~ p.c.cut
        BY <1>9, PollKeepsStep
      <3>3. ~ r.c.cut
        BY <1>7, <1>8, <1>9
      <3> QED
        BY <3>1, <3>2, <3>3
    <2> QED
      BY <2>1, <2>2
  <1>11. Listening(d, sid')
    <2>1. Listening(r.c, sid')
      BY <1>8, <1>9, KeptListens
    <2> QED
      BY <1>9, <1>10, <2>1, KeptListens
  <1>12. d \in Conns /\ Noted(conn, d) /\ d.faults <= conn.faults
    <2>1. Kept(conn, r.c)
      BY <1>6, <1>8, <1>9, KeptKept
    <2>2. Kept(conn, d)
      BY <1>6, <1>10, <2>1, KeptKept
    <2> QED
      BY <2>2 DEF Kept
  <1>13. /\ conn' \in Conns /\ conn'.answered = conn.answered /\ conn'.mute = conn.mute
         /\ conn'.faults <= conn.faults /\ conn'.rx = 0
         /\ (conn'.late \/ conn'.mapped) /\ Listening(conn', sid')
         /\ state' = "LONG_POLL" => stalled' \/ ~ conn'.cut
    <2>1. /\ d.answered = conn.answered /\ d.mute = conn.mute /\ d.rx = 0
          /\ d.late = conn.late /\ d.mapped = conn.mapped
      BY <1>7, <1>12 DEF Noted
    <2>2. /\ d \in Conns /\ d.answered = conn.answered /\ d.mute = conn.mute
          /\ d.faults <= conn.faults /\ d.rx = 0
          /\ (d.late \/ d.mapped) /\ Listening(d, sid')
          /\ state' = "LONG_POLL" => stalled' \/ ~ d.cut
      BY <1>6, <1>10, <1>11, <1>12, <2>1
    <2> QED
      BY <1>d, <2>2
  <1>14. sid' \in 7 .. MaxStream
    BY <1>3, <1>6, CoordAssumption
  <1>15. /\ UNCHANGED <<mlState, made, challenge, keyExpired, registered, derpAsked>>
         /\ KeepSock /\ Turn("LONG_POLL") /\ Dequeue
    BY DEF LongPoll, NoteBits
  <1>16. TypeInv' /\ CommandInv' /\ SocketInv'
    BY <1>6, <1>10, <1>13, <1>14, <1>15, ConnectedTurn DEF IInv, TypeInv, MlStates
  <1>17. StateInv'
    <2>1. conn'.mute \/ conn'.answered = sock'
      BY <1>6, <1>13, <1>15 DEF KeepSock
    <2> QED
      BY <1>10, <1>13, <2>1 DEF StateInv, Listening
  <1> QED
    BY <1>16, <1>17 DEF IInv

LEMMA ReconnectStep == ASSUME IInv, Reconnect PROVE IInv'
  <1>1. "RECONNECTING" \in States /\ "STUN_PROBE" \in States
    BY DEF States
  <1>2. state # "IDLE" /\ state # "EXITED" /\ UNCHANGED env
    BY <1>1, TurnIs DEF Reconnect
  <1>3. /\ UNCHANGED <<made, challenge, sid, stalled, keyExpired, registered, derpAsked>>
        /\ state' = "STUN_PROBE" /\ mlState' \in MlStates /\ cmds' = SubSeq(cmds, 3, Len(cmds))
        /\ open' = open \ {sock} /\ sock' = 0
        /\ conn' = [NewConn(conn.faults) EXCEPT !.link = "reset"]
    BY DEF Reconnect, NoteBits, CloseSock, MlStates
  <1>4. /\ conn.faults \in Nat /\ conn.faults <= MaxFaults /\ made \in Nat /\ made <= made'
        /\ open = {sock} \ {0} /\ sock \in 0 .. made
    BY <1>3 DEF IInv, TypeInv, SocketInv, Conns
  <1>5. /\ conn' \in Conns /\ conn'.faults = conn.faults /\ conn'.answered = 0 /\ conn'.streams = <<>>
    BY <1>3, <1>4, NewConnIsNew
  <1>6. open' = {}
    BY <1>3, <1>4
  <1>7. TypeInv' /\ CommandInv'
    <2>1. /\ state' \in States \ {"IDLE", "EXITED"} /\ sock' \in 0 .. made' /\ open' \subseteq 1 .. made'
          /\ conn'.answered <= made' /\ conn'.faults <= MaxFaults
      BY <1>1, <1>3, <1>4, <1>5, <1>6
    <2> QED
      BY <1>2, <1>3, <1>4, <1>5, <2>1, TurnFrame DEF IInv, TypeInv
  <1>8. SocketInv'
    BY <1>3, <1>6 DEF SocketInv, SettingUp
  <1>9. StateInv'
    BY <1>3, <1>5, NoStream DEF StateInv
  <1> QED
    BY <1>7, <1>8, <1>9 DEF IInv

\* The loop ends with its connection closed, whatever the state.
LEMMA ExitStep == ASSUME IInv, Exit PROVE IInv'
  <1>1. /\ UNCHANGED <<mlState, cmds, made, challenge, sid, stalled, keyExpired, registered, derpAsked,
                       shutdown, rebinds, rebound>>
        /\ shutdown /\ state' = "EXITED" /\ open' = open \ {sock} /\ sock' = 0
        /\ conn' = [NewConn(conn.faults) EXCEPT !.link = "reset"]
    BY DEF Exit, CloseSock, env
  <1>2. /\ conn.faults \in Nat /\ conn.faults <= MaxFaults /\ made \in Nat
        /\ open = {sock} \ {0} /\ sock \in 0 .. made
    BY DEF IInv, TypeInv, SocketInv, Conns
  <1>3. /\ conn' \in Conns /\ conn'.faults = conn.faults /\ conn'.answered = 0 /\ conn'.streams = <<>>
    BY <1>1, <1>2, NewConnIsNew
  <1>4. open' = {}
    BY <1>1, <1>2
  <1>5. TypeInv'
    <2>1. state' \in States /\ sock' \in 0 .. made /\ open' \subseteq 1 .. made
      BY <1>1, <1>2, <1>4 DEF States
    <2>2. conn'.answered <= made /\ conn'.faults <= MaxFaults
      BY <1>2, <1>3
    <2> QED
      BY <1>1, <1>3, <2>1, <2>2 DEF IInv, TypeInv
  <1>6. CommandInv'
    BY <1>1 DEF CommandInv
  <1>7. SocketInv'
    BY <1>1, <1>4 DEF SocketInv, SettingUp
  <1>8. StateInv'
    BY <1>1, <1>3, NoStream DEF StateInv
  <1> QED
    BY <1>5, <1>6, <1>7, <1>8 DEF IInv

\* The command of a rebind is queued behind the others, or the queue is full of
\* them: in either case the task has one to take.
LEMMA RebindStep == ASSUME IInv, Rebind PROVE IInv'
  <1>1. /\ UNCHANGED <<state, mlState, sock, open, made, conn, challenge, sid, stalled, keyExpired,
                       derpAsked, shutdown>>
        /\ rebinds < MaxRebinds /\ rebinds' = rebinds + 1 /\ rebound' = made /\ registered' = FALSE
        /\ cmds' = IF Len(cmds) < CmdDepth THEN Append(cmds, "FORCE_RECONNECT") ELSE cmds
    BY DEF Rebind
  <1>2. /\ cmds \in Seq(Commands) /\ Len(cmds) \in Nat /\ Len(cmds) <= CmdDepth
        /\ CmdDepth \in Nat /\ CmdDepth > 0 /\ MaxRebinds \in Nat
        /\ "FORCE_RECONNECT" \in Commands
    BY CoordAssumption, LenProperties DEF IInv, TypeInv, Commands
  <1>3. /\ cmds' \in Seq(Commands) /\ Len(cmds') <= CmdDepth /\ Len(cmds') \in Nat /\ Len(cmds') > 0
        /\ \A i \in 1 .. Len(cmds) : cmds'[i] = cmds[i]
        /\ \A i \in 1 .. Len(cmds') : i \in 1 .. Len(cmds) \/ cmds'[i] = "FORCE_RECONNECT"
        /\ Len(cmds) <= Len(cmds')
    <2>1. CASE Len(cmds) < CmdDepth
      <3>1. cmds' = Append(cmds, "FORCE_RECONNECT")
        BY <1>1, <2>1
      <3>2. /\ cmds' \in Seq(Commands) /\ Len(cmds') = Len(cmds) + 1
            /\ \A i \in 1 .. Len(cmds) : cmds'[i] = cmds[i]
            /\ cmds'[Len(cmds) + 1] = "FORCE_RECONNECT"
        BY <1>2, <3>1, AppendProperties
      <3> QED
        BY <1>2, <2>1, <3>2
    <2>2. CASE ~ Len(cmds) < CmdDepth
      BY <1>1, <1>2, <2>2
    <2> QED
      BY <2>1, <2>2
  <1>4. cmds' # <<>>
    BY <1>3, EmptySeq
  <1>5. TypeInv'
    <2>1. rebinds' \in 0 .. MaxRebinds /\ rebound' \in 0 .. made
      BY <1>1, <1>2 DEF IInv, TypeInv
    <2> QED
      BY <1>1, <1>3, <2>1 DEF IInv, TypeInv
  <1>6. CommandInv'
    <2>1. ASSUME state = "IDLE"
          PROVE  cmds'[1] = "CONNECT" /\ \A i \in 2 .. Len(cmds') : cmds'[i] = "FORCE_RECONNECT"
      <3>1. /\ cmds # <<>> /\ cmds[1] = "CONNECT"
            /\ \A i \in 2 .. Len(cmds) : cmds[i] = "FORCE_RECONNECT"
        BY <2>1 DEF IInv, CommandInv
      <3>2. 1 \in 1 .. Len(cmds)
        BY <1>2, <3>1, EmptySeq
      <3> QED
        BY <1>2, <1>3, <3>1, <3>2
    <2>2. ASSUME state \notin {"IDLE", "EXITED"}
          PROVE  \A i \in 1 .. Len(cmds') : cmds'[i] = "FORCE_RECONNECT"
      BY <1>3, <2>2 DEF IInv, CommandInv
    <2> QED
      BY <1>1, <1>4, <2>1, <2>2 DEF IInv, CommandInv
  <1>7. SocketInv'
    BY <1>1, <1>4 DEF IInv, SocketInv
  <1>8. StateInv'
    BY <1>1 DEF IInv, StateInv
  <1> QED
    BY <1>5, <1>6, <1>7, <1>8 DEF IInv

\* The stop and the DERP task change bits that nothing else depends on.
LEMMA BitStep == ASSUME IInv, Stop \/ DerpTask PROVE IInv'
  <1>1. /\ UNCHANGED <<state, mlState, cmds, sock, open, made, conn, challenge, sid, stalled, keyExpired,
                       registered, rebinds, rebound>>
        /\ derpAsked' \in BOOLEAN /\ shutdown' \in BOOLEAN /\ (shutdown => shutdown')
    BY DEF Stop, DerpTask, env, IInv, TypeInv
  <1>2. TypeInv'
    BY <1>1 DEF IInv, TypeInv
  <1>3. CommandInv'
    BY <1>1 DEF IInv, CommandInv
  <1>4. SocketInv'
    BY <1>1 DEF IInv, SocketInv
  <1>5. StateInv'
    BY <1>1 DEF IInv, StateInv
  <1> QED
    BY <1>2, <1>3, <1>4, <1>5 DEF IInv

\* What the network does to a connection tells the task nothing.
LEMMA NetworkFrame ==
  ASSUME IInv, NEW d, Network(d), Kept(conn, d), d.streams = conn.streams, d.cut = conn.cut,
         Lacks(conn.wire, "reg") => Lacks(d.wire, "reg")
  PROVE  IInv'
  <1>1. /\ UNCHANGED <<state, mlState, cmds, sock, open, made, challenge, sid, stalled, keyExpired,
                       registered, derpAsked, shutdown, rebinds, rebound>>
        /\ conn' = d
    BY DEF Network, env
  <1>2. /\ conn \in Conns /\ d \in Conns /\ Noted(conn, d) /\ d.faults <= conn.faults
        /\ conn.faults <= MaxFaults /\ MaxFaults \in Nat
    BY CoordAssumption DEF Kept, IInv, TypeInv
  <1>3. /\ d.rx = conn.rx /\ d.answered = conn.answered /\ d.mute = conn.mute
        /\ d.late = conn.late /\ d.mapped = conn.mapped
    BY <1>2 DEF Noted
  <1>4. d.faults <= MaxFaults
    <2>1. d.faults \in Nat /\ conn.faults \in Nat
      BY <1>2 DEF Conns
    <2> QED
      BY <1>2, <2>1
  <1>5. TypeInv'
    BY <1>1, <1>2, <1>3, <1>4 DEF IInv, TypeInv
  <1>6. CommandInv' /\ SocketInv'
    BY <1>1 DEF IInv, CommandInv, SocketInv
  <1>7. Listening(conn, sid) => Listening(d, sid)
    BY <1>2, KeptListens
  <1>8. StateInv'
    <2>1. /\ Asc(d.streams)
          /\ state \in {"NOISE_HANDSHAKE", "H2_PREFACE", "REGISTER"} => d.streams = <<>>
      BY DEF IInv, StateInv
    <2>2. /\ state \in {"H2_PREFACE", "REGISTER"} => d.mute \/ challenge = sock
          /\ state \in {"FETCH_PEERS", "LONG_POLL"} => d.mute \/ d.answered = sock
      BY <1>3 DEF IInv, StateInv
    <2>3. state = "FETCH_PEERS" => /\ Below(d.streams, 2)
                                   /\ d.late \/ Lacks(d.wire, "reg")
      BY <1>3 DEF IInv, StateInv
    <2>4. state = "LONG_POLL" => /\ Listening(d, sid)
                                 /\ d.late \/ d.mapped
                                 /\ stalled \/ (~ d.cut /\ d.rx = 0)
      BY <1>3, <1>7 DEF IInv, StateInv
    <2> QED
      BY <1>1, <2>1, <2>2, <2>3, <2>4 DEF StateInv, Listening
  <1> QED
    BY <1>5, <1>6, <1>8 DEF IInv

LEMMA ServerSendsStep == ASSUME IInv, ServerSends PROVE IInv'
  <1>1. conn \in Conns /\ conn.wire \in Seq(Kinds) /\ "h2" \in Kinds
    BY DEF IInv, TypeInv, Conns, Kinds
  <1>2. PICK w : /\ w = Append(conn.wire, "h2") /\ w \in Seq(Kinds) /\ Len(w) = Len(conn.wire) + 1
                 /\ \A i \in 1 .. Len(conn.wire) : w[i] = conn.wire[i]
                 /\ w[Len(conn.wire) + 1] = "h2"
    BY ZenonT(30), <1>1, AppendProperties
  <1>3. Lacks(conn.wire, "reg") => Lacks(w, "reg")
    <2>1. Len(conn.wire) \in Nat
      BY <1>1, LenProperties
    <2>2. ASSUME Lacks(conn.wire, "reg"), NEW i \in 1 .. Len(w) PROVE w[i] # "reg"
      <3>1. i \in 1 .. Len(conn.wire) \/ i = Len(conn.wire) + 1
        BY <1>2, <2>1
      <3> QED
        BY <1>2, <2>2, <3>1 DEF Lacks
    <2> QED
      BY <2>2 DEF Lacks
  <1>4. PICK d : d = [conn EXCEPT !.wire = w] /\ Network(d)
    BY <1>2 DEF ServerSends
  <1>5. d \in Conns
    BY <1>1, <1>2, <1>4 DEF Conns
  <1>6. Noted(conn, d) /\ d.faults <= conn.faults
    BY <1>1, <1>4 DEF Noted, Conns
  <1>7. /\ d.link = conn.link /\ d.cut = conn.cut /\ d.wire = w /\ d.streams = conn.streams
        /\ d.broken = conn.broken
    BY <1>1, <1>4 DEF Conns
  <1>8. Kept(conn, d)
    BY <1>5, <1>6, <1>7 DEF Kept
  <1> QED
    BY <1>3, <1>4, <1>7, <1>8, NetworkFrame

LEMMA ConnectionStep == ASSUME IInv, ConnectionResets \/ ConnectionDies \/ KeepaliveEnds PROVE IInv'
  <1>1. conn \in Conns
    BY DEF IInv, TypeInv
  <1>2. CASE KeepaliveEnds
    BY <1>1, <1>2, ResetIsKept, NetworkFrame DEF KeepaliveEnds
  <1>3. CASE ConnectionResets
    <2>1. PICK c : c = Spend(conn) /\ c \in Conns /\ Kept(conn, c) /\ c.streams = conn.streams /\ c.cut = conn.cut
      BY <1>1, <1>3, SpendIsKept DEF ConnectionResets
    <2>2. /\ Kept(c, Reset(c)) /\ Lacks(Reset(c).wire, "reg")
          /\ Reset(c).cut = c.cut /\ Reset(c).streams = c.streams
      BY <2>1, ResetIsKept
    <2>3. Kept(conn, Reset(c))
      BY <1>1, <2>1, <2>2, KeptKept
    <2>4. Network(Reset(c))
      BY <1>3, <2>1 DEF ConnectionResets
    <2> QED
      BY <2>1, <2>2, <2>3, <2>4, NetworkFrame
  <1>4. CASE ConnectionDies
    <2>1. PICK c : c = Spend(conn) /\ c \in Conns /\ Kept(conn, c) /\ c.streams = conn.streams /\ c.cut = conn.cut
      BY <1>1, <1>4, SpendIsKept DEF ConnectionDies
    <2>2. PICK d : d = [c EXCEPT !.link = "silent", !.wire = <<>>] /\ Network(d)
      BY <1>4, <2>1 DEF ConnectionDies
    <2>3. <<>> \in Seq(Kinds) /\ Lacks(<<>>, "reg")
      BY EmptySeq DEF Lacks
    <2>4. d \in Conns
      BY <2>1, <2>2, <2>3 DEF Conns
    <2>5. Noted(c, d) /\ d.faults <= c.faults
      BY <2>1, <2>2 DEF Noted, Conns
    <2>6. /\ d.link = "silent" /\ d.wire = <<>> /\ d.cut = c.cut /\ d.streams = c.streams
          /\ d.broken = c.broken
      BY <2>1, <2>2 DEF Conns
    <2>7. Kept(c, d)
      BY <2>4, <2>5, <2>6 DEF Kept
    <2>8. Kept(conn, d)
      BY <1>1, <2>1, <2>7, KeptKept
    <2> QED
      BY <2>1, <2>2, <2>3, <2>6, <2>8, NetworkFrame
  <1> QED
    BY <1>2, <1>3, <1>4
-----------------------------------------------------------------------------
LEMMA InvariantStep == IInv /\ [Next]_vars => IInv'
  <1> SUFFICES ASSUME IInv, [Next]_vars PROVE IInv'
    OBVIOUS
  <1>1. CASE Task
    BY <1>1, StunProbeStep, TcpConnectStep, NoiseHandshakeStep, H2PrefaceStep, RegisterStep,
       FetchFailsStep, FetchPeersStep, WatchdogStep, LongPollStep, ReconnectStep, ExitStep DEF Task
  <1>2. CASE Rebind \/ Stop \/ DerpTask
    BY <1>2, RebindStep, BitStep
  <1>3. CASE ServerSends \/ ConnectionResets \/ ConnectionDies \/ KeepaliveEnds
    BY <1>3, ServerSendsStep, ConnectionStep
  <1>4. CASE UNCHANGED vars
    BY <1>4 DEF vars, env, IInv, TypeInv, CommandInv, SocketInv, StateInv, Listening, Open
  <1> QED
    BY <1>1, <1>2, <1>3, <1>4 DEF Next

\* The strengthened invariant holds in every reachable state.
THEOREM Invariant == Spec => []IInv
  BY InvariantInit, InvariantStep, PTL DEF Spec

\* However the control connection fails, and whenever the network is rebound or
\* MicroLink stopped, the coordination task has at most the one socket it knows
\* of open, and has one wherever it uses it.
THEOREM SocketIsKept == Spec => []SocketStateOK
<1>1. IInv => SocketStateOK
  BY InvariantSuffices
<1> QED
  BY <1>1, Invariant, PTL

\* A task in the long poll reads and writes in step with the server: its Noise
\* nonces, its HTTP/2 streams and the network it is bound to.
THEOREM ListensAsTold == Spec => []ListensInStep
<1>1. IInv => ListensInStep
  BY InvariantSuffices
<1> QED
  BY <1>1, Invariant, PTL

\* The registration answers the challenge of its own handshake, and the long
\* poll begins with the peers known, but for answers that came too late.
THEOREM SetUpIsOrdered == Spec => []SetUpInOrder
<1>1. IInv => SetUpInOrder
  BY InvariantSuffices
<1> QED
  BY <1>1, Invariant, PTL
-----------------------------------------------------------------------------
(***************************************************************************)
(* The least and the greatest number of a set.                             *)
(***************************************************************************)
Smaller == {p \in Nat \X Nat : p[1] < p[2]}

LEMMA SmallerIsWellFounded == IsWellFoundedOn(Smaller, Nat)
  <1>1. OpToRel(<, Nat) = Smaller
    BY DEF OpToRel, Smaller
  <1> QED
    BY <1>1, NatLessThanWellFounded, Zenon

LEMMA LeastNat ==
  ASSUME NEW T, T \subseteq Nat, T # {}
  PROVE  \E n \in T : \A m \in T : n <= m
  <1>1. \E x \in T : \A y \in T : ~ (<<y, x>> \in Smaller)
    BY SmallerIsWellFounded, WFMin, Zenon
  <1>2. PICK x \in T : \A y \in T : ~ (<<y, x>> \in Smaller)
    BY <1>1
  <1>3. \A y \in T : x <= y
    <2> TAKE y \in T
    <2>1. ~ (<<y, x>> \in Smaller)
      BY <1>2
    <2> QED
      BY <2>1 DEF Smaller
  <1> QED
    BY <1>3

LEMMA MaxIsGreatest ==
  ASSUME NEW b \in Nat, NEW T, T \subseteq 0..b, T # {}
  PROVE  Max(T) \in T /\ \A m \in T : m <= Max(T)
  <1> DEFINE U == {b - m : m \in T}
  <1>1. U \subseteq Nat /\ U # {}
    <2>1. \A m \in T : b - m \in Nat
      OBVIOUS
    <2> QED
      BY <2>1
  <1>2. PICK u \in U : \A v \in U : u <= v
    BY <1>1, LeastNat
  <1>3. PICK n \in T : u = b - n
    BY <1>2
  <1>4. \A m \in T : m <= n
    <2> TAKE m \in T
    <2>1. b - n <= b - m
      BY <1>2, <1>3
    <2> QED
      BY <2>1
  <1>5. \E x \in T : \A y \in T : x >= y
    BY <1>4
  <1>6. Max(T) \in T /\ \A y \in T : Max(T) >= y
    BY <1>5 DEF Max
  <1> QED
    BY <1>6
-----------------------------------------------------------------------------
(***************************************************************************)
(* The inductive invariant.                                                *)
(***************************************************************************)
Updates == [do : {"add", "remove"}, key : Keys]
Entries == [key : Keys, used : 0..ClockSize - 1]
Tables == [slot : [Slots -> Keys \cup {NoKey}], count : 0..MaxPeers]

ServerOK ==
    /\ server \subseteq Keys /\ IsFiniteSet(server)
    /\ \A j, k \in server : IpOf(j) = IpOf(k) => j = k
QueueOK == queue \in Seq(Updates) /\ Len(queue) <= QueueDepth
TableOK(t) ==
    /\ t \in Tables /\ Active(t) \subseteq 1..t.count
    /\ \A i, j \in Active(t) : t.slot[i] = t.slot[j] => i = j
EntriesOK(c) ==
    /\ c = [entry |-> c.entry, clock |-> c.clock]
    /\ c.entry \in Seq(Entries) /\ Len(c.entry) <= CacheSize /\ c.clock \in 0..ClockSize - 1
    /\ \A m, n \in 1..Len(c.entry) : IpOf(c.entry[m].key) = IpOf(c.entry[n].key) => m = n
RestOK ==
    /\ online \in BOOLEAN /\ unsure \subseteq Keys /\ since \in [Ips -> SUBSET Ips]
    /\ count \in [changes : 0..MaxChanges, breaks : 0..MaxBreaks]

Named(q, k) == \E n \in 1..Len(q) : q[n].key = k
LastOf(q, n) == \A m \in 1..Len(q) : q[m].key = q[n].key => m <= n

\* The last update of a peer in the queue says what the server does; with none
\* there, the table does.
QueueTells ==
    /\ \A n \in 1..Len(queue) : queue[n].key \notin unsure /\ LastOf(queue, n) =>
          (queue[n].do = "add" <=> queue[n].key \in server)
    /\ \A k \in Keys \ unsure :
          ~Named(queue, k) => (k \in Held(table) <=> k \in server)

PeersInv ==
    /\ ServerOK /\ QueueOK /\ TableOK(table) /\ EntriesOK(cache) /\ RestOK /\ QueueTells

LEMMA PeersConstants ==
  /\ NoKey \notin Keys /\ MaxPeers \in Nat /\ MaxPeers >= 1 /\ CacheSize \in Nat
  /\ CacheSize >= 1 /\ QueueDepth \in Nat /\ ClockSize \in Nat /\ ClockSize >= 1
  /\ MaxChanges \in Nat /\ MaxBreaks \in Nat
  BY PeersAssumption

LEMMA HeldKey ==
  ASSUME NEW t, NEW k
  PROVE  k \in Held(t) <=> \E i \in Slots : t.slot[i] = k /\ k # NoKey
  BY DEF Held, Active
-----------------------------------------------------------------------------
(***************************************************************************)
(* Updates that enter the queue.                                           *)
(***************************************************************************)
\* What is not dropped stands in the queue, after what stood there.
LEMMA EnqueuedAre ==
  ASSUME QueueOK, NEW w \in Seq(Updates)
  PROVE  /\ Enqueued(w) \in Seq(Updates)
         /\ Len(Enqueued(w)) \in Len(queue)..QueueDepth
         /\ \A n \in 1..Len(queue) : Enqueued(w)[n] = queue[n]
         /\ \A n \in 1..Len(Enqueued(w)) :
               n > Len(queue) => \E m \in 1..Len(w) : Enqueued(w)[n] = w[m]
         /\ \A m \in 1..Len(w) :
               \/ w[m].key \in Dropped(w)
               \/ \E n \in 1..Len(Enqueued(w)) : n > Len(queue) /\ Enqueued(w)[n] = w[m]
         /\ Dropped(w) \subseteq Keys
  <1>1. PICK a, b, all, limit : /\ a = Len(queue) /\ b = Len(w) /\ all = queue \o w
                                /\ limit = IF a + b < QueueDepth THEN a + b ELSE QueueDepth
    OBVIOUS
  <1>2. /\ queue \in Seq(Updates) /\ a \in Nat /\ b \in Nat /\ a <= QueueDepth
        /\ QueueDepth \in Nat
    BY <1>1, LenProperties, PeersConstants DEF QueueOK
  <1>3. limit \in a..QueueDepth /\ limit <= a + b
    BY <1>1, <1>2
  <1>4. /\ Len(all) = a + b
        /\ \A i \in 1..(a + b) : all[i] = IF i <= a THEN queue[i] ELSE w[i - a]
    BY <1>1, <1>2, ConcatProperties
  <1>5. \A i \in 1..(a + b) : all[i] \in Updates
    <2>1. \A i \in 1..a : queue[i] \in Updates
      BY <1>1, <1>2, ElementOfSeq
    <2>2. \A i \in 1..b : w[i] \in Updates
      BY <1>1, ElementOfSeq
    <2> TAKE i \in 1..(a + b)
    <2>3. CASE i <= a
      BY <1>2, <1>4, <2>1, <2>3
    <2>4. CASE ~ (i <= a)
      <3>1. i - a \in 1..b
        BY <1>2, <2>4
      <3> QED
        BY <1>4, <2>2, <2>4, <3>1
    <2> QED
      BY <2>3, <2>4
  <1>6. PICK e : e = SubSeq(all, 1, limit)
    OBVIOUS
  <1>7. Enqueued(w) = e
    <2>1. limit = IF Len(all) < QueueDepth THEN Len(all) ELSE QueueDepth
      BY <1>1, <1>4
    <2> QED
      BY <1>1, <1>6, <2>1 DEF Enqueued
  <1>8. /\ e \in Seq(Updates) /\ Len(e) = limit
        /\ \A i \in 1..limit : e[i] = all[i]
    <2>1. 1 \in Int /\ limit \in Int /\ \A i \in 1..limit : all[i] \in Updates
      BY <1>2, <1>3, <1>5
    <2>2. /\ SubSeq(all, 1, limit) \in Seq(Updates)
          /\ Len(SubSeq(all, 1, limit)) = IF 1 <= limit THEN limit - 1 + 1 ELSE 0
          /\ \A i \in 1..limit - 1 + 1 : SubSeq(all, 1, limit)[i] = all[1 + i - 1]
      BY ONLY <2>1, SubSeqProperties
    <2> QED
      BY <1>2, <1>3, <1>6, <2>2
  <1>9. \A n \in 1..a : e[n] = queue[n]
    BY <1>2, <1>3, <1>4, <1>8
  <1>10. \A n \in 1..limit : n > a => \E m \in 1..b : e[n] = w[m]
    <2> SUFFICES ASSUME NEW n \in 1..limit, n > a PROVE \E m \in 1..b : e[n] = w[m]
      OBVIOUS
    <2>1. n - a \in 1..b /\ e[n] = w[n - a]
      BY <1>2, <1>3, <1>4, <1>8
    <2> QED
      BY <2>1
  <1>11. Dropped(w) = {all[n].key : n \in QueueDepth + 1..a + b}
    BY <1>1 DEF Dropped
  <1>12. \A m \in 1..b : \/ w[m].key \in Dropped(w)
                         \/ \E n \in 1..limit : n > a /\ e[n] = w[m]
    <2> TAKE m \in 1..b
    <2>1. PICK n : n = a + m
      OBVIOUS
    <2>2. n \in 1..(a + b) /\ n > a /\ n - a = m /\ all[n] = w[m]
      BY <1>2, <1>4, <2>1
    <2>3. CASE n \in 1..limit
      BY <1>8, <2>2, <2>3
    <2>4. CASE n \notin 1..limit
      <3>1. n \in QueueDepth + 1..a + b
        BY <1>1, <1>2, <2>2, <2>4
      <3> QED
        BY <1>11, <2>2, <3>1
    <2> QED
      BY <2>3, <2>4
  <1>13. Dropped(w) \subseteq Keys
    <2>1. \A n \in QueueDepth + 1..a + b : n \in 1..(a + b)
      BY <1>2
    <2>2. \A u \in Updates : u.key \in Keys
      BY DEF Updates
    <2> QED
      BY <1>5, <1>11, <2>1, <2>2
  <1> QED
    BY <1>1, <1>3, <1>7, <1>8, <1>9, <1>10, <1>12, <1>13

\* A response tells the device what the server has become.
LEMMA ParseStep ==
  ASSUME PeersInv, NEW w \in Seq(Updates), Parse(w), UNCHANGED table,
         \A n \in 1..Len(w) : w[n].do = "add" <=> w[n].key \in server',
         \A k \in Keys : ~Named(w, k) => (k \in server' <=> k \in server)
  PROVE  QueueOK' /\ QueueTells' /\ unsure' \subseteq Keys
  <1>1. PICK e, lost, told : /\ e = Enqueued(w) /\ lost = Dropped(w)
                             /\ told = {w[n].key : n \in DOMAIN w}
    OBVIOUS
  <1>2. queue' = e /\ unsure' = (unsure \ told) \cup lost
    BY <1>1 DEF Parse
  <1>3. PICK a, b : a = Len(queue) /\ b = Len(e)
    OBVIOUS
  <1>4. /\ e \in Seq(Updates) /\ b \in a..QueueDepth
        /\ \A n \in 1..a : e[n] = queue[n]
        /\ \A n \in 1..b : n > a => \E m \in 1..Len(w) : e[n] = w[m]
        /\ \A m \in 1..Len(w) : \/ w[m].key \in lost
                                \/ \E n \in 1..b : n > a /\ e[n] = w[m]
        /\ lost \subseteq Keys
    BY <1>1, <1>3, EnqueuedAre DEF PeersInv
  <1>5. a \in Nat /\ b \in Nat /\ DOMAIN w = 1..Len(w) /\ QueueDepth \in Nat
    BY <1>3, <1>4, LenProperties, PeersConstants DEF PeersInv, QueueOK
  <1>6. QueueOK'
    BY <1>2, <1>3, <1>4, <1>5 DEF QueueOK
  <1>7. unsure' \subseteq Keys
    BY <1>2, <1>4 DEF PeersInv, RestOK
  \* A peer of which nothing went missing is named in the queue if the response names it.
  <1>8. ASSUME NEW k, k \notin unsure', Named(w, k)
        PROVE  \E n \in 1..b : n > a /\ e[n].key = k
    <2>1. PICK m \in 1..Len(w) : w[m].key = k
      BY <1>8 DEF Named
    <2>2. k \notin lost
      BY <1>2, <1>8
    <2> QED
      BY <1>4, <2>1, <2>2
  <1>9. ASSUME NEW k, k \notin unsure', ~Named(w, k)
        PROVE  k \notin unsure
    BY <1>1, <1>2, <1>5, <1>9 DEF Named
  <1>10. ASSUME NEW n \in 1..b, e[n].key \notin unsure', LastOf(e, n)
         PROVE  e[n].do = "add" <=> e[n].key \in server'
    <2>1. CASE n > a
      BY <1>4, <2>1
    <2>2. CASE ~ (n > a)
      <3>1. n \in 1..a /\ e[n] = queue[n]
        BY <1>4, <1>5, <2>2
      <3>2. ~Named(w, e[n].key)
        <4> SUFFICES ASSUME Named(w, e[n].key) PROVE FALSE
          OBVIOUS
        <4>1. PICK m \in 1..b : m > a /\ e[m].key = e[n].key
          BY <1>8, <1>10
        <4>2. m <= n
          BY <1>3, <1>10, <4>1 DEF LastOf
        <4> QED
          BY <1>5, <3>1, <4>1, <4>2
      <3>3. e[n].key \notin unsure
        BY <1>9, <1>10, <3>2
      <3>4. LastOf(queue, n)
        <4> SUFFICES ASSUME NEW m \in 1..a, queue[m].key = queue[n].key PROVE m <= n
          BY <1>3 DEF LastOf
        <4>1. m \in 1..b /\ e[m].key = e[n].key
          BY <1>4, <1>5, <3>1
        <4> QED
          BY <1>3, <1>10, <4>1 DEF LastOf
      <3>5. queue[n].do = "add" <=> queue[n].key \in server
        BY <1>3, <3>1, <3>3, <3>4 DEF PeersInv, QueueTells
      <3>6. e[n].key \in Keys
        <4>1. e[n] \in Updates
          BY <1>3, <1>4, ElementOfSeq
        <4> QED
          BY <4>1 DEF Updates
      <3> QED
        BY <3>1, <3>2, <3>5, <3>6
    <2> QED
      BY <2>1, <2>2
  <1>11. ASSUME NEW k \in Keys \ unsure', ~Named(e, k)
         PROVE  k \in Held(table) <=> k \in server'
    <2>1. ~Named(w, k)
      BY <1>3, <1>8, <1>11 DEF Named
    <2>2. k \notin unsure
      BY <1>9, <1>11, <2>1
    <2>3. ~Named(queue, k)
      <3> SUFFICES ASSUME NEW n \in 1..a, queue[n].key = k PROVE FALSE
        BY <1>3 DEF Named
      <3>1. n \in 1..b /\ e[n].key = k
        BY <1>4, <1>5
      <3> QED
        BY <1>3, <1>11, <3>1 DEF Named
    <2>4. k \in Held(table) <=> k \in server
      BY <1>11, <2>2, <2>3 DEF PeersInv, QueueTells
    <2> QED
      BY <2>1, <2>4
  <1>12. QueueTells'
    <2>1. Held(table)' = Held(table)
      BY DEF Held, Active
    <2> QED
      BY <1>2, <1>3, <1>10, <1>11, <2>1 DEF QueueTells, LastOf, Named
  <1> QED
    BY <1>6, <1>7, <1>12
-----------------------------------------------------------------------------
(***************************************************************************)
(* The server.                                                             *)
(***************************************************************************)
\* One update, or none, as a sequence.
LEMMA NoneAsSequence == SetToSeq({}) = <<>>
  <1>1. Cardinality({}) = 0
    BY FS_EmptySet
  <1>2. SetToSeq({}) = CHOOSE f \in [1..0 -> {}] : IsInjective(f)
    BY <1>1 DEF SetToSeq
  <1>3. <<>> \in [1..0 -> {}] /\ IsInjective(<<>>)
    BY DEF IsInjective
  <1>4. \A f \in [1..0 -> {}] : f = <<>>
    OBVIOUS
  <1> QED
    BY <1>2, <1>3, <1>4

LEMMA OneAsSequence ==
  ASSUME NEW x
  PROVE  SetToSeq({x}) = <<x>>
  <1>1. Cardinality({x}) = 1
    BY FS_Singleton
  <1>2. SetToSeq({x}) = CHOOSE f \in [1..1 -> {x}] : IsInjective(f)
    BY <1>1 DEF SetToSeq
  <1>3. <<x>> \in [1..1 -> {x}] /\ IsInjective(<<x>>)
    BY DEF IsInjective
  <1>4. \A f \in [1..1 -> {x}] : f = <<x>>
    <2> TAKE f \in [1..1 -> {x}]
    <2>1. f = [i \in 1..1 |-> x]
      OBVIOUS
    <2>2. <<x>> = [i \in 1..1 |-> x]
      OBVIOUS
    <2> QED
      BY <2>1, <2>2
  <1> QED
    BY <1>2, <1>3, <1>4

\* With a stream the response enters the queue; with none all it says is missed.
LEMMA AnnounceStep ==
  ASSUME PeersInv, NEW w \in Seq(Updates), Announce(w), UNCHANGED table,
         \A n \in 1..Len(w) : w[n].do = "add" <=> w[n].key \in server',
         \A k \in Keys : ~Named(w, k) => (k \in server' <=> k \in server)
  PROVE  QueueOK' /\ QueueTells' /\ unsure' \subseteq Keys
  <1>1. CASE online
    <2>1. Parse(w)
      BY <1>1 DEF Announce
    <2> QED
      BY <2>1, ParseStep
  <1>2. CASE ~ online
    <2>1. PICK told : told = {w[n].key : n \in DOMAIN w}
      OBVIOUS
    <2>2. queue' = queue /\ unsure' = unsure \cup told
      BY <1>2, <2>1 DEF Announce
    <2>3. DOMAIN w = 1..Len(w) /\ \A n \in 1..Len(w) : w[n].key \in Keys
      <3>1. DOMAIN w = 1..Len(w) /\ \A n \in 1..Len(w) : w[n] \in Updates
        BY LenProperties, ElementOfSeq
      <3> QED
        BY <3>1 DEF Updates
    <2>4. unsure' \subseteq Keys
      BY <2>1, <2>2, <2>3 DEF PeersInv, RestOK
    <2>5. \A k \in Keys : k \notin unsure' => k \notin unsure /\ ~Named(w, k)
      BY <2>1, <2>2, <2>3 DEF Named
    <2>6. \A n \in 1..Len(queue) : queue[n].key \in Keys
      <3>1. \A n \in 1..Len(queue) : queue[n] \in Updates
        BY ElementOfSeq DEF PeersInv, QueueOK
      <3> QED
        BY <3>1 DEF Updates
    <2>7. Held(table)' = Held(table)
      BY DEF Held, Active
    <2>8. QueueTells'
      <3>1. ASSUME NEW n \in 1..Len(queue), queue[n].key \notin unsure', LastOf(queue, n)
            PROVE  queue[n].do = "add" <=> queue[n].key \in server'
        <4>1. queue[n].key \in Keys /\ queue[n].key \notin unsure /\ ~Named(w, queue[n].key)
          BY <2>5, <2>6, <3>1
        <4> QED
          BY <3>1, <4>1 DEF PeersInv, QueueTells
      <3>2. ASSUME NEW k \in Keys \ unsure', ~Named(queue, k)
            PROVE  k \in Held(table) <=> k \in server'
        <4>1. k \notin unsure /\ ~Named(w, k)
          BY <2>5
        <4> QED
          BY <3>2, <4>1 DEF PeersInv, QueueTells
      <3> QED
        BY <2>2, <2>7, <3>1, <3>2 DEF QueueTells, LastOf, Named
    <2> QED
      BY <2>2, <2>4, <2>8 DEF QueueOK, PeersInv
  <1> QED
    BY <1>1, <1>2

\* A change of the list.
LEMMA ChangedRest ==
  ASSUME PeersInv, NEW list, Changed(list), unsure' \subseteq Keys
  PROVE  /\ server' = list /\ UNCHANGED <<table, cache, since>> /\ RestOK'
         /\ TableOK(table') /\ EntriesOK(cache')
  <1>1. count \in [changes : 0..MaxChanges, breaks : 0..MaxBreaks]
    BY DEF PeersInv, RestOK
  <1>2. count.changes + 1 \in 0..MaxChanges
    <2>1. MaxChanges \in Nat /\ count.changes < MaxChanges
      BY PeersConstants DEF Changed
    <2> QED
      BY <1>1, <2>1
  <1>3. count' = [count EXCEPT !.changes = count.changes + 1]
    BY DEF Changed
  <1>4. count' \in [changes : 0..MaxChanges, breaks : 0..MaxBreaks]
    BY <1>1, <1>2, <1>3
  <1> QED
    BY <1>4 DEF Changed, PeersInv, RestOK

LEMMA JoinsStep ==
  ASSUME PeersInv, NEW k \in Keys, Joins(k)
  PROVE  PeersInv'
  <1> DEFINE gone == {j \in server : IpOf(j) = IpOf(k)}
  <1>1. PICK removed : removed = SetToSeq({Update("remove", j) : j \in gone})
    OBVIOUS
  <1>2. PICK add : add = Update("add", k)
    OBVIOUS
  <1>3. k \notin server /\ Changed((server \ gone) \cup {k}) /\ Announce(<<add>> \o removed)
    BY <1>1, <1>2 DEF Joins
  <1>4. server' = (server \ gone) \cup {k}
    BY <1>3 DEF Changed
  <1>5. add \in Updates /\ add.do = "add" /\ add.key = k
    BY <1>2 DEF Update, Updates
  <1>6. PICK w : w = <<add>> \o removed
    OBVIOUS
  <1>7. /\ w \in Seq(Updates)
        /\ \A n \in 1..Len(w) : w[n].do = "add" <=> w[n].key \in server'
        /\ \A x \in Keys : ~Named(w, x) => (x \in server' <=> x \in server)
    <2>1. CASE gone = {}
      <3>1. {Update("remove", j) : j \in gone} = {}
        BY <2>1
      <3>2. removed = <<>>
        BY <1>1, <3>1, NoneAsSequence
      <3>3. w = <<add>> /\ w \in Seq(Updates) /\ Len(w) = 1 /\ w[1] = add
        BY <1>5, <1>6, <3>2
      <3> QED
        BY <1>4, <1>5, <2>1, <3>3 DEF Named
    <2>2. CASE gone # {}
      <3>1. PICK j \in gone : TRUE
        BY <2>2
      <3>2. gone = {j} /\ j \in server /\ j \in Keys
        BY <3>1 DEF PeersInv, ServerOK
      <3>3. PICK rm : rm = Update("remove", j)
        OBVIOUS
      <3>4. rm \in Updates /\ rm.do = "remove" /\ rm.key = j
        BY <3>2, <3>3 DEF Update, Updates
      <3>5. {Update("remove", x) : x \in gone} = {rm}
        BY <3>2, <3>3
      <3>6. removed = <<rm>>
        BY <1>1, <3>5, OneAsSequence
      <3>7. /\ w \in Seq(Updates) /\ Len(w) = 2 /\ w[1] = add /\ w[2] = rm
        <4>1. w = <<add>> \o <<rm>>
          BY <1>6, <3>6
        <4>2. PICK s, t : s = <<add>> /\ t = <<rm>>
          OBVIOUS
        <4>3. /\ s \in Seq(Updates) /\ t \in Seq(Updates) /\ Len(s) = 1 /\ Len(t) = 1
              /\ s[1] = add /\ t[1] = rm
          BY <1>5, <3>4, <4>2
        <4>4. /\ s \o t \in Seq(Updates) /\ Len(s \o t) = Len(s) + Len(t)
              /\ \A i \in 1..Len(s) + Len(t) :
                    (s \o t)[i] = IF i <= Len(s) THEN s[i] ELSE t[i - Len(s)]
          BY <4>3, ConcatProperties
        <4> QED
          BY <4>1, <4>2, <4>3, <4>4
      <3>8. j \notin server' /\ k \in server' /\ j # k
        BY <1>3, <1>4, <3>2
      <3>9. \A n \in 1..Len(w) : w[n].do = "add" <=> w[n].key \in server'
        <4> TAKE n \in 1..Len(w)
        <4>1. n = 1 \/ n = 2
          BY <3>7
        <4>2. CASE n = 1
          BY <1>5, <3>7, <3>8, <4>2
        <4>3. CASE n = 2
          BY <3>4, <3>7, <3>8, <4>3
        <4> QED
          BY <4>1, <4>2, <4>3
      <3>10. \A x \in Keys : ~Named(w, x) => x # k /\ x # j
        BY <1>5, <3>4, <3>7 DEF Named
      <3> QED
        BY <1>4, <3>2, <3>7, <3>9, <3>10
    <2> QED
      BY <2>1, <2>2
  <1>8. UNCHANGED table
    BY <1>3 DEF Changed
  <1>9. QueueOK' /\ QueueTells' /\ unsure' \subseteq Keys
    BY <1>3, <1>6, <1>7, <1>8, AnnounceStep
  <1>10. RestOK' /\ TableOK(table') /\ EntriesOK(cache')
    BY <1>3, <1>9, ChangedRest
  <1>11. ServerOK'
    <2>1. server \subseteq Keys /\ IsFiniteSet(server)
      BY DEF PeersInv, ServerOK
    <2>2. IsFiniteSet(server \ gone)
      BY <2>1, FS_Subset
    <2>3. IsFiniteSet(server')
      BY <1>4, <2>2, FS_AddElement
    <2>4. \A i, j \in server' : IpOf(i) = IpOf(j) => i = j
      <3>1. \A i \in server \ gone : IpOf(i) # IpOf(k)
        OBVIOUS
      <3>2. \A i, j \in server : IpOf(i) = IpOf(j) => i = j
        BY DEF PeersInv, ServerOK
      <3> QED
        BY <1>4, <3>1, <3>2
    <2> QED
      BY <1>4, <2>1, <2>3, <2>4 DEF ServerOK
  <1> QED
    BY <1>9, <1>10, <1>11 DEF PeersInv

LEMMA LeavesStep ==
  ASSUME PeersInv, NEW k \in Keys, Leaves(k)
  PROVE  PeersInv'
  <1>1. PICK rm : rm = Update("remove", k)
    OBVIOUS
  <1>2. k \in server /\ Changed(server \ {k}) /\ Announce(<<rm>>)
    BY <1>1 DEF Leaves
  <1>3. server' = server \ {k} /\ UNCHANGED table
    BY <1>2 DEF Changed
  <1>4. rm \in Updates /\ rm.do = "remove" /\ rm.key = k
    BY <1>1 DEF Update, Updates
  <1>5. PICK w : w = <<rm>>
    OBVIOUS
  <1>6. w \in Seq(Updates) /\ Len(w) = 1 /\ w[1] = rm
    BY <1>4, <1>5
  <1>7. \A n \in 1..Len(w) : w[n].do = "add" <=> w[n].key \in server'
    BY <1>3, <1>4, <1>6
  <1>8. \A x \in Keys : ~Named(w, x) => (x \in server' <=> x \in server)
    BY <1>3, <1>4, <1>6 DEF Named
  <1>9. QueueOK' /\ QueueTells' /\ unsure' \subseteq Keys
    BY <1>2, <1>3, <1>5, <1>6, <1>7, <1>8, AnnounceStep
  <1>10. RestOK' /\ TableOK(table') /\ EntriesOK(cache')
    BY <1>2, <1>9, ChangedRest
  <1>11. ServerOK'
    <2>1. IsFiniteSet(server')
      BY <1>3, FS_Subset DEF PeersInv, ServerOK
    <2> QED
      BY <1>3, <2>1 DEF PeersInv, ServerOK
  <1> QED
    BY <1>9, <1>10, <1>11 DEF PeersInv

LEMMA ReceiveListStep ==
  ASSUME PeersInv, ReceiveList
  PROVE  PeersInv'
  <1>1. PICK q \in Orders(server) : Parse([n \in DOMAIN q |-> Update("add", q[n])])
    BY DEF ReceiveList
  <1>2. server \subseteq Keys /\ IsFiniteSet(server)
    BY DEF PeersInv, ServerOK
  <1>3. PICK c : c = Cardinality(server)
    OBVIOUS
  <1>4. c \in Nat /\ q \in [1..c -> server]
    BY <1>1, <1>2, <1>3, FS_CardinalityType DEF Orders
  <1>5. PICK w : w = [n \in 1..c |-> Update("add", q[n])]
    OBVIOUS
  <1>6. \A n \in 1..c : w[n] \in Updates /\ w[n].do = "add" /\ w[n].key \in server
    BY <1>2, <1>4, <1>5 DEF Update, Updates
  <1>7. w \in Seq(Updates) /\ Len(w) = c
    BY <1>4, <1>5, <1>6
  <1>8. Parse(w)
    BY <1>1, <1>4, <1>5
  <1>9. QueueOK' /\ QueueTells' /\ unsure' \subseteq Keys
    <2>1. server' = server /\ UNCHANGED table
      BY DEF ReceiveList
    <2> QED
      BY <1>6, <1>7, <1>8, <2>1, ParseStep
  <1> QED
    BY <1>9 DEF ReceiveList, PeersInv, ServerOK, RestOK

\* A break of the stream, or of the device.
LEMMA BreakCounted ==
  ASSUME PeersInv, count.breaks < MaxBreaks, count' = [count EXCEPT !.breaks = @ + 1]
  PROVE  count' \in [changes : 0..MaxChanges, breaks : 0..MaxBreaks]
  <1>1. count \in [changes : 0..MaxChanges, breaks : 0..MaxBreaks]
    BY DEF PeersInv, RestOK
  <1>2. count.breaks + 1 \in 0..MaxBreaks
    BY <1>1, PeersConstants
  <1>3. count' = [count EXCEPT !.breaks = count.breaks + 1]
    OBVIOUS
  <1> QED
    BY <1>1, <1>2, <1>3

LEMMA LosesStreamStep ==
  ASSUME PeersInv, LosesStream
  PROVE  PeersInv'
  <1>1. count' \in [changes : 0..MaxChanges, breaks : 0..MaxBreaks]
    BY BreakCounted DEF LosesStream
  <1>2. QueueTells'
    <2>1. UNCHANGED <<queue, table, server, unsure>>
      BY DEF LosesStream
    <2>2. QueueTells
      BY DEF PeersInv
    <2> QED
      BY <2>1, <2>2 DEF QueueTells, Named, LastOf, Held, Active
  <1> QED
    BY <1>1, <1>2 DEF LosesStream, PeersInv, ServerOK, QueueOK, RestOK
-----------------------------------------------------------------------------
(***************************************************************************)
(* The table.                                                              *)
(***************************************************************************)
LEMMA RebootStep ==
  ASSUME PeersInv, Reboot
  PROVE  PeersInv'
  <1>1. PICK entry, n : /\ entry = cache.entry
                        /\ n = IF Len(entry) < MaxPeers THEN Len(entry) ELSE MaxPeers
    OBVIOUS
  <1>2. /\ entry \in Seq(Entries)
        /\ \A m, o \in 1..Len(entry) : IpOf(entry[m].key) = IpOf(entry[o].key) => m = o
    BY <1>1 DEF PeersInv, EntriesOK
  <1>3. Len(entry) \in Nat /\ n \in 0..MaxPeers /\ n <= Len(entry)
    BY <1>1, <1>2, LenProperties, PeersConstants
  <1>4. \A i \in 1..n : i \in 1..Len(entry) /\ entry[i].key \in Keys
    <2>1. \A i \in 1..n : i \in 1..Len(entry) /\ entry[i] \in Entries
      BY <1>2, <1>3, ElementOfSeq
    <2> QED
      BY <2>1 DEF Entries
  <1>5. PICK t : t = Loaded
    OBVIOUS
  <1>6. t = [slot |-> [i \in Slots |-> IF i <= n THEN entry[i].key ELSE NoKey], count |-> n]
    BY <1>1, <1>5 DEF Loaded
  <1>7. \A i \in Slots : i \in Nat /\ (i <= n => i \in 1..n)
    BY <1>3 DEF Slots
  <1>8. TableOK(t)
    <2>1. t.count = n /\ \A i \in Slots : t.slot[i] = IF i <= n THEN entry[i].key ELSE NoKey
      BY <1>6
    <2>2. t \in Tables
      BY <1>3, <1>4, <1>6, <1>7 DEF Tables
    <2>3. \A i \in Active(t) : i \in 1..n /\ t.slot[i] = entry[i].key
      BY <1>7, <2>1 DEF Active
    <2>4. \A i, j \in Active(t) : t.slot[i] = t.slot[j] => i = j
      BY <1>2, <1>4, <2>3
    <2> QED
      BY <2>1, <2>2, <2>3, <2>4 DEF TableOK
  <1>9. /\ online' = FALSE /\ queue' = <<>> /\ table' = t
        /\ unsure' = {k \in Keys : (k \in Held(t)) # (k \in server)}
        /\ UNCHANGED <<server, cache, since>>
        /\ count' \in [changes : 0..MaxChanges, breaks : 0..MaxBreaks]
    BY <1>5, BreakCounted DEF Reboot
  <1>10. QueueTells'
    <2>1. Held(table)' = Held(t)
      BY <1>9 DEF Held, Active
    <2>2. Len(queue') = 0
      BY <1>9
    <2>3. \A k \in Keys \ unsure' : k \in Held(t) <=> k \in server'
      BY <1>9
    <2> QED
      BY <2>1, <2>2, <2>3 DEF QueueTells
  <1>11. QueueOK'
    BY <1>9, PeersConstants DEF QueueOK
  <1>12. ServerOK' /\ RestOK' /\ TableOK(table') /\ EntriesOK(cache')
    BY <1>8, <1>9 DEF PeersInv, ServerOK, RestOK
  <1> QED
    BY <1>10, <1>11, <1>12 DEF PeersInv

\* A peer that is not found is not held.
LEMMA NotFound ==
  ASSUME NEW t, TableOK(t), NEW k \in Keys
  PROVE  /\ Found(t, k) = {} <=> k \notin Held(t)
         /\ \A i \in Found(t, k) : i \in Slots /\ t.slot[i] = k
  BY PeersConstants DEF Found, TableOK, Held, Active

\* A peer gets its own slot, or one of a table that does not hold it.
LEMMA PlacedOK ==
  ASSUME NEW t, TableOK(t), NEW k \in Keys, NEW i \in SlotsFor(t, k)
  PROVE  /\ TableOK(Placed(t, k, i)) /\ i \in Slots
         /\ \A x \in Keys : x # t.slot[i] =>
               (x \in Held(Placed(t, k, i)) <=> x \in Held(t) \/ x = k)
         /\ k \in Held(Placed(t, k, i))
  <1>1. i \in Slots
    BY DEF SlotsFor, Found, Free, Evictable, Active
  <1>2. Slots = 1..MaxPeers /\ MaxPeers \in Nat /\ NoKey \notin Keys
    BY PeersConstants DEF Slots
  <1>3. /\ t.slot \in [Slots -> Keys \cup {NoKey}] /\ t.count \in 0..MaxPeers
        /\ \A j \in Slots : t.slot[j] # NoKey => j \in 1..t.count
        /\ \A j, o \in Slots : t.slot[j] # NoKey /\ t.slot[j] = t.slot[o] => j = o
    BY DEF TableOK, Tables, Active
  <1>4. \A j \in Slots : t.slot[j] = k => j = i
    <2>1. CASE Found(t, k) # {}
      <3>1. t.slot[i] = k
        BY <2>1, NotFound DEF SlotsFor
      <3> QED
        BY <1>1, <1>2, <1>3, <3>1
    <2>2. CASE Found(t, k) = {}
      <3>1. k \notin Held(t)
        BY <2>2, NotFound
      <3> QED
        BY <1>2, <3>1, HeldKey
    <2> QED
      BY <2>1, <2>2
  <1>5. PICK p : p = Placed(t, k, i)
    OBVIOUS
  <1>6. /\ p = [slot |-> [t.slot EXCEPT ![i] = k], count |-> IF i > t.count THEN i ELSE t.count]
    BY <1>5 DEF Placed
  <1>7. /\ p.slot = [t.slot EXCEPT ![i] = k] /\ p.count \in 0..MaxPeers
        /\ p.count >= i /\ p.count >= t.count
    BY <1>1, <1>2, <1>3, <1>6
  <1>8. p.slot[i] = k /\ \A j \in Slots : j # i => p.slot[j] = t.slot[j]
    BY <1>1, <1>3, <1>7
  <1>9. TableOK(p)
    <2>1. p \in Tables
      BY <1>3, <1>6, <1>7 DEF Tables
    <2>2. ASSUME NEW j \in Active(p) PROVE j \in 1..p.count
      <3>1. j \in Slots /\ p.slot[j] # NoKey
        BY DEF Active
      <3>2. CASE j = i
        BY <1>1, <1>2, <1>7, <3>2
      <3>3. CASE j # i
        BY <1>2, <1>3, <1>7, <1>8, <3>1, <3>3
      <3> QED
        BY <3>2, <3>3
    <2>3. \A j, o \in Active(p) : p.slot[j] = p.slot[o] => j = o
      BY <1>3, <1>4, <1>8 DEF Active
    <2> QED
      BY <2>1, <2>2, <2>3 DEF TableOK
  <1>10. ASSUME NEW x \in Keys, x # t.slot[i]
         PROVE  x \in Held(p) <=> x \in Held(t) \/ x = k
    BY <1>1, <1>2, <1>8, <1>10, HeldKey
  <1>11. k \in Held(p)
    BY <1>1, <1>2, <1>8, HeldKey
  <1> QED
    BY <1>1, <1>5, <1>9, <1>10, <1>11

\* The slot of a peer is left free, and the count brought down.
LEMMA CompactedOK ==
  ASSUME NEW t, TableOK(t), NEW k \in Keys, NEW i \in Found(t, k),
         NEW p, p = Compacted([t.slot EXCEPT ![i] = NoKey], t.count)
  PROVE  /\ TableOK(p)
         /\ \A x \in Keys : x \in Held(p) <=> x \in Held(t) /\ x # k
  <1>1. i \in Slots /\ t.slot[i] = k
    BY NotFound
  <1>2. Slots = 1..MaxPeers /\ MaxPeers \in Nat /\ NoKey \notin Keys
    BY PeersConstants DEF Slots
  <1>3. /\ t.slot \in [Slots -> Keys \cup {NoKey}] /\ t.count \in 0..MaxPeers
        /\ \A j \in Slots : t.slot[j] # NoKey => j \in 1..t.count
        /\ \A j, o \in Slots : t.slot[j] # NoKey /\ t.slot[j] = t.slot[o] => j = o
    BY DEF TableOK, Tables, Active
  <1>4. PICK slot, used : /\ slot = [t.slot EXCEPT ![i] = NoKey]
                          /\ used = {j \in 1..t.count : slot[j] # NoKey}
    OBVIOUS
  <1>5. p = [slot |-> slot, count |-> IF used = {} THEN 0 ELSE Max(used)]
    BY <1>4 DEF Compacted
  <1>6. /\ slot \in [Slots -> Keys \cup {NoKey}] /\ slot[i] = NoKey
        /\ \A j \in Slots : j # i => slot[j] = t.slot[j]
    BY <1>1, <1>3, <1>4
  <1>7. \A j \in Slots : slot[j] # NoKey => j \in used
    BY <1>3, <1>4, <1>6
  <1>8. p.slot = slot /\ p.count \in 0..MaxPeers /\ \A j \in used : j \in 1..p.count
    <2>1. CASE used = {}
      BY <1>2, <1>5, <2>1
    <2>2. CASE used # {}
      <3>1. used \subseteq 0..t.count /\ t.count \in Nat
        BY <1>3, <1>4
      <3>2. Max(used) \in used /\ \A j \in used : j <= Max(used)
        BY <2>2, <3>1, MaxIsGreatest
      <3>3. p.slot = slot /\ p.count = Max(used)
        BY <1>5, <2>2
      <3> QED
        BY <1>2, <1>3, <1>4, <3>2, <3>3
    <2> QED
      BY <2>1, <2>2
  <1>9. TableOK(p)
    <2>1. p \in Tables
      BY <1>5, <1>6, <1>8 DEF Tables
    <2>2. Active(p) \subseteq 1..p.count
      BY <1>7, <1>8 DEF Active
    <2>3. \A j, o \in Active(p) : p.slot[j] = p.slot[o] => j = o
      BY <1>3, <1>6, <1>8 DEF Active
    <2> QED
      BY <2>1, <2>2, <2>3 DEF TableOK
  <1>10. ASSUME NEW x \in Keys
         PROVE  x \in Held(p) <=> x \in Held(t) /\ x # k
    <2>1. x # NoKey /\ k # NoKey
      BY <1>2
    <2>2. \A j \in Slots : p.slot[j] = x <=> t.slot[j] = x /\ x # k
      BY <1>1, <1>3, <1>6, <1>8, <2>1
    <2> QED
      BY <2>1, <2>2, HeldKey
  <1> QED
    BY <1>9, <1>10
-----------------------------------------------------------------------------
(***************************************************************************)
(* The cache.                                                              *)
(***************************************************************************)
LEMMA StampedIs ==
  ASSUME NEW clock \in 0..ClockSize - 1
  PROVE  /\ Stamped(clock) \in 0..ClockSize - 1
         /\ clock < ClockSize - 1 => Stamped(clock) = clock + 1
  <1>1. ClockSize \in Nat /\ ClockSize >= 1 /\ clock + 1 \in Nat
    BY PeersConstants
  <1>2. (clock + 1) % ClockSize \in 0..ClockSize - 1
    BY <1>1
  <1>3. ASSUME clock < ClockSize - 1 PROVE (clock + 1) % ClockSize = clock + 1
    BY <1>1, <1>3
  <1> QED
    BY <1>2, <1>3 DEF Stamped

\* Of the entries with the lowest counter, there is a first one.
LEMMA LeastUsed ==
  ASSUME NEW e \in Seq(Entries), e # <<>>
  PROVE  \E n \in 1..Len(e) : \A m \in 1..Len(e) :
            e[n].used < e[m].used \/ (e[n].used = e[m].used /\ n <= m)
  <1>1. Len(e) \in Nat /\ Len(e) >= 1 /\ \A n \in 1..Len(e) : e[n] \in Entries
    BY LenProperties, ElementOfSeq, EmptySeq
  <1>2. ClockSize \in Nat
    BY PeersConstants
  <1>3. \A n \in 1..Len(e) : e[n].used \in Nat
    BY <1>1, <1>2 DEF Entries
  <1> DEFINE T == {e[n].used : n \in 1..Len(e)}
  <1>4. T \subseteq Nat /\ T # {}
    <2>1. 1 \in 1..Len(e)
      BY <1>1
    <2> QED
      BY <1>3, <2>1
  <1>5. PICK least \in T : \A x \in T : least <= x
    BY <1>4, LeastNat
  <1> DEFINE U == {n \in 1..Len(e) : e[n].used = least}
  <1>6. U \subseteq Nat /\ U # {}
    BY <1>5
  <1>7. PICK n \in U : \A m \in U : n <= m
    BY <1>6, LeastNat
  <1>8. ASSUME NEW m \in 1..Len(e)
        PROVE  e[n].used < e[m].used \/ (e[n].used = e[m].used /\ n <= m)
    <2>1. least <= e[m].used /\ e[m].used \in Nat /\ least \in Nat /\ e[n].used = least
      BY <1>3, <1>4, <1>5, <1>7
    <2>2. CASE e[m].used = least
      BY <1>7, <2>1, <2>2
    <2>3. CASE e[m].used # least
      BY <2>1, <2>3
    <2> QED
      BY <2>2, <2>3
  <1> QED
    BY <1>7, <1>8

\* The entry that is written: the one of the address, a new one, or the one used
\* least.
LEMMA SlotOfEntryIs ==
  ASSUME NEW e \in Seq(Entries), Len(e) <= CacheSize, NEW k \in Keys,
         NEW n, n = SlotOfEntry(e, k)
  PROVE  \/ n \in 1..Len(e) /\ IpOf(e[n].key) = IpOf(k)
         \/ /\ \A m \in 1..Len(e) : IpOf(e[m].key) # IpOf(k)
            /\ \/ Len(e) < CacheSize /\ n = Len(e) + 1
               \/ /\ Len(e) = CacheSize /\ n \in 1..Len(e)
                  /\ \A m \in 1..Len(e) : e[n].used <= e[m].used
  <1>1. Len(e) \in Nat /\ DOMAIN e = 1..Len(e) /\ CacheSize \in Nat /\ CacheSize >= 1
    BY LenProperties, PeersConstants
  <1> DEFINE same == {m \in 1..Len(e) : IpOf(e[m].key) = IpOf(k)}
             first == CHOOSE m \in same : \A o \in same : m <= o
             least == CHOOSE m \in 1..Len(e) : \A o \in 1..Len(e) :
                        e[m].used < e[o].used \/ (e[m].used = e[o].used /\ m <= o)
  <1>2. n = IF same # {} THEN first ELSE IF Len(e) < CacheSize THEN Len(e) + 1 ELSE least
    BY <1>1 DEF SlotOfEntry
  <1>3. CASE same # {}
    <2>1. same \subseteq Nat
      BY <1>1
    <2>2. \E m \in same : \A o \in same : m <= o
      BY <1>3, <2>1, LeastNat
    <2>3. first \in same
      BY <2>2
    <2> QED
      BY <1>2, <1>3, <2>3
  <1>4. CASE same = {} /\ Len(e) < CacheSize
    BY <1>2, <1>4
  <1>5. CASE same = {} /\ ~ (Len(e) < CacheSize)
    <2>1. Len(e) = CacheSize /\ e # <<>>
      <3>1. Len(e) = CacheSize
        <4>1. Len(e) <= CacheSize /\ ~ (Len(e) < CacheSize)
          BY <1>5
        <4>2. Len(e) \in Nat /\ CacheSize \in Nat
          BY <1>1
        <4> QED
          BY ONLY <4>1, <4>2
      <3>2. Len(e) # 0
        BY <1>1, <3>1
      <3> QED
        BY <3>1, <3>2, EmptySeq
    <2>2. \E m \in 1..Len(e) : \A o \in 1..Len(e) :
             e[m].used < e[o].used \/ (e[m].used = e[o].used /\ m <= o)
      BY <2>1, LeastUsed
    <2>3. n = least
      BY <1>2, <1>5
    <2>4. /\ n \in 1..Len(e)
          /\ \A o \in 1..Len(e) :
               e[n].used < e[o].used \/ (e[n].used = e[o].used /\ n <= o)
      BY <2>2, <2>3
    <2>5. \A o \in 1..Len(e) : e[o].used \in Nat
      <3>1. \A o \in 1..Len(e) : e[o] \in Entries
        BY ElementOfSeq
      <3> QED
        BY <3>1, PeersConstants DEF Entries
    <2>6. \A o \in 1..Len(e) : e[n].used <= e[o].used
      BY <2>4, <2>5
    <2> QED
      BY <1>5, <2>1, <2>4, <2>6
  <1> QED
    BY <1>3, <1>4, <1>5

\* What ml_peer_nvs_save leaves: the entry n is the new one, the others stay.
LEMMA SaveIs ==
  ASSUME NEW c, EntriesOK(c), NEW k \in Keys, NEW n, n = SlotOfEntry(c.entry, k),
         NEW d, d = Save(c, k)
  PROVE  /\ d = [entry |-> d.entry, clock |-> d.clock] /\ d.clock = Stamped(c.clock)
         /\ d.entry \in Seq(Entries) /\ Len(d.entry) <= CacheSize
         /\ Len(d.entry) = IF n > Len(c.entry) THEN Len(c.entry) + 1 ELSE Len(c.entry)
         /\ n \in 1..Len(d.entry)
         /\ d.entry[n] = [key |-> k, used |-> Stamped(c.clock)]
         /\ \A m \in 1..Len(d.entry) : m # n => m \in 1..Len(c.entry) /\ d.entry[m] = c.entry[m]
  <1>1. PICK e, new : e = c.entry /\ new = [key |-> k, used |-> Stamped(c.clock)]
    OBVIOUS
  <1>2. e \in Seq(Entries) /\ Len(e) \in Nat /\ Len(e) <= CacheSize /\ CacheSize \in Nat
    BY <1>1, LenProperties, PeersConstants DEF EntriesOK
  <1>3. new \in Entries
    BY <1>1, StampedIs DEF Entries, EntriesOK
  <1>4. PICK f : f = IF n > Len(e) THEN Append(e, new) ELSE [e EXCEPT ![n] = new]
    OBVIOUS
  <1>5. d = [entry |-> f, clock |-> Stamped(c.clock)]
    BY <1>1, <1>4 DEF Save
  <1>6. n \in 1..Len(e) \/ (n = Len(e) + 1 /\ Len(e) < CacheSize)
    BY <1>1, <1>2, SlotOfEntryIs
  <1>7. /\ f \in Seq(Entries) /\ Len(f) <= CacheSize
        /\ Len(f) = IF n > Len(e) THEN Len(e) + 1 ELSE Len(e)
        /\ n \in 1..Len(f) /\ f[n] = new
        /\ \A m \in 1..Len(f) : m # n => m \in 1..Len(e) /\ f[m] = e[m]
    <2>1. CASE n \in 1..Len(e)
      <3>1. f = [e EXCEPT ![n] = new]
        BY <1>2, <1>4, <2>1
      <3>2. /\ f \in Seq(Entries) /\ Len(f) = Len(e)
            /\ \A m \in 1..Len(f) : f[m] = IF m = n THEN new ELSE e[m]
        BY <1>2, <1>3, <2>1, <3>1, ExceptSeq
      <3> QED
        BY <1>2, <2>1, <3>2
    <2>2. CASE n = Len(e) + 1 /\ Len(e) < CacheSize
      <3>1. f = Append(e, new)
        BY <1>2, <1>4, <2>2
      <3>2. /\ f \in Seq(Entries) /\ Len(f) = Len(e) + 1
            /\ \A m \in 1..Len(e) : f[m] = e[m]
            /\ f[Len(e) + 1] = new
        BY <1>2, <1>3, <3>1, AppendProperties
      <3>3. \A m \in 1..Len(f) : m # n => m \in 1..Len(e)
        BY <1>2, <2>2, <3>2
      <3> QED
        BY <1>2, <2>2, <3>2, <3>3
    <2> QED
      BY <1>6, <2>1, <2>2
  <1> QED
    BY <1>1, <1>5, <1>7

LEMMA SavedOK ==
  ASSUME PeersInv, NEW k \in Keys, Saved(k)
  PROVE  EntriesOK(cache') /\ since' \in [Ips -> SUBSET Ips]
  <1>1. PICK c, d, n : c = cache /\ d = cache' /\ n = SlotOfEntry(c.entry, k)
    OBVIOUS
  <1>2. EntriesOK(c) /\ d = Save(c, k)
    BY <1>1 DEF Saved, PeersInv
  <1>3. /\ d = [entry |-> d.entry, clock |-> d.clock] /\ d.clock = Stamped(c.clock)
        /\ d.entry \in Seq(Entries) /\ Len(d.entry) <= CacheSize
        /\ n \in 1..Len(d.entry)
        /\ d.entry[n] = [key |-> k, used |-> Stamped(c.clock)]
        /\ \A m \in 1..Len(d.entry) : m # n => m \in 1..Len(c.entry) /\ d.entry[m] = c.entry[m]
    BY <1>1, <1>2, SaveIs
  <1>4. d.clock \in 0..ClockSize - 1
    BY <1>2, <1>3, StampedIs DEF EntriesOK
  <1>5. \A m \in 1..Len(c.entry) : m # n => IpOf(c.entry[m].key) # IpOf(k)
    <2>1. /\ c.entry \in Seq(Entries) /\ Len(c.entry) <= CacheSize
          /\ \A m, o \in 1..Len(c.entry) : IpOf(c.entry[m].key) = IpOf(c.entry[o].key) => m = o
      BY <1>2 DEF EntriesOK
    <2>2. \/ n \in 1..Len(c.entry) /\ IpOf(c.entry[n].key) = IpOf(k)
          \/ \A m \in 1..Len(c.entry) : IpOf(c.entry[m].key) # IpOf(k)
      BY <1>1, <2>1, SlotOfEntryIs
    <2> QED
      BY <2>1, <2>2
  <1>6. \A m, o \in 1..Len(d.entry) : IpOf(d.entry[m].key) = IpOf(d.entry[o].key) => m = o
    <2> SUFFICES ASSUME NEW m \in 1..Len(d.entry), NEW o \in 1..Len(d.entry),
                        IpOf(d.entry[m].key) = IpOf(d.entry[o].key)
                 PROVE  m = o
      OBVIOUS
    <2>1. d.entry[n].key = k
      BY <1>3
    <2>2. \A p \in 1..Len(d.entry) : p # n => IpOf(d.entry[p].key) # IpOf(k)
      BY <1>3, <1>5
    <2>3. CASE m = n \/ o = n
      BY <2>1, <2>2, <2>3
    <2>4. CASE m # n /\ o # n
      <3>1. /\ m \in 1..Len(c.entry) /\ o \in 1..Len(c.entry)
            /\ IpOf(c.entry[m].key) = IpOf(c.entry[o].key)
        BY <1>3, <2>4
      <3> QED
        BY <1>2, <3>1 DEF EntriesOK
    <2> QED
      BY <2>3, <2>4
  <1>7. since' \in [Ips -> SUBSET Ips]
    <2>1. IpOf(k) \in Ips
      BY DEF Ips
    <2>2. since \in [Ips -> SUBSET Ips]
      BY DEF PeersInv, RestOK
    <2>3. since' = [ip \in Ips |-> IF ip = IpOf(k) THEN {ip}
                      ELSE IF since[ip] = {} THEN {} ELSE since[ip] \cup {IpOf(k)}]
      BY DEF Saved
    <2>4. \A ip \in Ips : (IF ip = IpOf(k) THEN {ip} ELSE IF since[ip] = {} THEN {}
                           ELSE since[ip] \cup {IpOf(k)}) \in SUBSET Ips
      BY <2>1, <2>2
    <2> QED
      BY <2>3, <2>4
  <1>8. EntriesOK(d)
    BY <1>3, <1>4, <1>6 DEF EntriesOK
  <1> QED
    BY <1>1, <1>7, <1>8
-----------------------------------------------------------------------------
(***************************************************************************)
(* Updates that leave the queue, and the theorems.                         *)
(***************************************************************************)
\* The queue without its head, after the table has done what the head says.
LEMMA TailTells ==
  ASSUME PeersInv, queue # <<>>, queue' = Tail(queue), UNCHANGED server, unsure \subseteq unsure',
         NEW k, k = Head(queue).key,
         k \notin unsure' =>
            (k \in Held(table') <=> Head(queue).do = "add"),
         \A x \in Keys \ unsure' : x # k => (x \in Held(table') <=> x \in Held(table))
  PROVE  QueueOK' /\ QueueTells'
  <1>1. PICK q, t, a : q = queue /\ t = Tail(queue) /\ a = Len(t)
    OBVIOUS
  <1>2. /\ q \in Seq(Updates) /\ q # <<>> /\ t \in Seq(Updates) /\ Len(q) \in Nat /\ a \in Nat
        /\ a = Len(q) - 1 /\ \A i \in 1..a : t[i] = q[i + 1]
        /\ Head(q) = q[1] /\ Len(q) >= 1
    <2>1. q \in Seq(Updates) /\ q # <<>>
      BY <1>1 DEF PeersInv, QueueOK
    <2>2. /\ t \in Seq(Updates) /\ a = Len(q) - 1
          /\ \A i \in 1..a : t[i] = q[i + 1]
      BY <1>1, <2>1, HeadTailProperties
    <2>3. Len(q) \in Nat /\ a \in Nat /\ Head(q) = q[1]
      BY <1>1, <2>1, <2>2, LenProperties
    <2> QED
      BY <2>1, <2>2, <2>3
  <1>3. QueueOK'
    <2>1. Len(q) <= QueueDepth
      BY <1>1 DEF PeersInv, QueueOK
    <2>2. a <= QueueDepth
      BY <1>2, <2>1, PeersConstants
    <2> QED
      BY <1>1, <1>2, <2>2 DEF QueueOK
  <1>4. \A i \in 1..a : i + 1 \in 1..Len(q)
    BY <1>2
  <1>5. \A j \in 1..Len(q) : j # 1 => j - 1 \in 1..a /\ t[j - 1] = q[j]
    <2> TAKE j \in 1..Len(q)
    <2> SUFFICES ASSUME j # 1 PROVE j - 1 \in 1..a /\ t[j - 1] = q[j]
      OBVIOUS
    <2>1. j - 1 \in 1..a /\ (j - 1) + 1 = j
      BY <1>2
    <2> QED
      BY <1>2, <2>1
  <1>6. ASSUME NEW n \in 1..a, t[n].key \notin unsure', LastOf(t, n)
        PROVE  t[n].do = "add" <=> t[n].key \in server
    <2>1. n + 1 \in 1..Len(q) /\ q[n + 1] = t[n]
      BY <1>2, <1>4
    <2>2. LastOf(q, n + 1)
      <3> SUFFICES ASSUME NEW m \in 1..Len(q), q[m].key = q[n + 1].key PROVE m <= n + 1
        BY DEF LastOf
      <3>1. CASE m = 1
        BY <3>1
      <3>2. CASE m # 1
        <4>1. m - 1 \in 1..a /\ t[m - 1].key = t[n].key
          BY <1>5, <2>1, <3>2
        <4>2. m - 1 <= n
          BY <1>1, <1>6, <4>1 DEF LastOf
        <4> QED
          BY <4>1, <4>2
      <3> QED
        BY <3>1, <3>2
    <2>3. q[n + 1].key \notin unsure
      BY <1>6, <2>1
    <2>4. q[n + 1].do = "add" <=> q[n + 1].key \in server
      BY <1>1, <2>1, <2>2, <2>3 DEF PeersInv, QueueTells
    <2> QED
      BY <2>1, <2>4
  <1>7. ASSUME NEW x \in Keys \ unsure', ~Named(t, x)
        PROVE  x \in Held(table') <=> x \in server
    <2>1. \A j \in 1..Len(q) : j # 1 => q[j].key # x
      BY <1>1, <1>5, <1>7 DEF Named
    <2>2. x \notin unsure
      OBVIOUS
    <2>3. 1 \in 1..Len(q) /\ q[1].key = k
      BY <1>1, <1>2
    <2>4. CASE x = k
      <3>1. LastOf(q, 1)
        BY <2>1, <2>3, <2>4 DEF LastOf
      <3>2. q[1].do = "add" <=> x \in server
        BY <1>1, <2>2, <2>3, <2>4, <3>1 DEF PeersInv, QueueTells
      <3>3. x \in Held(table') <=> q[1].do = "add"
        BY <1>1, <1>2, <2>4
      <3> QED
        BY <3>2, <3>3
    <2>5. CASE x # k
      <3>1. ~Named(q, x)
        BY <2>1, <2>3, <2>5 DEF Named
      <3>2. x \in Held(table) <=> x \in server
        BY <1>1, <2>2, <3>1 DEF PeersInv, QueueTells
      <3> QED
        BY <2>5, <3>2
    <2> QED
      BY <2>4, <2>5
  <1>8. QueueTells'
    <2>1. Held(table)' = Held(table')
      BY DEF Held, Active
    <2> QED
      BY <1>1, <1>6, <1>7, <2>1 DEF QueueTells, LastOf, Named
  <1> QED
    BY <1>3, <1>8

LEMMA ProcessUpdateStep ==
  ASSUME PeersInv, ProcessUpdate
  PROVE  PeersInv'
  <1>1. PICK u, k : u = Head(queue) /\ k = u.key
    OBVIOUS
  <1>2. /\ queue # <<>> /\ queue' = Tail(queue)
        /\ IF u.do = "add" THEN AddPeer(k) ELSE RemovePeer(k)
        /\ UNCHANGED <<server, online, count>>
    BY <1>1 DEF ProcessUpdate
  <1>3. u.do \in {"add", "remove"} /\ k \in Keys
    <2>1. u \in Updates
      BY <1>1, <1>2, HeadTailProperties DEF PeersInv, QueueOK
    <2> QED
      BY <1>1, <2>1 DEF Updates
  <1>4. TableOK(table) /\ EntriesOK(cache) /\ unsure \subseteq Keys /\ since \in [Ips -> SUBSET Ips]
    BY DEF PeersInv, RestOK
  <1>5. /\ TableOK(table') /\ EntriesOK(cache') /\ since' \in [Ips -> SUBSET Ips]
        /\ unsure \subseteq unsure' /\ unsure' \subseteq Keys
        /\ k \notin unsure' => (k \in Held(table') <=> u.do = "add")
        /\ \A x \in Keys \ unsure' : x # k => (x \in Held(table') <=> x \in Held(table))
    <2>1. CASE u.do = "add"
      <3>1. AddPeer(k)
        BY <1>2, <2>1
      <3>2. CASE \E i \in SlotsFor(table, k) :
                   /\ table' = Placed(table, k, i) /\ Saved(k)
                   /\ unsure' = unsure \cup ({table.slot[i]} \ {k, NoKey})
        <4>1. PICK i \in SlotsFor(table, k) :
                   /\ table' = Placed(table, k, i) /\ Saved(k)
                   /\ unsure' = unsure \cup ({table.slot[i]} \ {k, NoKey})
          BY <3>2
        <4>2. EntriesOK(cache') /\ since' \in [Ips -> SUBSET Ips]
          BY <1>3, <4>1, SavedOK
        <4>3. /\ TableOK(Placed(table, k, i)) /\ i \in Slots
              /\ \A x \in Keys : x # table.slot[i] =>
                    (x \in Held(Placed(table, k, i)) <=> x \in Held(table) \/ x = k)
              /\ k \in Held(Placed(table, k, i))
          BY <1>3, <1>4, PlacedOK
        <4>4. table.slot[i] \in Keys \cup {NoKey}
          BY <1>4, <4>3 DEF TableOK, Tables
        <4>5. \A x \in Keys \ unsure' : x # k => x # table.slot[i]
          BY <4>1, PeersConstants
        <4> QED
          BY <1>4, <2>1, <4>1, <4>2, <4>3, <4>4, <4>5
      <3>3. CASE /\ SlotsFor(table, k) = {} /\ unsure' = unsure \cup {k}
                 /\ UNCHANGED <<table, cache, since>>
        BY <1>3, <1>4, <3>3
      <3> QED
        BY <3>1, <3>2, <3>3 DEF AddPeer
    <2>2. CASE u.do # "add"
      <3>1. RemovePeer(k)
        BY <1>2, <2>2
      <3>2. UNCHANGED <<cache, unsure, since>>
        BY <3>1 DEF RemovePeer
      <3>3. TableOK(table') /\ \A x \in Keys : x \in Held(table') <=> x \in Held(table) /\ x # k
        <4>1. CASE Found(table, k) = {}
          <5>1. table' = table /\ k \notin Held(table)
            BY <1>3, <1>4, <3>1, <4>1, NotFound DEF RemovePeer
          <5> QED
            BY <1>4, <5>1
        <4>2. CASE Found(table, k) # {}
          <5>1. PICK i : i = CHOOSE j \in Found(table, k) : TRUE
            OBVIOUS
          <5>2. i \in Found(table, k)
            BY <4>2, <5>1
          <5>3. table' = Compacted([table.slot EXCEPT ![i] = NoKey], table.count)
            BY <3>1, <4>2, <5>1 DEF RemovePeer
          <5> QED
            <6>1. PICK t, p : t = table /\ p = table'
              OBVIOUS
            <6>2. /\ TableOK(t) /\ i \in Found(t, k)
                  /\ p = Compacted([t.slot EXCEPT ![i] = NoKey], t.count)
              BY <1>4, <5>2, <5>3, <6>1
            <6>3. TableOK(p) /\ \A x \in Keys : x \in Held(p) <=> x \in Held(t) /\ x # k
              BY <1>3, <6>2, CompactedOK
            <6> QED
              BY <6>1, <6>3
        <4> QED
          BY <4>1, <4>2
      <3> QED
        BY <1>3, <1>4, <2>2, <3>2, <3>3
    <2> QED
      BY <2>1, <2>2
  <1>6. QueueOK' /\ QueueTells'
    BY <1>1, <1>2, <1>5, TailTells
  <1>7. RestOK' /\ ServerOK'
    BY <1>2, <1>5 DEF PeersInv, RestOK, ServerOK
  <1> QED
    BY <1>5, <1>6, <1>7 DEF PeersInv

LEMMA PeersInitially ==
  ASSUME PeersInit
  PROVE  PeersInv
  <1>1. ServerOK
    BY FS_EmptySet DEF PeersInit, ServerOK
  <1>2. queue = <<>> /\ QueueOK /\ Len(queue) = 0
    BY PeersConstants DEF PeersInit, QueueOK
  <1>3. /\ table = [slot |-> [i \in Slots |-> NoKey], count |-> 0]
        /\ \A i \in Slots : table.slot[i] = NoKey
    BY DEF PeersInit
  <1>4. TableOK(table)
    BY <1>3, PeersConstants DEF TableOK, Tables, Active
  <1>5. EntriesOK(cache)
    <2>1. cache = [entry |-> <<>>, clock |-> 0]
      BY DEF PeersInit
    <2>2. <<>> \in Seq(Entries) /\ Len(<<>>) = 0
      OBVIOUS
    <2> QED
      BY <2>1, <2>2, PeersConstants DEF EntriesOK
  <1>6. RestOK
    <2>1. count \in [changes : 0..MaxChanges, breaks : 0..MaxBreaks]
      BY PeersConstants DEF PeersInit
    <2>2. since \in [Ips -> SUBSET Ips]
      BY DEF PeersInit
    <2> QED
      BY <2>1, <2>2 DEF PeersInit, RestOK
  <1>7. QueueTells
    <2>1. Held(table) = {}
      BY <1>3 DEF Held, Active
    <2>2. server = {}
      BY DEF PeersInit
    <2> QED
      BY <1>2, <2>1, <2>2 DEF QueueTells
  <1> QED
    BY <1>1, <1>2, <1>4, <1>5, <1>6, <1>7 DEF PeersInv

LEMMA PeersSteps ==
  ASSUME PeersInv, [PeersNext]_peersVars
  PROVE  PeersInv'
  <1>1. CASE UNCHANGED peersVars
    BY <1>1 DEF peersVars, PeersInv, ServerOK, QueueOK, TableOK, EntriesOK, RestOK, QueueTells,
                Named, LastOf, Held, Active
  <1>2. CASE PeersNext
    BY <1>2, ReceiveListStep, LosesStreamStep, RebootStep, ProcessUpdateStep, JoinsStep, LeavesStep
    DEF PeersNext
  <1> QED
    BY <1>1, <1>2

\* The inductive invariant.
THEOREM PeersKept == PeersSpec => []PeersInv
  <1>1. PeersInv /\ [PeersNext]_peersVars => PeersInv'
    BY PeersSteps
  <1> QED
    BY <1>1, PeersInitially, PTL DEF PeersSpec

\* Every peer of the table is within peer_count, and has one slot.
THEOREM PeersAreFound == PeersSpec => []TableIsWhole
  <1>1. ASSUME PeersInv PROVE TableIsWhole
    <2>1. PeersTypeOK
      BY <1>1, PeersConstants
      DEF PeersTypeOK, PeersInv, ServerOK, QueueOK, TableOK, EntriesOK, RestOK, Updates, Tables,
          Entries
    <2>2. AllAreFound
      BY <1>1 DEF AllAreFound, PeersInv, TableOK
    <2> QED
      BY <2>1, <2>2 DEF TableIsWhole
  <1> QED
    BY <1>1, PeersKept, PTL

\* With an empty queue the table holds what the server does, of all the peers of
\* which no update was missed.
THEOREM PeersFollowServer == PeersSpec => []TableFollows
  <1>1. ASSUME PeersInv PROVE TableFollows
    <2>1. queue = <<>> => \A k : ~Named(queue, k)
      BY DEF Named
    <2> QED
      BY <1>1, <2>1 DEF TableFollows, PeersInv, QueueTells
  <1> QED
    BY <1>1, PeersKept, PTL
-----------------------------------------------------------------------------
(***************************************************************************)
(* The cache keeps the addresses saved last, while its clock has not       *)
(* wrapped.                                                                *)
(***************************************************************************)
\* The counters of the entries are in the order of the saves.
UsedInOrder ==
    LET e == cache.entry
    IN  /\ \A n \in 1..Len(e) : e[n].used <= cache.clock /\ since[IpOf(e[n].key)] # {}
        /\ \A m, n \in 1..Len(e) :
              e[m].used <= e[n].used /\ m # n => IpOf(e[n].key) \in since[IpOf(e[m].key)]
        /\ \A ip \in Ips : since[ip] # {} => ip \in since[ip]
LeftWithRoomOnly ==
    LET e == cache.entry
    IN  \A ip \in Ips :
           (\A n \in 1..Len(e) : IpOf(e[n].key) # ip) /\ since[ip] # {} =>
              Len(e) = CacheSize /\ \A n \in 1..Len(e) : IpOf(e[n].key) \in since[ip]

CacheInv == UsedInOrder /\ LeftWithRoomOnly

LEMMA SavedInOrder ==
  ASSUME PeersInv, CacheInv, NEW k \in Keys, Saved(k), cache.clock < ClockSize - 1
  PROVE  CacheInv'
  <1>1. PICK e, f, n, new, x : /\ e = cache.entry /\ f = cache'.entry /\ n = SlotOfEntry(e, k)
                               /\ new = [key |-> k, used |-> Stamped(cache.clock)] /\ x = IpOf(k)
    OBVIOUS
  <1>2. /\ EntriesOK(cache) /\ cache' = Save(cache, k) /\ x \in Ips
        /\ since' = [ip \in Ips |-> IF ip = x THEN {ip}
                       ELSE IF since[ip] = {} THEN {} ELSE since[ip] \cup {x}]
    BY <1>1 DEF Saved, PeersInv, Ips
  <1>3. /\ cache.clock \in Nat /\ Stamped(cache.clock) = cache.clock + 1
    BY <1>2, StampedIs, PeersConstants DEF EntriesOK
  <1>4. /\ cache'.clock = cache.clock + 1
        /\ f \in Seq(Entries) /\ Len(f) <= CacheSize
        /\ Len(f) = IF n > Len(e) THEN Len(e) + 1 ELSE Len(e)
        /\ n \in 1..Len(f) /\ f[n] = new
        /\ \A m \in 1..Len(f) : m # n => m \in 1..Len(e) /\ f[m] = e[m]
    <2>1. PICK c, d : c = cache /\ d = cache'
      OBVIOUS
    <2>2. EntriesOK(c) /\ n = SlotOfEntry(c.entry, k) /\ d = Save(c, k)
      BY <1>1, <1>2, <2>1
    <2>3. /\ d.clock = Stamped(c.clock)
          /\ d.entry \in Seq(Entries) /\ Len(d.entry) <= CacheSize
          /\ Len(d.entry) = IF n > Len(c.entry) THEN Len(c.entry) + 1 ELSE Len(c.entry)
          /\ n \in 1..Len(d.entry)
          /\ d.entry[n] = [key |-> k, used |-> Stamped(c.clock)]
          /\ \A m \in 1..Len(d.entry) : m # n => m \in 1..Len(c.entry) /\ d.entry[m] = c.entry[m]
      BY <2>2, SaveIs
    <2> QED
      BY <1>1, <1>3, <2>1, <2>3
  <1>5. new.key = k /\ new.used = cache.clock + 1
    BY <1>1, <1>3
  <1>6. /\ e \in Seq(Entries) /\ Len(e) \in Nat /\ Len(e) <= CacheSize /\ Len(f) \in Nat
        /\ \A m, o \in 1..Len(e) : IpOf(e[m].key) = IpOf(e[o].key) => m = o
        /\ \A m \in 1..Len(e) : e[m].used \in Nat /\ IpOf(e[m].key) \in Ips
    <2>1. /\ e \in Seq(Entries) /\ Len(e) <= CacheSize
          /\ \A m, o \in 1..Len(e) : IpOf(e[m].key) = IpOf(e[o].key) => m = o
      BY <1>1, <1>2 DEF EntriesOK
    <2>2. \A m \in 1..Len(e) : e[m] \in Entries
      BY <2>1, ElementOfSeq
    <2>3. \A m \in 1..Len(e) : e[m].used \in Nat /\ e[m].key \in Keys
      BY <2>2, PeersConstants DEF Entries
    <2>4. Len(e) \in Nat /\ Len(f) \in Nat
      BY <1>4, <2>1, LenProperties
    <2> QED
      BY <2>1, <2>3, <2>4 DEF Ips
  <1>7. \/ n \in 1..Len(e) /\ IpOf(e[n].key) = x
        \/ /\ \A m \in 1..Len(e) : IpOf(e[m].key) # x
           /\ \/ Len(e) < CacheSize /\ n = Len(e) + 1
              \/ /\ Len(e) = CacheSize /\ n \in 1..Len(e)
                 /\ \A m \in 1..Len(e) : e[n].used <= e[m].used
    BY <1>1, <1>6, SlotOfEntryIs
  <1>8. /\ \A m \in 1..Len(e) : e[m].used <= cache.clock /\ since[IpOf(e[m].key)] # {}
        /\ \A m, o \in 1..Len(e) :
              e[m].used <= e[o].used /\ m # o => IpOf(e[o].key) \in since[IpOf(e[m].key)]
        /\ \A ip \in Ips : since[ip] # {} => ip \in since[ip]
        /\ \A ip \in Ips :
              (\A m \in 1..Len(e) : IpOf(e[m].key) # ip) /\ since[ip] # {} =>
                 Len(e) = CacheSize /\ \A m \in 1..Len(e) : IpOf(e[m].key) \in since[ip]
    BY <1>1 DEF CacheInv, UsedInOrder, LeftWithRoomOnly
  <1>9. /\ \A ip \in Ips : since[ip] # {} => since'[ip] # {} /\ x \in since'[ip]
        /\ \A ip \in Ips : ip # x => /\ since[ip] \subseteq since'[ip]
                                     /\ since'[ip] # {} => since[ip] # {}
        /\ since'[x] = {x}
    BY <1>2
  \* No other entry has the address.
  <1>10. \A m \in 1..Len(f) : m # n => /\ m \in 1..Len(e) /\ f[m] = e[m] /\ IpOf(e[m].key) # x
    BY <1>4, <1>6, <1>7
  <1>11. ASSUME NEW m \in 1..Len(f)
         PROVE  f[m].used <= cache'.clock /\ since'[IpOf(f[m].key)] # {}
    <2>1. CASE m = n
      <3>1. f[m].used = cache.clock + 1 /\ f[m].key = k /\ since'[x] # {}
        BY <1>4, <1>5, <1>9, <2>1
      <3> QED
        BY <1>1, <1>3, <1>4, <3>1
    <2>2. CASE m # n
      <3>1. m \in 1..Len(e) /\ f[m] = e[m] /\ IpOf(e[m].key) \in Ips
        BY <1>6, <1>10, <2>2
      <3>2. since'[IpOf(e[m].key)] # {}
        BY <1>8, <1>9, <3>1
      <3>3. e[m].used <= cache.clock + 1
        BY <1>3, <1>6, <1>8, <3>1
      <3> QED
        BY <1>4, <3>1, <3>2, <3>3
    <2> QED
      BY <2>1, <2>2
  <1>12. ASSUME NEW m \in 1..Len(f), NEW o \in 1..Len(f), f[m].used <= f[o].used, m # o
         PROVE  IpOf(f[o].key) \in since'[IpOf(f[m].key)]
    <2>1. CASE o = n
      <3>1. m \in 1..Len(e) /\ f[m] = e[m] /\ IpOf(e[m].key) \in Ips
        BY <1>6, <1>10, <1>12, <2>1
      <3>2. x \in since'[IpOf(e[m].key)]
        BY <1>8, <1>9, <3>1
      <3> QED
        BY <1>1, <1>4, <1>5, <2>1, <3>1, <3>2
    <2>2. CASE m = n
      <3>1. o \in 1..Len(e) /\ f[o] = e[o]
        BY <1>10, <1>12, <2>2
      <3>2. e[o].used <= cache.clock /\ e[o].used \in Nat /\ f[n].used = cache.clock + 1
        BY <1>4, <1>5, <1>6, <1>8, <3>1
      <3> QED
        BY <1>3, <1>12, <2>2, <3>1, <3>2
    <2>3. CASE m # n /\ o # n
      <3>1. /\ m \in 1..Len(e) /\ f[m] = e[m] /\ o \in 1..Len(e) /\ f[o] = e[o]
            /\ IpOf(e[m].key) \in Ips /\ IpOf(e[m].key) # x
        BY <1>6, <1>10, <2>3
      <3>2. IpOf(e[o].key) \in since[IpOf(e[m].key)]
        BY <1>8, <1>12, <3>1
      <3> QED
        BY <1>9, <3>1, <3>2
    <2> QED
      BY <2>1, <2>2, <2>3
  <1>13. \A ip \in Ips : since'[ip] # {} => ip \in since'[ip]
    BY <1>2, <1>8
  <1>14. ASSUME NEW ip \in Ips, \A m \in 1..Len(f) : IpOf(f[m].key) # ip, since'[ip] # {}
         PROVE  Len(f) = CacheSize /\ \A m \in 1..Len(f) : IpOf(f[m].key) \in since'[ip]
    <2>1. ip # x /\ since[ip] # {} /\ since[ip] \subseteq since'[ip] /\ x \in since'[ip]
      <3>1. IpOf(f[n].key) = x
        BY <1>1, <1>4, <1>5
      <3>2. ip # x
        BY <1>4, <1>14, <3>1
      <3> QED
        BY <1>9, <1>14, <3>2
    <2>2. /\ Len(f) = CacheSize
          /\ \A m \in 1..Len(e) : m # n => IpOf(e[m].key) \in since[ip]
      <3>1. CASE \A m \in 1..Len(e) : IpOf(e[m].key) # ip
        <4>1. Len(e) = CacheSize /\ \A m \in 1..Len(e) : IpOf(e[m].key) \in since[ip]
          BY <1>8, <2>1, <3>1
        <4>2. Len(f) = CacheSize
          BY <1>4, <1>6, <4>1, PeersConstants
        <4> QED
          BY <4>1, <4>2
      <3>2. CASE \E m \in 1..Len(e) : IpOf(e[m].key) = ip
        <4>1. PICK m \in 1..Len(e) : IpOf(e[m].key) = ip
          BY <3>2
        \* The entry was there, and has been overwritten: it was the least used.
        <4>2. m = n
          <5> SUFFICES ASSUME m # n PROVE FALSE
            OBVIOUS
          <5>1. m \in 1..Len(f)
            BY <1>4, <1>6, <4>1
          <5>2. f[m] = e[m]
            BY <1>10, <5>1
          <5> QED
            BY <1>14, <4>1, <5>1, <5>2
        <4>3. /\ Len(e) = CacheSize
              /\ \A o \in 1..Len(e) : e[n].used <= e[o].used
          BY <1>6, <1>7, <2>1, <4>1, <4>2
        <4>4. Len(f) = CacheSize
          BY <1>4, <1>6, <4>1, <4>2, <4>3
        <4> QED
          BY <1>8, <4>1, <4>2, <4>3, <4>4
      <3> QED
        BY <3>1, <3>2
    <2>3. ASSUME NEW m \in 1..Len(f)
          PROVE  IpOf(f[m].key) \in since'[ip]
      <3>1. CASE m = n
        BY <1>1, <1>4, <1>5, <2>1, <3>1
      <3>2. CASE m # n
        BY <1>10, <2>1, <2>2, <3>2
      <3> QED
        BY <3>1, <3>2
    <2> QED
      BY <2>2, <2>3
  <1>15. UsedInOrder'
    BY <1>1, <1>11, <1>12, <1>13 DEF UsedInOrder
  <1>16. LeftWithRoomOnly'
    BY <1>1, <1>14 DEF LeftWithRoomOnly
  <1> QED
    BY <1>15, <1>16 DEF CacheInv

LEMMA CacheSteps ==
  ASSUME ~ClockWraps, PeersInv, CacheInv, [PeersNext]_peersVars
  PROVE  CacheInv'
  <1>1. CASE UNCHANGED <<cache, since>>
    BY <1>1 DEF CacheInv, UsedInOrder, LeftWithRoomOnly
  <1>2. ASSUME NEW k \in Keys, AddPeer(k) PROVE CacheInv'
    <2>1. cache.clock < ClockSize - 1
      BY <1>2 DEF AddPeer
    <2>2. CASE Saved(k)
      BY <2>1, <2>2, SavedInOrder
    <2> QED
      BY <1>1, <1>2, <2>2 DEF AddPeer
  <1>3. ASSUME ProcessUpdate PROVE CacheInv'
    <2>1. PICK u : u = Head(queue)
      OBVIOUS
    <2>2. u.key \in Keys
      <3>1. u \in Updates
        BY <1>3, <2>1, HeadTailProperties DEF ProcessUpdate, PeersInv, QueueOK
      <3> QED
        BY <3>1 DEF Updates
    <2>3. AddPeer(u.key) \/ RemovePeer(u.key)
      BY <1>3, <2>1 DEF ProcessUpdate
    <2> QED
      BY <1>1, <1>2, <2>2, <2>3 DEF RemovePeer
  <1>4. CASE PeersNext
    <2>1. CASE ReceiveList \/ LosesStream \/ Reboot
      BY <1>1, <2>1 DEF ReceiveList, LosesStream, Reboot
    <2>2. CASE \E k \in Keys : Joins(k) \/ Leaves(k)
      BY <1>1, <2>2 DEF Joins, Leaves, Changed
    <2> QED
      BY <1>3, <1>4, <2>1, <2>2 DEF PeersNext
  <1> QED
    BY <1>1, <1>4 DEF peersVars

\* The entries of the cache are of the addresses saved last, one each.
THEOREM PeersCachedAreRecent ==
  ASSUME ~ClockWraps
  PROVE  PeersSpec => []CacheIsRecent
  <1>1. PeersInit => CacheInv
    <2> SUFFICES ASSUME PeersInit PROVE CacheInv
      OBVIOUS
    <2>1. Len(cache.entry) = 0 /\ since = [ip \in Ips |-> {}]
      BY DEF PeersInit
    <2> QED
      BY <2>1 DEF CacheInv, UsedInOrder, LeftWithRoomOnly
  <1>2. PeersInv /\ CacheInv /\ [PeersNext]_peersVars => CacheInv'
    BY CacheSteps
  <1>3. ASSUME PeersInv, CacheInv PROVE CacheIsRecent
    <2>1. PICK e, kept : e = cache.entry /\ kept = {IpOf(e[n].key) : n \in DOMAIN e}
      OBVIOUS
    <2>2. /\ e \in Seq(Entries) /\ DOMAIN e = 1..Len(e)
          /\ \A m, n \in 1..Len(e) : IpOf(e[m].key) = IpOf(e[n].key) => m = n
      BY <1>3, <2>1, LenProperties DEF PeersInv, EntriesOK
    <2>3. \A ip \in kept : since[ip] # {}
      BY <1>3, <2>1, <2>2 DEF CacheInv, UsedInOrder
    <2>4. ASSUME NEW ip \in Ips \ kept, since[ip] # {}
          PROVE  Len(e) = CacheSize /\ kept \subseteq since[ip]
      BY <1>3, <2>1, <2>2, <2>4 DEF CacheInv, LeftWithRoomOnly
    <2> QED
      BY <2>1, <2>2, <2>3, <2>4 DEF CacheIsRecent
  <1> QED
    BY <1>1, <1>2, <1>3, PeersKept, PTL DEF PeersSpec
=============================================================================
