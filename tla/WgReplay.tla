------------------------------ MODULE WgReplay ------------------------------
(***************************************************************************)
(* The replay window of a WireGuard receiver: wireguard_check_replay of    *)
(* wireguard.c.  The 64-bit replay_counter is a natural number and the     *)
(* 32-bit replay_bitmap is the set of the positions of its one bits; bit b *)
(* stands for the counter replay_counter - b.  The code keeps the distance *)
(* of two 64-bit counters in a uint32_t, so a distance is taken modulo     *)
(* Modulus (2^32 in the code).  The wrap of seq + 1 to zero, after 2^64    *)
(* packets, is out of range.                                               *)
(***************************************************************************)
EXTENDS Naturals

CONSTANTS Window,   \* the bits of replay_bitmap (32)
          Modulus   \* the values of the uint32_t that holds a distance (2^32)

ASSUME WindowAssumption == /\ Window \in Nat \ {0}
                           /\ Modulus \in Nat
                           /\ Modulus >= Window

\* The counter and the bitmap of a new keypair.
EmptyWindow == [counter |-> 0, bitmap |-> {}]

Windows == [counter : Nat, bitmap : SUBSET (0 .. Window - 1)]

\* diff: the distance of two counters, cut to 32 bits.
Distance(high, low) == (high - low) % Modulus

\* A left shift drops the bits that leave the word.
ShiftLeft(bitmap, d) == {b \in d .. Window - 1 : b - d \in bitmap}

\* What the window makes of the sequence number seq (the packet's counter
\* plus one): whether it is new, and the window after it.
Fresh(w, seq) ==
    \/ seq > w.counter
    \/ /\ Distance(w.counter, seq) < Window
       /\ Distance(w.counter, seq) \notin w.bitmap

Advance(w, seq) ==
    LET d == Distance(seq, w.counter) IN
    [counter |-> seq,
     bitmap  |-> IF d < Window THEN ShiftLeft(w.bitmap, d) \cup {0} ELSE {0}]

Mark(w, seq) ==
    [w EXCEPT !.bitmap = @ \cup {Distance(w.counter, seq)}]

Checked(w, seq) ==
    CASE ~ Fresh(w, seq)  -> w
      [] seq > w.counter  -> Advance(w, seq)
      [] OTHER            -> Mark(w, seq)
=============================================================================
