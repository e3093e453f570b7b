---------------------------- MODULE ReplayWindow ----------------------------
(***************************************************************************)
(* ReplayWindow.Accept (pkg/security/session.go) with its integers: an     *)
(* unsigned mask of W bits that is shifted, tested and set, and unsigned   *)
(* sequence numbers up to MaxSeq.  Any sequence number may arrive next.    *)
(***************************************************************************)
EXTENDS SlidingWindow

VARIABLES initialized, max, bits

(* 1 << n, as a function so that it can be reasoned about. *)
Pow2[n \in Nat] == IF n = 0 THEN 1 ELSE 2 * Pow2[n - 1]

vars == <<initialized, max, bits>>

TypeOK ==
  /\ initialized \in BOOLEAN
  /\ max \in 0..MaxSeq
  /\ bits \in 0..(Pow2[W] - 1)

Init ==
  /\ initialized = FALSE
  /\ max = 0
  /\ bits = 0

(* Mutant: a mask kept in a word wider than the window. *)
ShiftInWider(b, n) == b * Pow2[n] + 1

(* (bits << n) | 1 in a W-bit word: the low bit is free after n >= 1. *)
ShiftIn(b, n) == (b * Pow2[n] + 1) % Pow2[W]

BitSet(b, n) == (b \div Pow2[n]) % 2 = 1

(* Mutant: the comparison of delta with the width off by one. *)
ReturnsOneTooFar(seq) ==
  \/ ~initialized
  \/ seq > max
  \/ seq <= max /\ max - seq <= W /\ ~BitSet(bits, max - seq)

(* The boolean Accept returns. *)
Returns(seq) ==
  \/ ~initialized
  \/ seq > max
  \/ seq <= max /\ max - seq < W /\ ~BitSet(bits, max - seq)

(* The mask Accept leaves when it returns true. *)
MaskAfter(seq) ==
  IF ~initialized THEN 1
  ELSE IF seq > max
    THEN IF seq - max >= W THEN 1 ELSE ShiftIn(bits, seq - max)
  ELSE bits + Pow2[max - seq]

MaxAfter(seq) == IF ~initialized \/ seq > max THEN seq ELSE max

Accept(seq) ==
  /\ Returns(seq)
  /\ initialized' = TRUE
  /\ max' = MaxAfter(seq)
  /\ bits' = MaskAfter(seq)

Refuse(seq) == ~Returns(seq) /\ UNCHANGED vars

Next == \E seq \in Seqs : Accept(seq) \/ Refuse(seq)

Spec == Init /\ [][Next]_vars

-----------------------------------------------------------------------------
(* The mask read as the set of offsets that were accepted. *)
AsWindow(i, m, b) ==
  [initialized |-> i, max |-> m, bits |-> {n \in 0..(W - 1) : BitSet(b, n)}]

(* Shifting, masking and the two comparisons with W compute exactly the     *)
(* sliding set of offsets the session model and its proofs use: the same   *)
(* verdict on every sequence number, and the same window afterwards.       *)
ArithmeticIsSlidingWindow ==
  LET window == AsWindow(initialized, max, bits) IN
    \A seq \in Seqs :
      /\ Returns(seq) <=> Fresh(window, seq)
      /\ Returns(seq) =>
           AsWindow(TRUE, MaxAfter(seq), MaskAfter(seq)) = Commit(window, seq)
=============================================================================
