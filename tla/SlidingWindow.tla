--------------------------- MODULE SlidingWindow ---------------------------
(***************************************************************************)
(* The replay filter of pkg/security/session.go as a value: a record that  *)
(* one operator inspects and another updates.  The code's 64-bit mask is   *)
(* the set of offsets (distance below max) whose bit is one;               *)
(* ReplayWindow.tla keeps the integer arithmetic and is checked to         *)
(* implement these operators.                                              *)
(***************************************************************************)
EXTENDS Integers

CONSTANTS
  W,        \* bits in the mask, 64 in the code
  MaxSeq    \* the largest sequence number, math.MaxUint32 in the code

ASSUME WindowAssumption == W \in Nat \ {0} /\ MaxSeq \in Nat \ {0}

Seqs == 1..MaxSeq

Window == [initialized : BOOLEAN, max : 0..MaxSeq, bits : SUBSET (0..(W - 1))]

EmptyWindow == [initialized |-> FALSE, max |-> 0, bits |-> {}]

(* Mutants: a shift that forgets to drop what left the mask, and one by a  *)
(* place too few.                                                          *)
SlidTooFar(bits, n) == {b + n : b \in bits}
SlidShort(bits, n) == {b \in 0..(W - 1) : b + 1 >= n /\ b + 1 - n \in bits}

(* The offsets after the mask moved up by n: those shifted past W fall out. *)
Slid(bits, n) == {b \in 0..(W - 1) : b >= n /\ b - n \in bits}

(* Does Accept return true for sequence number s? *)
Fresh(win, s) ==
  \/ ~win.initialized
  \/ s > win.max
  \/ win.max - s < W /\ win.max - s \notin win.bits

(* Mutant: a packet older than max is accepted without being recorded. *)
CommitForgetsOld(win, s) ==
  IF ~win.initialized \/ s > win.max
    THEN [initialized |-> TRUE, max |-> s,
          bits |-> Slid(win.bits, s - win.max) \cup {0}]
  ELSE win

(* The window after Accept returned true for s. *)
Commit(win, s) ==
  IF ~win.initialized
    THEN [initialized |-> TRUE, max |-> s, bits |-> {0}]
  ELSE IF s > win.max
    THEN [initialized |-> TRUE, max |-> s,
          bits |-> Slid(win.bits, s - win.max) \cup {0}]
  ELSE [win EXCEPT !.bits = @ \cup {win.max - s}]
=============================================================================
