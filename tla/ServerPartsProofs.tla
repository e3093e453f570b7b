-------------------------- MODULE ServerPartsProofs --------------------------
(***************************************************************************)
(* Proofs about ServerParts.  Punching: for any set of goroutines and of   *)
(* targets, and any length of a burst, a session has at most one worker.   *)
(* The replay filter: for a word of any width its arithmetic is the        *)
(* sliding window.  PROXY sources: for any sources, trusted or not, any    *)
(* clients, and a table of any size, what a session is told of its path    *)
(* does not depend on what the table remembers.                            *)
(*                                                                         *)
(* OneWorker is not inductive: a second worker appears two steps after the *)
(* handler has decided that one is needed.  What makes the decision safe   *)
(* is that the flag punchWorker stands for "one runs or is about to be     *)
(* started", which TypeOK says, and that never both are the case.          *)
(*                                                                         *)
(* The filter's property follows from the range of its mask alone, but     *)
(* needs to know which bits a shift, a truncation and an addition set.     *)
(* The library's induction theorems take an operator, so what is known of  *)
(* powers of two comes from least counterexamples: the numbers for which a *)
(* claim fails, if there are any, have a least one (LeastNat).             *)
(*                                                                         *)
(* PathToldRight speaks of datagrams yet to come, so it lacks what the     *)
(* table and the sessions owe to those that came: a source in the table as *)
(* proxied is trusted, and as long as one client used it the address kept  *)
(* with it is that client's (TableTrue); and a session holds the source    *)
(* and the address it was made under, which were trusted (SessionTrue).    *)
(* Order and size of the table play no part in it, only in the types.      *)
(***************************************************************************)
EXTENDS ServerParts, FiniteSetTheorems, SequenceTheorems, WellFoundedInduction, TLAPS

Alone == \A k, l \in Running : k = l
Promised == startWorker => Running = {}

IInv == TypeOK /\ Alone /\ Promised

(* What is left of a burst is counted down from Burst, and not from zero.  *)
LEMMA BurstRange == {0, Burst} \subseteq 0..Burst /\ Burst # 0
BY PunchWorkerAssumption

(* The initial states satisfy the inductive invariant.                     *)
LEMMA InitIInv == Init => IInv
<1> SUFFICES ASSUME Init PROVE IInv
  OBVIOUS
<1>1. Running = {}
  BY DEF Init, Running
<1>2. TypeOK
  <2>1. /\ left \in [Workers -> 0..Burst]
        /\ target \in [Workers -> Targets \cup {NoTarget}]
    BY BurstRange DEF Init
  <2>2. inits \in 0..MaxInits
    BY PunchWorkerAssumption DEF Init
  <2> QED
    BY <1>1, <2>1, <2>2 DEF Init, TypeOK
<1> QED
  BY <1>1, <1>2 DEF IInv, Alone, Promised

(* A worker that leaves was the only one, and nobody has been told to      *)
(* start another: the flag it clears is right.                             *)
LEMMA ExitIInv ==
  ASSUME IInv, NEW k \in Workers, worker[k] = "select", Exit(k)
  PROVE  IInv'
<1>1. k \in Running
  BY DEF Running
<1>2. Running = {k} /\ ~startWorker
  BY <1>1 DEF IInv, Alone, Promised
<1>3. Running' = {}
  BY <1>2 DEF Running, Exit, IInv, TypeOK
<1>4. TypeOK'
  BY <1>2, <1>3 DEF IInv, TypeOK, Exit, handlerVars, endVars
<1> QED
  BY <1>3, <1>4 DEF IInv, Alone, Promised

(* Every step of the specification preserves it.                           *)
LEMMA NextIInv == IInv /\ [Next]_vars => IInv'
<1> SUFFICES ASSUME IInv, [Next]_vars PROVE IInv'
  OBVIOUS
<1> USE PunchWorkerAssumption DEF IInv, handlerVars, sessVars, endVars, workerVars
<1>1. CASE Open
  BY <1>1 DEF Open, TypeOK, Alone, Promised, Running
<1>2. ASSUME NEW t \in Targets, PunchInit(t) PROVE IInv'
  BY <1>2 DEF PunchInit, NeedsWorker, FlagAfterInit, TypeOK, Alone, Promised, Running
<1>3. CASE Signal
  BY <1>3 DEF Signal, SignalOnce, TypeOK, Alone, Promised, Running
<1>4. CASE Start
  <2>1. PICK k \in Workers : worker' = [worker EXCEPT ![k] = "select"]
    BY <1>4 DEF Start
  <2>2. Running = {} /\ punchWorker
    BY <1>4 DEF Start, Promised, TypeOK
  <2>3. Running' = {k}
    BY <2>1, <2>2 DEF Running, TypeOK
  <2>4. TypeOK'
    BY <1>4, <2>1, <2>2, <2>3 DEF Start, TypeOK, Running
  <2> QED
    BY <1>4, <2>3, <2>4 DEF Start, Alone, Promised
<1>5. CASE StartRefused
  BY <1>5 DEF StartRefused, TypeOK, Alone, Promised, Running
<1>6. CASE NoStart
  BY <1>6 DEF NoStart, TypeOK, Alone, Promised, Running
<1>7. ASSUME NEW k \in Workers, Work(k) PROVE IInv'
  <2>1. CASE SeesDone(k)
    BY <2>1, ExitIInv DEF SeesDone
  <2>2. CASE TickInactive(k)
    BY <2>2, ExitIInv DEF TickInactive
  <2>3. CASE Tick(k)
    <3>1. Running' = Running
      BY <2>3 DEF Tick, Running, TypeOK
    <3>2. punchTarget \in Targets
      BY <2>3 DEF Tick, TickActive, Active, TypeOK
    <3>3. TypeOK'
      BY <2>3, <3>1, <3>2 DEF Tick, TypeOK
    <3> QED
      BY <2>3, <3>1, <3>3 DEF Tick, Alone, Promised
  <2>4. CASE TickSend(k)
    <3>1. Running' = Running
      BY <2>4 DEF TickSend, Running, TypeOK
    <3>2. TypeOK'
      BY <2>4, <3>1 DEF TickSend, TypeOK
    <3> QED
      BY <2>4, <3>1, <3>2 DEF TickSend, Alone, Promised
  <2>5. CASE Woken(k)
    <3>1. Running' = Running
      BY <2>5 DEF Woken, Running, TypeOK
    <3>2. /\ left' \in [Workers -> 0..Burst]
          /\ \A l \in Workers : left'[l] # 0 <=> worker'[l] \in {"burst", "sendBurst"}
      BY <2>5, BurstRange DEF Woken, TypeOK
    <3>3. TypeOK'
      BY <2>5, <3>1, <3>2 DEF Woken, TypeOK
    <3> QED
      BY <2>5, <3>1, <3>3 DEF Woken, Alone, Promised
  <2>6. CASE BurstCopy(k)
    <3>1. Running' = Running
      BY <2>6 DEF BurstCopy, Running, TypeOK
    <3>2. punchTarget \in Targets
      BY <2>6 DEF BurstCopy, Active, TypeOK
    <3>3. TypeOK'
      BY <2>6, <3>1, <3>2 DEF BurstCopy, TypeOK
    <3> QED
      BY <2>6, <3>1, <3>3 DEF BurstCopy, Alone, Promised
  <2>7. CASE BurstEnds(k)
    <3>1. Running' = Running
      BY <2>7 DEF BurstEnds, Running, TypeOK
    <3>2. TypeOK'
      BY <2>7, <3>1 DEF BurstEnds, TypeOK
    <3> QED
      BY <2>7, <3>1, <3>2 DEF BurstEnds, Alone, Promised
  <2>8. CASE BurstSend(k)
    <3>1. left[k] \in 1..Burst
      BY <2>8 DEF BurstSend, TypeOK
    <3>2. /\ left'[k] = left[k] - 1
          /\ worker'[k] \in {"select", "burst"}
          /\ worker'[k] = "burst" <=> left'[k] # 0
      BY <2>8, <3>1 DEF BurstSend, TypeOK
    <3>3. Running' = Running
      BY <2>8, <3>2 DEF BurstSend, Running, TypeOK
    <3>4. TypeOK'
      BY <2>8, <3>1, <3>2, <3>3 DEF BurstSend, TypeOK
    <3> QED
      BY <2>8, <3>3, <3>4 DEF BurstSend, Alone, Promised
  <2> QED
    BY <1>7, <2>1, <2>2, <2>3, <2>4, <2>5, <2>6, <2>7, <2>8 DEF Work
<1>8. CASE WindowCloses
  BY <1>8 DEF WindowCloses, TypeOK, Alone, Promised, Running
<1>9. CASE CloseSession
  BY <1>9 DEF CloseSession, TypeOK, Alone, Promised, Running
<1>10. CASE CloseGate
  BY <1>10 DEF CloseGate, TypeOK, Alone, Promised, Running
<1>11. CASE Cancel
  BY <1>11 DEF Cancel, TypeOK, Alone, Promised, Running
<1>12. CASE UNCHANGED vars
  BY <1>12 DEF vars, TypeOK, Alone, Promised, Running
<1> QED
  BY <1>1, <1>2, <1>3, <1>4, <1>5, <1>6, <1>7, <1>8, <1>9, <1>10, <1>11, <1>12
  DEF Next, Handle, Ended

(* One at most is one of the lot.                                          *)
LEMMA AloneIsOne == Alone => OneWorker
<1> SUFFICES ASSUME Alone PROVE Cardinality(Running) <= 1
  BY DEF OneWorker
<1>1. CASE Running = {}
  BY <1>1, FS_EmptySet
<1>2. CASE Running # {}
  <2>1. PICK k : Running = {k}
    BY <1>2 DEF Alone
  <2> QED
    BY <2>1, FS_Singleton
<1> QED
  BY <1>1, <1>2

-----------------------------------------------------------------------------
(* A set of numbers that is not empty has a least one. *)
LEMMA LeastNat ==
  ASSUME NEW T \in SUBSET Nat, T # {}
  PROVE  \E n \in T : \A m \in T : n <= m
<1> DEFINE R == OpToRel(<, Nat)
<1>1. IsWellFoundedOn(R, Nat)
  BY NatLessThanWellFounded
<1>2. \A x, y \in Nat : y < x => <<y, x>> \in R
  BY DEF OpToRel
<1>3. T \subseteq Nat
  OBVIOUS
<1> HIDE DEF R
<1>4. \E x \in T : \A y \in T : ~(<<y, x>> \in R)
  BY <1>1, <1>3, WFMin
<1>5. PICK n \in T : \A m \in T : ~(<<m, n>> \in R)
  BY <1>4
<1>6. ASSUME NEW m \in T PROVE ~(m < n)
  BY <1>2, <1>3, <1>5
<1>7. \A m \in T : n <= m
  BY <1>3, <1>6
<1> QED
  BY <1>5, <1>7

(* The first m + 1 powers of two. *)
Doubles(f, m) ==
  /\ f \in [0..m -> Nat] /\ f[0] = 1
  /\ \A i \in 1..m : f[i] = 2 * f[i - 1]

(* There are such powers ... *)
LEMMA DoublesExist == \A m \in Nat : \E f : Doubles(f, m)
<1> DEFINE T == {m \in Nat : ~ \E f : Doubles(f, m)}
<1> SUFFICES ASSUME T # {} PROVE FALSE
  OBVIOUS
<1>1. PICK m \in T : \A k \in T : m <= k
  BY LeastNat
<1>2. CASE m = 0
  <2>1. Doubles([i \in 0..0 |-> 1], 0)
    BY DEF Doubles
  <2> QED
    BY <1>1, <1>2, <2>1
<1>3. CASE m # 0
  <2>1. m - 1 \in Nat /\ m \in Nat /\ m - 1 < m
    BY <1>1, <1>3
  <2>2. m - 1 \notin T
    BY <1>1, <2>1
  <2>3. PICK f : Doubles(f, m - 1)
    BY <2>1, <2>2
  <2> DEFINE g == [i \in 0..m |-> IF i < m THEN f[i] ELSE 2 * f[m - 1]]
  <2>4. Doubles(g, m)
    BY <2>1, <2>3 DEF Doubles
  <2> QED
    BY <1>1, <2>4
<1> QED
  BY <1>2, <1>3

(* ... and they do not depend on how many there are, ... *)
LEMMA DoublesAgree ==
  ASSUME NEW m \in Nat, NEW f, Doubles(f, m), NEW n \in Nat, NEW g, Doubles(g, n),
         NEW i \in Nat, i <= m, i <= n
  PROVE  f[i] = g[i]
<1> DEFINE T == {j \in Nat : j <= m /\ j <= n /\ f[j] # g[j]}
<1> SUFFICES ASSUME T # {} PROVE FALSE
  OBVIOUS
<1>1. PICK k \in T : \A j \in T : k <= j
  BY LeastNat
<1>2. k # 0
  BY <1>1 DEF Doubles
<1>3. k - 1 \in Nat /\ k - 1 < k /\ k \in 1..m /\ k \in 1..n
  BY <1>1, <1>2
<1>4. f[k - 1] = g[k - 1]
  BY <1>1, <1>3
<1> QED
  BY <1>1, <1>3, <1>4 DEF Doubles

(* ... so that the recursive definition defines something. *)
LEMMA Pow2Rec ==
  /\ Replay!Pow2[0] = 1
  /\ \A n \in Nat : Replay!Pow2[n + 1] = 2 * Replay!Pow2[n]
<1> DEFINE F(n) == CHOOSE f : Doubles(f, n)
           P == [n \in Nat |-> F(n)[n]]
<1>1. \A n \in Nat : Doubles(F(n), n)
  BY DoublesExist
<1> HIDE DEF F
<1>2. P[0] = 1
  BY <1>1 DEF Doubles
<1>3. ASSUME NEW n \in Nat \ {0} PROVE P[n] = 2 * P[n - 1]
  <2>1. n - 1 \in Nat /\ n \in 1..n
    OBVIOUS
  <2>2. F(n)[n] = 2 * F(n)[n - 1]
    BY <1>1, <2>1 DEF Doubles
  <2>3. F(n)[n - 1] = F(n - 1)[n - 1]
    BY <1>1, <2>1, DoublesAgree
  <2> QED
    BY <2>1, <2>2, <2>3
<1>4. P = [n \in Nat |-> IF n = 0 THEN 1 ELSE 2 * P[n - 1]]
  BY <1>2, <1>3
<1> HIDE DEF P
<1>5. Replay!Pow2 = [n \in Nat |-> IF n = 0 THEN 1 ELSE 2 * Replay!Pow2[n - 1]]
  BY <1>4 DEF Replay!Pow2
<1> QED
  BY <1>5

(* A power of two is a number, and not zero. *)
LEMMA Pow2Type == \A n \in Nat : Replay!Pow2[n] \in Nat \ {0}
<1> DEFINE T == {m \in Nat : Replay!Pow2[m] \notin Nat \ {0}}
<1> SUFFICES ASSUME T # {} PROVE FALSE
  OBVIOUS
<1>1. PICK m \in T : \A k \in T : m <= k
  BY LeastNat
<1>2. m # 0
  BY <1>1, Pow2Rec
<1>3. m - 1 \in Nat /\ m - 1 < m /\ (m - 1) + 1 = m
  BY <1>1, <1>2
<1>4. Replay!Pow2[m - 1] \in Nat \ {0}
  BY <1>1, <1>3
<1>5. Replay!Pow2[m] = 2 * Replay!Pow2[m - 1]
  BY <1>3, Pow2Rec
<1> QED
  BY <1>1, <1>4, <1>5

(* Powers multiply as exponents add. *)
LEMMA Pow2Add == \A n, k \in Nat : Replay!Pow2[n + k] = Replay!Pow2[n] * Replay!Pow2[k]
<1> SUFFICES ASSUME NEW n \in Nat
             PROVE  \A k \in Nat : Replay!Pow2[n + k] = Replay!Pow2[n] * Replay!Pow2[k]
  OBVIOUS
<1> DEFINE T == {k \in Nat : Replay!Pow2[n + k] # Replay!Pow2[n] * Replay!Pow2[k]}
<1> SUFFICES ASSUME T # {} PROVE FALSE
  OBVIOUS
<1>1. PICK k \in T : \A j \in T : k <= j
  BY LeastNat
<1>2. k # 0
  BY <1>1, Pow2Rec, Pow2Type
<1> DEFINE j == k - 1
<1>3. j \in Nat /\ j < k /\ j + 1 = k /\ n + k = (n + j) + 1 /\ n + j \in Nat
  BY <1>1, <1>2
<1>4. Replay!Pow2[n + j] = Replay!Pow2[n] * Replay!Pow2[j]
  BY <1>1, <1>3
<1>5. Replay!Pow2[k] = 2 * Replay!Pow2[j] /\ Replay!Pow2[n + k] = 2 * Replay!Pow2[n + j]
  BY <1>3, Pow2Rec
<1>6. Replay!Pow2[n] \in Nat /\ Replay!Pow2[j] \in Nat
  BY <1>3, Pow2Type
<1> HIDE DEF j
<1>7. \A a, b \in Nat : 2 * (a * b) = a * (2 * b)
  OBVIOUS
<1> QED
  BY <1>1, <1>4, <1>5, <1>6, <1>7

(* What a quotient is ... *)
LEMMA DivIs ==
  ASSUME NEW a \in Nat, NEW m \in Nat \ {0}, NEW q \in Nat, q * m <= a, a < q * m + m
  PROVE  a \div m = q
OBVIOUS

(* ... and that there is one. *)
LEMMA DivBy ==
  ASSUME NEW a \in Nat, NEW m \in Nat \ {0}
  PROVE  /\ a \div m \in Nat /\ a % m \in Nat
         /\ (a \div m) * m <= a /\ a < (a \div m) * m + m
         /\ a = (a \div m) * m + (a % m) /\ a % m < m
OBVIOUS

(* The power by a name of its own, to be kept or expanded as a step needs. *)
Power(n) == Replay!Pow2[n]

(* Adding a multiple of the divisor adds to the quotient. *)
LEMMA DivShift ==
  ASSUME NEW a \in Nat, NEW m \in Nat \ {0}, NEW t \in Nat
  PROVE  (a + t * m) \div m = a \div m + t
<1> DEFINE q == a \div m
<1>1. q \in Nat /\ q * m <= a /\ a < q * m + m
  BY DivBy
<1>2. t * m \in Nat
  OBVIOUS
<1> HIDE DEF q
<1>3. (q + t) * m = q * m + t * m /\ q + t \in Nat /\ q * m \in Nat
  BY <1>1
<1>4. a + t * m \in Nat /\ (q + t) * m <= a + t * m /\ a + t * m < (q + t) * m + m
  BY <1>1, <1>2, <1>3
<1>5. (a + t * m) \div m = q + t
  BY <1>3, <1>4, DivIs
<1> QED
  BY <1>5 DEF q

(* Adding an even number changes no parity. *)
LEMMA Even ==
  \A x, y \in Nat :
    (x + 2 * y) % 2 = x % 2 /\ (2 * y) % 2 = 0 /\ (2 * y + 1) % 2 = 1
OBVIOUS

(* A power is twice the one before, ... *)
LEMMA Pow2Half == \A n \in Nat \ {0} : n - 1 \in Nat /\ Power(n) = 2 * Power(n - 1)
BY Pow2Rec DEF Power

(* ... a positive number, ... *)
LEMMA Pow2Pos == \A n \in Nat : Power(n) \in Nat \ {0}
BY Pow2Type DEF Power

(* ... and a product of smaller ones. *)
LEMMA Pow2Split ==
  \A n, k \in Nat : k <= n => n - k \in Nat /\ Power(n) = Power(k) * Power(n - k)
<1> SUFFICES ASSUME NEW n \in Nat, NEW k \in Nat, k <= n
             PROVE  n - k \in Nat /\ Power(n) = Power(k) * Power(n - k)
  OBVIOUS
<1>1. n - k \in Nat /\ k + (n - k) = n
  OBVIOUS
<1> QED
  BY <1>1, Pow2Add DEF Power

(* A bit of a mask: the parity of what is left of it. *)
LEMMA BitIs == \A b, n \in Nat : Replay!BitSet(b, n) <=> (b \div Power(n)) % 2 = 1
BY DEF Replay!BitSet, Power

(* Adding a multiple of a greater power changes no lower bit. *)
LEMMA HighAdded ==
  ASSUME NEW b \in Nat, NEW t \in Nat, NEW k \in Nat, NEW n \in Nat, k < n
  PROVE  Replay!BitSet(b + t * Power(n), k) <=> Replay!BitSet(b, k)
<1>1. n - k \in Nat \ {0} /\ Power(n) = Power(k) * Power(n - k)
  BY Pow2Split
<1>2. (n - k) - 1 \in Nat /\ Power(n - k) = 2 * Power((n - k) - 1)
  BY <1>1, Pow2Half
<1> DEFINE m == Power(k)
           h == Power((n - k) - 1)
<1>3. m \in Nat \ {0} /\ h \in Nat
  BY <1>2, Pow2Pos
<1>4. Power(n) = m * (2 * h)
  BY <1>1, <1>2
<1> HIDE DEF m, h
<1>5. t * (m * (2 * h)) = (2 * (t * h)) * m /\ t * h \in Nat /\ 2 * (t * h) \in Nat
  BY <1>3
<1> DEFINE y == t * h
<1>6. y \in Nat /\ t * Power(n) = (2 * y) * m
  BY <1>4, <1>5
<1> HIDE DEF y
<1>7. (b + (2 * y) * m) \div m = b \div m + 2 * y
  <2> DEFINE z == 2 * y
  <2>1. z \in Nat
    BY <1>6
  <2> HIDE DEF z
  <2>2. (b + z * m) \div m = b \div m + z
    BY <1>3, <2>1, DivShift
  <2> QED
    BY <2>2 DEF z
<1>8. b \div m \in Nat
  BY <1>3, DivBy
<1>9. (b \div m + 2 * y) % 2 = (b \div m) % 2
  BY <1>6, <1>8, Even
<1>10. b + t * Power(n) \in Nat
  BY Pow2Pos
<1> QED
  BY <1>6, <1>7, <1>9, <1>10, BitIs DEF m

(* What leaves the word changes none of the bits in it. *)
LEMMA LowBits ==
  ASSUME NEW x \in Nat, NEW k \in Nat, NEW n \in Nat, k < n
  PROVE  Replay!BitSet(x % Power(n), k) <=> Replay!BitSet(x, k)
<1>1. /\ x \div Power(n) \in Nat /\ x % Power(n) \in Nat
      /\ x = (x \div Power(n)) * Power(n) + (x % Power(n))
  BY Pow2Pos, DivBy
<1>2. (x \div Power(n)) * Power(n) \in Nat
  BY <1>1, Pow2Pos
<1>3. x = (x % Power(n)) + (x \div Power(n)) * Power(n)
  BY <1>1, <1>2
<1> QED
  BY <1>1, <1>3, HighAdded

(* The mask 1 is the offset 0 alone. *)
LEMMA BitOfOne == \A k \in Nat : Replay!BitSet(1, k) <=> k = 0
<1> SUFFICES ASSUME NEW k \in Nat PROVE Replay!BitSet(1, k) <=> k = 0
  OBVIOUS
<1>1. CASE k = 0
  <2>1. Power(0) = 1
    BY Pow2Rec DEF Power
  <2>2. (1 \div 1) % 2 = 1
    OBVIOUS
  <2> QED
    BY <1>1, <2>1, <2>2, BitIs
<1>2. CASE k # 0
  <2>1. Power(k) \in Nat /\ 1 < Power(k)
    BY <1>2, Pow2Half, Pow2Pos
  <2> DEFINE m == Power(k)
  <2> HIDE DEF m
  <2>2. m \in Nat /\ 1 < m
    BY <2>1 DEF m
  <2>3. 1 \div m = 0
    BY <2>2, DivIs
  <2> QED
    BY <1>2, <2>3, BitIs DEF m
<1> QED
  BY <1>1, <1>2

(* b << n | 1: bit 0 is set, bits below n are not, and bit k >= n is bit   *)
(* k - n of b.                                                             *)
LEMMA BitOfShifted ==
  ASSUME NEW b \in Nat, NEW n \in Nat \ {0}, NEW k \in Nat
  PROVE  Replay!BitSet(b * Power(n) + 1, k) <=> k = 0 \/ (k >= n /\ Replay!BitSet(b, k - n))
<1>0. b * Power(n) \in Nat /\ b * Power(n) + 1 \in Nat
  BY Pow2Pos
<1>1. CASE k < n
  <2>1. Replay!BitSet(1 + b * Power(n), k) <=> Replay!BitSet(1, k)
    BY <1>1, HighAdded
  <2>2. 1 + b * Power(n) = b * Power(n) + 1
    BY <1>0
  <2> QED
    BY <1>1, <2>1, <2>2, BitOfOne
<1>2. CASE k >= n
  <2>1. k - n \in Nat /\ Power(k) = Power(n) * Power(k - n) /\ k # 0
    BY <1>2, Pow2Split
  <2> DEFINE p == Power(n)
             m == Power(k - n)
             q == b \div m
  <2>2. p \in Nat \ {0} /\ m \in Nat \ {0} /\ 1 < p
    BY <2>1, Pow2Pos, Pow2Half
  <2>3. q \in Nat /\ q * m <= b /\ b < q * m + m
    BY <2>2, DivBy
  <2>4. Power(k) = p * m
    BY <2>1
  <2>5. Replay!BitSet(b, k - n) <=> q % 2 = 1
    BY <2>1, BitIs
  <2> HIDE DEF p, m, q
  <2>6. q * m \in Nat /\ p * m \in Nat \ {0}
    BY <2>2, <2>3
  <2>7. q * (p * m) = (q * m) * p
    BY <2>2, <2>3
  <2>8. (q * m) * p <= b * p
    BY <2>2, <2>3, <2>6
  <2>9. b + 1 <= q * m + m
    BY <2>3, <2>6, <2>2
  <2>10. (b + 1) * p <= (q * m + m) * p
    BY <2>9, <2>2, <2>6
  <2>11. (b + 1) * p = b * p + p /\ (q * m + m) * p = (q * m) * p + p * m
    BY <2>2, <2>6
  <2>12. b * p + 1 < q * (p * m) + p * m /\ q * (p * m) <= b * p + 1
    BY <2>2, <2>6, <2>7, <2>8, <2>10, <2>11
  <2>13. b * p + 1 \in Nat
    BY <1>0 DEF p
  <2>14. (b * p + 1) \div (p * m) = q
    BY <2>3, <2>6, <2>12, <2>13, DivIs
  <2> QED
    BY <1>0, <1>2, <2>1, <2>4, <2>5, <2>14, BitIs DEF p
<1> QED
  BY <1>1, <1>2

(* Setting a bit that is not set carries nothing into higher places. *)
LEMMA SameAbove ==
  ASSUME NEW b \in Nat, NEW d \in Nat, ~Replay!BitSet(b, d), NEW k \in Nat, d < k
  PROVE  (b + Power(d)) \div Power(k) = b \div Power(k)
<1> DEFINE p == Power(d)
           q == b \div p
           r == b % p
           u == Power(k - d - 1)
<1>0. p \in Nat \ {0} /\ b + p \in Nat
  BY Pow2Pos
<1>1. q \in Nat /\ r \in Nat /\ b = q * p + r /\ r < p
  BY <1>0, DivBy
<1>2. q % 2 # 1
  BY BitIs
<1>3. k - d - 1 \in Nat /\ u \in Nat \ {0} /\ Power(k) = p * (2 * u)
  <2>1. /\ k - d \in Nat \ {0} /\ Power(k) = Power(d) * Power(k - d)
        /\ (k - d) - 1 = k - d - 1
    BY Pow2Split
  <2>2. k - d - 1 \in Nat /\ Power(k - d) = 2 * u
    BY <2>1, Pow2Half
  <2> QED
    BY <2>1, <2>2, Pow2Pos
<1> HIDE DEF p, q, r, u
<1>4. PICK h \in Nat : q = 2 * h
  <2>1. q = 2 * (q \div 2) /\ q \div 2 \in Nat
    BY <1>1, <1>2
  <2> QED
    BY <2>1
<1> DEFINE t == h \div u
           v == h % u
<1>5. t \in Nat /\ v \in Nat /\ h = t * u + v /\ v + 1 <= u
  BY <1>3, DivBy
<1> HIDE DEF t, v
<1> DEFINE w == p * (2 * u)
           e == (v * 2) * p
<1>6. w \in Nat \ {0} /\ e \in Nat /\ t * w \in Nat
  BY <1>0, <1>3, <1>5
<1>7. b = t * w + e + r
  <2>1. q * p = (2 * (t * u + v)) * p
    BY <1>4, <1>5
  <2>2. (2 * (t * u + v)) * p = t * (p * (2 * u)) + (v * 2) * p
    BY <1>0, <1>3, <1>5
  <2> QED
    BY <1>1, <2>1, <2>2
<1>8. e + 2 * p <= w
  <2>1. (v + 1) * (2 * p) <= u * (2 * p)
    BY <1>0, <1>3, <1>5
  <2>2. (v + 1) * (2 * p) = (v * 2) * p + 2 * p /\ u * (2 * p) = p * (2 * u)
    BY <1>0, <1>3, <1>5
  <2> QED
    BY <2>1, <2>2
<1> HIDE DEF w, e
<1>9. b \div w = t /\ (b + p) \div w = t
  <2>1. t * w <= b /\ b < t * w + w /\ t * w <= b + p /\ b + p < t * w + w
    BY <1>0, <1>1, <1>6, <1>7, <1>8
  <2> QED
    BY <1>0, <1>5, <1>6, <2>1, DivIs
<1> QED
  BY <1>3, <1>9 DEF p, w

(* Setting a bit that is not set sets that one alone ... *)
LEMMA BitOfSet ==
  ASSUME NEW b \in Nat, NEW d \in Nat, ~Replay!BitSet(b, d), NEW k \in Nat
  PROVE  Replay!BitSet(b + Power(d), k) <=> k = d \/ Replay!BitSet(b, k)
<1> DEFINE p == Power(d)
           q == b \div p
           r == b % p
<1>0. p \in Nat \ {0} /\ b + p \in Nat
  BY Pow2Pos
<1>1. q \in Nat /\ r \in Nat /\ b = q * p + r /\ r < p
  BY <1>0, DivBy
<1>2. q % 2 # 1
  BY BitIs
<1> HIDE DEF p, q, r
<1>3. PICK h \in Nat : q = 2 * h
  <2>1. q = 2 * (q \div 2) /\ q \div 2 \in Nat
    BY <1>1, <1>2
  <2> QED
    BY <2>1
<1>4. CASE k < d
  <2>1. Replay!BitSet(b + 1 * Power(d), k) <=> Replay!BitSet(b, k)
    BY <1>4, HighAdded
  <2> QED
    BY <1>0, <1>4, <2>1 DEF p
<1>5. CASE k = d
  <2>1. (q + 1) * p = q * p + p /\ q * p \in Nat /\ q + 1 \in Nat
    BY <1>0, <1>1
  <2> DEFINE x == b + p
             z == q + 1
  <2>2. z * p <= x /\ x < z * p + p /\ z \in Nat /\ x \in Nat
    BY <1>0, <1>1, <2>1
  <2> HIDE DEF x, z
  <2>3. x \div p = z
    BY <1>0, <2>2, DivIs
  <2>4. (2 * h + 1) % 2 = 1
    BY Even
  <2> QED
    BY <1>0, <1>3, <1>5, <2>3, <2>4, BitIs DEF p, x, z
<1>6. CASE d < k
  <2>1. (b + p) \div Power(k) = b \div Power(k)
    BY <1>0, <1>6, SameAbove DEF p
  <2> QED
    BY <1>0, <1>6, <2>1, BitIs DEF p
<1> QED
  BY <1>4, <1>5, <1>6

(* ... and leaves the mask in its word. *)
LEMMA SetInWord ==
  ASSUME NEW n \in Nat, NEW b \in 0..(Power(n) - 1), NEW d \in Nat, d < n,
         ~Replay!BitSet(b, d)
  PROVE  b + Power(d) \in 0..(Power(n) - 1)
<1>1. /\ Power(d) \in Nat /\ Power(n) \in Nat \ {0} /\ b \in Nat /\ b < Power(n)
      /\ b + Power(d) \in Nat
  BY Pow2Pos
<1>2. (b + Power(d)) \div Power(n) = b \div Power(n)
  BY <1>1, SameAbove
<1> DEFINE m == Power(n)
           x == b + Power(d)
<1>3. m \in Nat \ {0} /\ x \in Nat
  BY <1>1
<1>4. b \div m = 0 
  BY <1>1, DivIs
<1>5. x \div m = 0
  BY <1>2, <1>4
<1>6. x < (x \div m) * m + m
  BY <1>3, DivBy
<1> HIDE DEF m, x
<1>7. x < m
  BY <1>3, <1>5, <1>6
<1>8. x \in 0..(m - 1)
  BY <1>3, <1>7
<1> QED
  BY <1>8 DEF m, x

(* The offsets whose bits are set, as AsWindow reads them. *)
Offsets(b) == {k \in 0..(W - 1) : Replay!BitSet(b, k)}

(* A word of W bits holds more than the value 0. *)
LEMMA WordSize == Power(W) \in Nat /\ 1 < Power(W)
BY PartsAssumption, Pow2Half, Pow2Pos

(* The mask 1 is the window with the newest sequence number alone. *)
LEMMA MaskOfOne == 1 \in 0..(Power(W) - 1) /\ Offsets(1) = {0}
BY PartsAssumption, WordSize, BitOfOne DEF Offsets

(* The mask shifted in its word is the window moved up, with the newest    *)
(* number in it.                                                           *)
LEMMA MaskShifted ==
  ASSUME NEW b \in Nat, NEW n \in Nat \ {0}, n < W
  PROVE  /\ Replay!ShiftIn(b, n) \in 0..(Power(W) - 1)
         /\ Offsets(Replay!ShiftIn(b, n)) = Replay!Slid(Offsets(b), n) \cup {0}
<1> DEFINE x == b * Power(n) + 1
<1>1. x \in Nat /\ Replay!ShiftIn(b, n) = x % Power(W)
  BY Pow2Pos DEF Replay!ShiftIn, Power
<1>2. \A k \in Nat : Replay!BitSet(x, k) <=> k = 0 \/ (k >= n /\ Replay!BitSet(b, k - n))
  BY BitOfShifted
<1> HIDE DEF x
<1>3. x % Power(W) \in 0..(Power(W) - 1)
  BY <1>1, WordSize
<1>4. \A k \in 0..(W - 1) : Replay!BitSet(x % Power(W), k) <=> Replay!BitSet(x, k)
  BY <1>1, LowBits, PartsAssumption
<1>5. \A k \in 0..(W - 1) :
        Replay!BitSet(x % Power(W), k) <=> k = 0 \/ (k >= n /\ Replay!BitSet(b, k - n))
  BY <1>2, <1>4
<1>6. \A k \in 0..(W - 1) : k >= n => k - n \in 0..(W - 1)
  BY PartsAssumption
<1>7. 0 \in 0..(W - 1)
  BY PartsAssumption
<1>8. Offsets(x % Power(W)) = Replay!Slid(Offsets(b), n) \cup {0}
  BY <1>5, <1>6, <1>7 DEF Offsets, Replay!Slid
<1> QED
  BY <1>1, <1>3, <1>8

(* The mask with one more bit is the window with one more offset. *)
LEMMA MaskSet ==
  ASSUME NEW b \in 0..(Power(W) - 1), NEW d \in Nat, d < W, ~Replay!BitSet(b, d)
  PROVE  /\ b + Power(d) \in 0..(Power(W) - 1)
         /\ Offsets(b + Power(d)) = Offsets(b) \cup {d}
<1>1. b \in Nat
  BY WordSize
<1>2. b + Power(d) \in 0..(Power(W) - 1)
  BY SetInWord, PartsAssumption
<1>3. \A k \in 0..(W - 1) : Replay!BitSet(b + Power(d), k) <=> k = d \/ Replay!BitSet(b, k)
  BY <1>1, BitOfSet
<1>4. d \in 0..(W - 1)
  BY PartsAssumption
<1> QED
  BY <1>2, <1>3, <1>4 DEF Offsets

(* What Accept leaves, in each of its three cases, is what Commit leaves. *)
LEMMA AcceptIsCommit ==
  ASSUME Replay!TypeOK, NEW seq \in Replay!Seqs, Replay!Returns(seq)
  PROVE  /\ Replay!MaskAfter(seq) \in 0..(Power(W) - 1)
         /\ Replay!MaxAfter(seq) \in 0..MaxSeq
         /\ Replay!AsWindow(TRUE, Replay!MaxAfter(seq), Replay!MaskAfter(seq))
              = Replay!Commit(Replay!AsWindow(initialized, max, bits), seq)
<1>1. /\ initialized \in BOOLEAN /\ max \in Nat /\ max <= MaxSeq /\ bits \in 0..(Power(W) - 1)
      /\ bits \in Nat /\ seq \in Nat /\ seq <= MaxSeq
  BY PartsAssumption, WordSize DEF Replay!TypeOK, Replay!Seqs, Power
<1>2. Replay!MaxAfter(seq) \in 0..MaxSeq
  BY <1>1, PartsAssumption DEF Replay!MaxAfter
<1>3. \A i, m, b :
        Replay!AsWindow(i, m, b) = [initialized |-> i, max |-> m, bits |-> Offsets(b)]
  BY DEF Replay!AsWindow, Offsets
<1>4. CASE ~initialized
  <2>1. Replay!MaskAfter(seq) = 1 /\ Replay!MaxAfter(seq) = seq
    BY <1>4 DEF Replay!MaskAfter, Replay!MaxAfter
  <2> QED
    BY <1>2, <1>3, <1>4, <2>1, MaskOfOne DEF Replay!Commit
<1>5. CASE initialized /\ seq > max
  <2>1. Replay!MaxAfter(seq) = seq
    BY <1>5 DEF Replay!MaxAfter
  <2>2. /\ Replay!MaskAfter(seq) \in 0..(Power(W) - 1)
        /\ Offsets(Replay!MaskAfter(seq)) = Replay!Slid(Offsets(bits), seq - max) \cup {0}
    <3>1. CASE seq - max >= W
      <4>1. Replay!MaskAfter(seq) = 1
        BY <1>5, <3>1 DEF Replay!MaskAfter
      <4>2. Replay!Slid(Offsets(bits), seq - max) = {}
        BY <1>1, <3>1, PartsAssumption DEF Replay!Slid
      <4> QED
        BY <4>1, <4>2, MaskOfOne
    <3>2. CASE ~(seq - max >= W)
      <4>1. Replay!MaskAfter(seq) = Replay!ShiftIn(bits, seq - max)
        BY <1>5, <3>2 DEF Replay!MaskAfter
      <4>2. seq - max \in Nat \ {0} /\ seq - max < W
        BY <1>1, <1>5, <3>2, PartsAssumption
      <4> QED
        BY <1>1, <4>1, <4>2, MaskShifted
    <3> QED
      BY <3>1, <3>2
  <2> QED
    BY <1>2, <1>3, <1>5, <2>1, <2>2 DEF Replay!Commit
<1>6. CASE initialized /\ ~(seq > max)
  <2> DEFINE d == max - seq
  <2>1. d \in Nat /\ d < W /\ ~Replay!BitSet(bits, d)
    BY <1>1, <1>6 DEF Replay!Returns
  <2>2. Replay!MaxAfter(seq) = max /\ Replay!MaskAfter(seq) = bits + Power(d)
    BY <1>6 DEF Replay!MaxAfter, Replay!MaskAfter, Power
  <2>3. /\ bits + Power(d) \in 0..(Power(W) - 1)
        /\ Offsets(bits + Power(d)) = Offsets(bits) \cup {d}
    BY <1>1, <2>1, MaskSet
  <2> QED
    BY <1>2, <1>3, <1>6, <2>2, <2>3 DEF Replay!Commit
<1> QED
  BY <1>1, <1>4, <1>5, <1>6

(* Accept returns true for what is fresh. *)
LEMMA ReturnsIfFresh ==
  ASSUME Replay!TypeOK, NEW seq \in Replay!Seqs
  PROVE  Replay!Returns(seq) <=> Replay!Fresh(Replay!AsWindow(initialized, max, bits), seq)
<1>1. max \in Nat /\ seq \in Nat
  BY PartsAssumption DEF Replay!TypeOK, Replay!Seqs
<1> DEFINE d == max - seq
<1>2. seq <= max /\ d < W => d \in 0..(W - 1)
  BY <1>1, PartsAssumption
<1>3. seq > max \/ seq <= max
  BY <1>1
<1>4. Replay!Returns(seq) <=>
        ~initialized \/ seq > max \/ (seq <= max /\ d < W /\ ~Replay!BitSet(bits, d))
  BY DEF Replay!Returns
<1>5. Replay!Fresh(Replay!AsWindow(initialized, max, bits), seq) <=>
        ~initialized \/ seq > max \/ (d < W /\ d \notin Offsets(bits))
  BY DEF Replay!Fresh, Replay!AsWindow, Offsets
<1> HIDE DEF d
<1>6. d \in 0..(W - 1) => (d \in Offsets(bits) <=> Replay!BitSet(bits, d))
  BY DEF Offsets
<1> QED
  BY <1>2, <1>3, <1>4, <1>5, <1>6

(* So all the property needs is the range of the variables, ... *)
LEMMA ReplayTyped == Replay!TypeOK => Replay!ArithmeticIsSlidingWindow
BY AcceptIsCommit, ReturnsIfFresh DEF Replay!ArithmeticIsSlidingWindow

(* ... which they have at the start ... *)
LEMMA ReplayInit == Replay!Init => Replay!TypeOK
<1>1. 0 \in 0..MaxSeq /\ 0 \in 0..(Power(W) - 1)
  BY PartsAssumption, WordSize
<1> QED
  BY <1>1 DEF Replay!Init, Replay!TypeOK, Power

(* ... and keep. *)
LEMMA ReplayNext == Replay!TypeOK /\ [Replay!Next]_replayVars => Replay!TypeOK'
<1> SUFFICES ASSUME Replay!TypeOK, [Replay!Next]_replayVars PROVE Replay!TypeOK'
  OBVIOUS
<1>1. ASSUME NEW seq \in Replay!Seqs, Replay!Accept(seq) PROVE Replay!TypeOK'
  BY <1>1, AcceptIsCommit DEF Replay!Accept, Replay!TypeOK, Power
<1>2. CASE UNCHANGED replayVars
  BY <1>2 DEF replayVars, Replay!TypeOK
<1> QED
  BY <1>1, <1>2 DEF Replay!Next, Replay!Refuse, Replay!vars, replayVars

-----------------------------------------------------------------------------
(* A table of m sources at most, each of them in it once. *)
Table(q, m) == q \in Seq(Sources) /\ Len(q) <= m /\ Proxy!IsInjective(q)

(* Each once, by positions. *)
LEMMA InjectiveIs ==
  ASSUME NEW q \in Seq(Sources)
  PROVE  Proxy!IsInjective(q) <=> \A i, j \in 1..Len(q) : q[i] = q[j] => i = j
BY DEF Proxy!IsInjective

(* The table without the n unseen for longest, ... *)
LEMMA LastOnes ==
  ASSUME NEW m \in Nat, NEW q, Table(q, m), NEW n \in 1..Len(q)
  PROVE  Table(SubSeq(q, n + 1, Len(q)), m - n)
<1> DEFINE r == SubSeq(q, n + 1, Len(q))
<1>1. /\ q \in Seq(Sources) /\ Len(q) \in Nat /\ Len(q) <= m
      /\ \A i, j \in 1..Len(q) : q[i] = q[j] => i = j
  BY InjectiveIs DEF Table
<1>2. r \in Seq(Sources) /\ Len(r) = Len(q) - n /\ \A i \in 1..Len(r) : r[i] = q[i + n]
  BY <1>1
<1> HIDE DEF r
<1>3. ASSUME NEW i \in 1..Len(r), NEW j \in 1..Len(r), r[i] = r[j] PROVE i = j
  <2>1. i + n \in 1..Len(q) /\ j + n \in 1..Len(q) /\ q[i + n] = q[j + n]
    BY <1>1, <1>2, <1>3
  <2>2. i + n = j + n
    BY <1>1, <2>1
  <2> QED
    BY <2>2
<1>4. Table(r, m - n)
  BY <1>1, <1>2, <1>3, InjectiveIs DEF Table
<1> QED
  BY <1>4 DEF r

(* ... without the k-th, ... *)
LEMMA Without ==
  ASSUME NEW m \in Nat, NEW q, Table(q, m), NEW k \in 1..Len(q)
  PROVE  /\ Table(Proxy!RemoveAt(q, k), m - 1)
         /\ \A i \in 1..Len(Proxy!RemoveAt(q, k)) : Proxy!RemoveAt(q, k)[i] # q[k]
<1> DEFINE a == SubSeq(q, 1, k - 1)
           b == SubSeq(q, k + 1, Len(q))
           r == a \o b
<1>1. /\ q \in Seq(Sources) /\ Len(q) \in Nat /\ Len(q) <= m
      /\ \A i, j \in 1..Len(q) : q[i] = q[j] => i = j
  BY InjectiveIs DEF Table
<1>2. a \in Seq(Sources) /\ Len(a) = k - 1 /\ \A i \in 1..(k - 1) : a[i] = q[i]
  BY <1>1
<1>3. /\ b \in Seq(Sources) /\ Len(b) = Len(q) - k
      /\ \A i \in 1..(Len(q) - k) : b[i] = q[i + k]
  BY <1>1
<1> HIDE DEF a, b
<1>4. r \in Seq(Sources) /\ Len(r) = Len(q) - 1 
      /\ \A i \in 1..Len(r) : r[i] = IF i < k THEN q[i] ELSE q[i + 1]
  <2>1. r \in Seq(Sources) /\ Len(r) = Len(q) - 1
    <3>1. r \in Seq(Sources) /\ Len(r) = Len(a) + Len(b)
      BY <1>2, <1>3, ConcatProperties
    <3> QED
      BY <1>1, <1>2, <1>3, <3>1
  <2>2. ASSUME NEW i \in 1..Len(r) PROVE r[i] = IF i < k THEN q[i] ELSE q[i + 1]
    <3>1. CASE i < k
      BY <1>2, <1>3, <2>1, <3>1
    <3>2. CASE ~(i < k)
      <4>1. /\ r[i] = b[i - (k - 1)] /\ i - (k - 1) \in 1..(Len(q) - k)
            /\ (i - (k - 1)) + k = i + 1
        BY <1>1, <1>2, <1>3, <2>1, <3>2
      <4> QED
        BY <1>3, <3>2, <4>1
    <3> QED
      BY <3>1, <3>2
  <2> QED
    BY <2>1, <2>2
<1>5. Proxy!RemoveAt(q, k) = r
  BY DEF Proxy!RemoveAt, a, b
<1> HIDE DEF r
<1>6. \A i, j \in 1..Len(r) : r[i] = r[j] => i = j
  BY <1>1, <1>4
<1>7. \A i \in 1..Len(r) : r[i] # q[k]
  BY <1>1, <1>4
<1> QED
  BY <1>1, <1>4, <1>5, <1>6, <1>7, InjectiveIs DEF Table

(* ... and with one that was not in it. *)
LEMMA Newest ==
  ASSUME NEW m \in Nat, NEW q, Table(q, m), NEW s \in Sources,
         \A i \in 1..Len(q) : q[i] # s
  PROVE  Table(Append(q, s), m + 1)
<1> DEFINE r == Append(q, s)
<1>1. /\ q \in Seq(Sources) /\ Len(q) \in Nat /\ Len(q) <= m
      /\ \A i, j \in 1..Len(q) : q[i] = q[j] => i = j
  BY InjectiveIs DEF Table
<1>2. /\ r \in Seq(Sources) /\ Len(r) = Len(q) + 1 /\ r[Len(q) + 1] = s
      /\ \A i \in 1..Len(q) : r[i] = q[i]
  BY <1>1
<1> HIDE DEF r
<1>3. \A i \in 1..Len(r) : i = Len(q) + 1 \/ i \in 1..Len(q)
  BY <1>1, <1>2
<1>4. \A i, j \in 1..Len(r) : r[i] = r[j] => i = j
  BY <1>1, <1>2, <1>3
<1>5. Table(r, m + 1)
  BY <1>1, <1>2, <1>4, InjectiveIs DEF Table
<1> QED
  BY <1>5 DEF r

(* observeProxySender keeps the table a table, within its bound. *)
LEMMA ObservedTable ==
  ASSUME Table(recent, Cap), NEW s \in Sources
  PROVE  Table(Proxy!Observed(s), Cap)
<1> DEFINE o == Proxy!Others(s)
<1>0. Cap \in Nat \ {0} /\ recent \in Seq(Sources) /\ Len(recent) \in Nat
  BY PartsAssumption DEF Table
<1>1. PICK m \in {Cap - 1, Cap} : Table(o, m) /\ \A i \in 1..Len(o) : o[i] # s
  <2>1. CASE Proxy!First(s)
    <3>1. o = recent
      BY <2>1 DEF Proxy!Others
    <3>2. \A i \in 1..Len(recent) : recent[i] # s
      BY <1>0, <2>1 DEF Proxy!First, Proxy!Known, Proxy!Range
    <3> QED
      BY <3>1, <3>2
  <2>2. CASE ~Proxy!First(s)
    <3> DEFINE k == CHOOSE i \in DOMAIN recent : recent[i] = s
    <3>1. k \in 1..Len(recent) /\ recent[k] = s
      BY <1>0, <2>2 DEF Proxy!First, Proxy!Known, Proxy!Range
    <3>2. o = Proxy!RemoveAt(recent, k)
      BY <2>2 DEF Proxy!Others
    <3> HIDE DEF o, k
    <3>3. Table(o, Cap - 1) /\ \A i \in 1..Len(o) : o[i] # s
      BY <1>0, <3>1, <3>2, Without
    <3> QED
      BY <3>3
  <2> QED
    BY <2>1, <2>2
<1> HIDE DEF o
<1> DEFINE r == Append(o, s)
<1>2. Table(r, m + 1)
  BY <1>0, <1>1, Newest
<1>3. Len(r) \in Nat /\ Proxy!Observed(s) = IF Len(r) > Cap THEN Tail(r) ELSE r
  BY <1>2 DEF Proxy!Observed, Table, o
<1> HIDE DEF r
<1>4. CASE Len(r) > Cap
  <2>1. m = Cap /\ Len(r) = Cap + 1 /\ r \in Seq(Sources)
    BY <1>0, <1>1, <1>2, <1>3, <1>4 DEF Table
  <2>2. Tail(r) = SubSeq(r, 1 + 1, Len(r))
    BY <1>0, <2>1
  <2>3. Table(SubSeq(r, 1 + 1, Len(r)), (m + 1) - 1)
    BY <1>0, <1>2, <2>1, LastOnes
  <2>4. (m + 1) - 1 = Cap
    BY <1>0, <2>1
  <2> QED
    BY <1>3, <1>4, <2>2, <2>3, <2>4
<1>5. CASE ~(Len(r) > Cap)
  BY <1>0, <1>2, <1>3, <1>5 DEF Table
<1> QED
  BY <1>4, <1>5

FlowsOK ==
  /\ flow \in [Sources -> Clients \cup {Nobody}]
  /\ style \in [Sources -> Proxy!Headers]
  /\ header \in [Sources -> Proxy!Headers]
  /\ sole \in [Sources -> BOOLEAN]

(* A header on its way is of the kind its source's relay sends. *)
StyledHeader == \A s \in Sources : header[s] \in {"none", style[s]}

TableTrue ==
  \A s \in Sources : proxied[s] =>
    /\ s \in Trusted /\ flow[s] # Nobody
    /\ sole[s] /\ style[s] = "proxy" => real[s] = flow[s]

SessionTrue ==
  \A c \in Clients :
    /\ session[c].sender \in Trusted \cup {Nobody}
    /\ session[c].exists /\ vouched[c].source # Nobody =>
         /\ vouched[c].header = style[vouched[c].source]
         /\ session[c].sender = vouched[c].source
         /\ sole[vouched[c].source] /\ vouched[c].header = "proxy" => session[c].addr = c

VouchersOK ==
  /\ session \in [Clients -> [exists : BOOLEAN, sender : Sources \cup {Nobody},
                              addr : Proxy!Addresses \cup {Nobody}]]
  /\ vouched \in [Clients -> [source : Sources \cup {Nobody}, header : Proxy!Headers]]
TablesOK ==
  /\ proxied \in [Sources -> BOOLEAN]
  /\ real \in [Sources -> Proxy!Addresses \cup {Nobody}]

ProxyIInv == FlowsOK /\ TablesOK /\ VouchersOK /\ StyledHeader /\ TableTrue /\ SessionTrue

(* At the start nothing is known of anybody, and no header is on its way.  *)
LEMMA InitProxyIInv == Proxy!Init => ProxyIInv
<1> SUFFICES ASSUME Proxy!Init PROVE ProxyIInv
  OBVIOUS
<1>1. FlowsOK /\ StyledHeader
  BY DEF Proxy!Init, FlowsOK, StyledHeader, Proxy!Headers
<1>2. TablesOK /\ TableTrue
  BY DEF Proxy!Init, TablesOK, TableTrue
<1>3. VouchersOK /\ SessionTrue
  BY DEF Proxy!Init, VouchersOK, SessionTrue, Proxy!NoSession, Proxy!NoVoucher,
     Proxy!Headers
<1> QED
  BY <1>1, <1>2, <1>3 DEF ProxyIInv

(* What a datagram leaves in the table of its source is true: a header     *)
(* accepted now names the client that uses the source.                     *)
LEMMA EntryTrue ==
  ASSUME ProxyIInv, NEW s \in Sources, flow[s] # Nobody,
         NEW h \in {"none", header[s]}
  PROVE  /\ Proxy!EntryProxied(s, h) \in BOOLEAN
         /\ Proxy!EntryReal(s, h) \in Proxy!Addresses \cup {Nobody}
         /\ Proxy!EntryProxied(s, h) =>
              /\ s \in Trusted
              /\ sole[s] /\ style[s] = "proxy" =>
                   Proxy!EntryReal(s, h) = flow[s] /\ Proxy!Reported(s, h) = flow[s]
         /\ Proxy!Reported(s, h) \in Proxy!Addresses
<1>1. flow[s] \in Clients /\ h \in {"none", style[s]}
  BY DEF ProxyIInv, FlowsOK, StyledHeader
<1>2. proxied[s] \in BOOLEAN /\ real[s] \in Proxy!Addresses \cup {Nobody}
  BY DEF ProxyIInv, TablesOK
<1>3. Proxy!EntryProxied(s, h) \in BOOLEAN
  BY <1>2 DEF Proxy!EntryProxied, Proxy!Accepted, Proxy!First,
     Proxy!ProxySourceTrusted
<1>4. Proxy!EntryReal(s, h) \in Proxy!Addresses \cup {Nobody}
  BY <1>1, <1>2 DEF Proxy!EntryReal, Proxy!Addresses
<1>5. Proxy!Reported(s, h) \in Proxy!Addresses
  BY <1>4 DEF Proxy!Reported, Proxy!Addresses
<1>6. ASSUME Proxy!EntryProxied(s, h) PROVE s \in Trusted
  BY <1>6 DEF Proxy!EntryProxied, Proxy!Accepted, Proxy!ProxySourceTrusted,
     ProxyIInv, TableTrue
<1>7. ASSUME Proxy!EntryProxied(s, h), sole[s], style[s] = "proxy"
      PROVE  Proxy!EntryReal(s, h) = flow[s]
  <2>1. CASE Proxy!First(s)
    BY <1>1, <1>7, <2>1 DEF Proxy!EntryProxied, Proxy!EntryReal, Proxy!Accepted
  <2>2. CASE ~Proxy!First(s)
    BY <1>7, <2>2 DEF Proxy!EntryProxied, Proxy!EntryReal, ProxyIInv, TableTrue
  <2> QED
    BY <2>1, <2>2
<1>8. Proxy!EntryReal(s, h) = flow[s] => Proxy!Reported(s, h) = flow[s]
  BY DEF Proxy!Reported
<1> QED
  BY <1>3, <1>4, <1>5, <1>6, <1>7, <1>8

(* A source is used from now on, by the client that used it or by another. *)
LEMMA OpenFlowProxyIInv ==
  ASSUME ProxyIInv, NEW s \in Sources, NEW c \in Clients, Proxy!OpenFlow(s, c)
  PROVE  ProxyIInv'
<1> USE DEF ProxyIInv, Proxy!tableVars, Proxy!sessionVars
<1>1. /\ flow' = [flow EXCEPT ![s] = c] /\ header' = [header EXCEPT ![s] = style[s]]
      /\ sole' = [sole EXCEPT ![s] = @ /\ flow[s] \in {Nobody, c}]
      /\ UNCHANGED <<style, Proxy!tableVars, Proxy!sessionVars>>
  BY DEF Proxy!OpenFlow
<1>2. FlowsOK' /\ StyledHeader'
  BY <1>1 DEF FlowsOK, StyledHeader
<1>3. TablesOK' /\ VouchersOK'
  BY <1>1 DEF TablesOK, VouchersOK
<1>4. \A t \in Sources : sole'[t] => sole[t] /\ flow[t] \in {Nobody, flow'[t]}
  BY <1>1 DEF FlowsOK
<1>5. TableTrue'
  BY <1>1, <1>4, PartsAssumption DEF TableTrue, FlowsOK
<1>6. SessionTrue'
  BY <1>1, <1>4 DEF SessionTrue, VouchersOK
<1> QED
  BY <1>2, <1>3, <1>5, <1>6

(* The table forgets, by the prune, for want of room, or at a restart.     *)
LEMMA KeepTrue ==
  ASSUME FlowsOK, TablesOK, TableTrue, Proxy!Keep(proxied, real), UNCHANGED Proxy!flowVars
  PROVE  (TablesOK /\ TableTrue)'
BY DEF Proxy!Keep, TablesOK, TableTrue, FlowsOK, Proxy!flowVars

(* A datagram: it is told of in the table, and a handshake may make the    *)
(* session of its client.                                                  *)
LEMMA ReceiveProxyIInv ==
  ASSUME ProxyIInv, NEW s \in Sources, NEW h \in Proxy!Headers,
         NEW cmd \in {"header", "handshake", "ping"}, Proxy!Receive(s, h, cmd)
  PROVE  ProxyIInv'
<1> USE DEF Proxy!sessionVars
<1> DEFINE c == flow[s]
           P == [proxied EXCEPT ![s] = Proxy!EntryProxied(s, h)]
           R == [real EXCEPT ![s] = Proxy!EntryReal(s, h)]
<1>1. /\ c # Nobody /\ h \in {"none", header[s]} /\ Proxy!Keep(P, R)
      /\ header' = [header EXCEPT ![s] = IF h = "none" THEN @ ELSE "none"]
      /\ UNCHANGED <<style, flow, sole>>
      /\ Proxy!HandleHandshake(c, s, h) \/ UNCHANGED Proxy!sessionVars
  BY DEF Proxy!Receive
<1>2. c \in Clients
  BY <1>1 DEF ProxyIInv, FlowsOK
<1>3. /\ Proxy!EntryProxied(s, h) \in BOOLEAN
      /\ Proxy!EntryReal(s, h) \in Proxy!Addresses \cup {Nobody}
      /\ Proxy!EntryProxied(s, h) =>
           /\ s \in Trusted
           /\ sole[s] /\ style[s] = "proxy" =>
                Proxy!EntryReal(s, h) = flow[s] /\ Proxy!Reported(s, h) = flow[s]
      /\ Proxy!Reported(s, h) \in Proxy!Addresses
  BY <1>1, EntryTrue
<1>4. FlowsOK' /\ StyledHeader'
  BY <1>1 DEF ProxyIInv, FlowsOK, StyledHeader, Proxy!Headers
<1>5. TablesOK' /\ TableTrue'
  <2>1. \A t \in Sources : proxied'[t] => P[t] /\ real'[t] = R[t]
    BY <1>1 DEF Proxy!Keep
  <2>2. TablesOK'
    BY <1>1, <1>3 DEF Proxy!Keep, TablesOK, ProxyIInv
  <2>3. \A t \in Sources \ {s} : P[t] = proxied[t] /\ R[t] = real[t]
    BY DEF ProxyIInv, TablesOK
  <2>4. P[s] = Proxy!EntryProxied(s, h) /\ R[s] = Proxy!EntryReal(s, h)
    BY DEF ProxyIInv, TablesOK
  <2>5. ASSUME NEW t \in Sources, proxied'[t]
        PROVE  /\ t \in Trusted /\ flow[t] # Nobody
               /\ sole[t] /\ style[t] = "proxy" => real'[t] = flow[t]
    <3>1. CASE t = s
      BY <1>1, <1>3, <2>1, <2>4, <2>5, <3>1
    <3>2. CASE t # s
      BY <2>1, <2>3, <2>5, <3>2 DEF ProxyIInv, TableTrue
    <3> QED
      BY <3>1, <3>2
  <2> QED
    BY <1>1, <2>2, <2>5 DEF TableTrue
<1>6. VouchersOK' /\ SessionTrue'
  <2>1. CASE UNCHANGED Proxy!sessionVars
    BY <1>1, <2>1 DEF ProxyIInv, VouchersOK, SessionTrue
  <2>2. CASE /\ session' = [session EXCEPT ![c] =
                  [exists |-> TRUE, sender |-> Proxy!SenderKept(s, h),
                   addr |-> Proxy!Reported(s, h)]]
             /\ vouched' = [vouched EXCEPT ![c] =
                  IF Proxy!EntryProxied(s, h) THEN [source |-> s, header |-> style[s]]
                  ELSE Proxy!NoVoucher]
    <3>1. VouchersOK'
      BY <1>2, <1>3, <2>2 DEF ProxyIInv, FlowsOK, VouchersOK, Proxy!SenderKept,
         Proxy!NoVoucher, Proxy!Headers
    <3>2. /\ session'[c].sender \in Trusted \cup {Nobody}
          /\ vouched'[c].source # Nobody =>
               /\ vouched'[c].source = s /\ vouched'[c].header = style[s]
               /\ session'[c].sender = s
               /\ sole[s] /\ style[s] = "proxy" => session'[c].addr = c
      BY <1>2, <1>3, <2>2 DEF ProxyIInv, VouchersOK, Proxy!SenderKept,
         Proxy!NoVoucher
    <3>3. \A d \in Clients \ {c} : session'[d] = session[d] /\ vouched'[d] = vouched[d]
      BY <2>2 DEF ProxyIInv, VouchersOK
    <3>4. SessionTrue'
      <4>1. ASSUME NEW d \in Clients, d = c
            PROVE  /\ session'[d].sender \in Trusted \cup {Nobody}
                   /\ vouched'[d].source # Nobody =>
                        /\ vouched'[d].header = style[vouched'[d].source]
                        /\ session'[d].sender = vouched'[d].source
                        /\ sole[vouched'[d].source] /\ vouched'[d].header = "proxy"
                             => session'[d].addr = d
        BY <3>2, <4>1
      <4>2. ASSUME NEW d \in Clients, d # c
            PROVE  /\ session'[d].sender \in Trusted \cup {Nobody}
                   /\ session'[d].exists /\ vouched'[d].source # Nobody =>
                        /\ vouched'[d].header = style[vouched'[d].source]
                        /\ session'[d].sender = vouched'[d].source
                        /\ sole[vouched'[d].source] /\ vouched'[d].header = "proxy"
                             => session'[d].addr = d
        BY <3>3, <4>2 DEF ProxyIInv, SessionTrue
      <4> QED
        BY <1>1, <4>1, <4>2 DEF SessionTrue
    <3> QED
      BY <3>1, <3>4
  <2> QED
    BY <1>1, <2>1, <2>2 DEF Proxy!HandleHandshake
<1> QED
  BY <1>4, <1>5, <1>6 DEF ProxyIInv

(* Every step preserves ProxyIInv ... *)
LEMMA NextProxyIInv == ProxyIInv /\ [Proxy!Next]_(Proxy!vars) => ProxyIInv'
<1> SUFFICES ASSUME ProxyIInv, [Proxy!Next]_(Proxy!vars) PROVE ProxyIInv'
  OBVIOUS
<1>1. CASE UNCHANGED Proxy!vars
  BY <1>1 DEF ProxyIInv, Proxy!vars, Proxy!flowVars, Proxy!tableVars,
     Proxy!sessionVars, FlowsOK, TablesOK, VouchersOK,
              StyledHeader, TableTrue, SessionTrue
<1>2. ASSUME NEW s \in Sources, Proxy!LoseHeader(s) PROVE ProxyIInv'
  BY <1>2 DEF Proxy!LoseHeader, ProxyIInv, Proxy!tableVars, Proxy!sessionVars,
     FlowsOK, TablesOK, VouchersOK,
              StyledHeader, TableTrue, SessionTrue, Proxy!Headers
<1>3. ASSUME NEW s \in Sources, NEW c \in Clients, Proxy!OpenFlow(s, c) PROVE ProxyIInv'
  BY <1>3, OpenFlowProxyIInv
<1>4. ASSUME NEW s \in Sources, NEW h \in Proxy!Headers,
             NEW cmd \in {"header", "handshake", "ping"}, Proxy!Receive(s, h, cmd)
      PROVE  ProxyIInv'
  BY <1>4, ReceiveProxyIInv
<1>5. ASSUME NEW n \in 1..Cap, Proxy!Prune(n) PROVE ProxyIInv'
  <2>1. Proxy!Keep(proxied, real) /\ UNCHANGED <<Proxy!flowVars, Proxy!sessionVars>>
    BY <1>5 DEF Proxy!Prune
  <2>2. (FlowsOK /\ StyledHeader /\ VouchersOK /\ SessionTrue)'
    BY <2>1 DEF ProxyIInv, Proxy!flowVars, Proxy!sessionVars, FlowsOK,
       StyledHeader, VouchersOK, SessionTrue
  <2> QED
    BY <2>1, <2>2, KeepTrue DEF ProxyIInv
<1>6. ASSUME NEW c \in Clients, Proxy!EndSession(c) PROVE ProxyIInv'
  <2>1. /\ session' = [session EXCEPT ![c] = Proxy!NoSession]
        /\ vouched' = [vouched EXCEPT ![c] = Proxy!NoVoucher]
        /\ UNCHANGED <<Proxy!flowVars, Proxy!tableVars>>
    BY <1>6 DEF Proxy!EndSession
  <2>2. (FlowsOK /\ TablesOK /\ StyledHeader /\ TableTrue)'
    BY <2>1 DEF ProxyIInv, Proxy!flowVars, Proxy!tableVars, FlowsOK, TablesOK,
       StyledHeader, TableTrue
  <2>3. (VouchersOK /\ SessionTrue)'
    BY <2>1 DEF ProxyIInv, Proxy!flowVars, VouchersOK, SessionTrue,
       Proxy!NoSession, Proxy!NoVoucher, Proxy!Headers
  <2> QED
    BY <2>2, <2>3 DEF ProxyIInv
<1>7. CASE Proxy!Restart
  <2>1. /\ session' = [c \in Clients |-> Proxy!NoSession]
        /\ vouched' = [c \in Clients |-> Proxy!NoVoucher]
        /\ Proxy!Keep(proxied, real) /\ UNCHANGED Proxy!flowVars
    BY <1>7 DEF Proxy!Restart
  <2>2. (FlowsOK /\ StyledHeader)'
    BY <2>1 DEF ProxyIInv, Proxy!flowVars, FlowsOK, StyledHeader
  <2>3. (VouchersOK /\ SessionTrue)'
    BY <2>1 DEF VouchersOK, SessionTrue, Proxy!NoSession, Proxy!NoVoucher,
       Proxy!Headers
  <2> QED
    BY <2>1, <2>2, <2>3, KeepTrue DEF ProxyIInv
<1> QED
  BY <1>1, <1>2, <1>3, <1>4, <1>5, <1>6, <1>7 DEF Proxy!Next

(* ... and says what the property says. *)
LEMMA ProxyIInvTold == ProxyIInv => Proxy!PathToldRight
<1> SUFFICES ASSUME ProxyIInv, NEW c \in Clients, NEW s \in Sources,
                    NEW h \in Proxy!Headers, Proxy!Answerable(c, s, h)
             PROVE  /\ vouched[c].source = s =>
                         /\ Proxy!ClassifyPacketPath(c, s, h) = "relay"
                         /\ sole[s] /\ vouched[c].header = "proxy" =>
                              Proxy!EffectiveClientAddress(c, s, h) = c
                    /\ s \notin Trusted =>
                         /\ Proxy!ClassifyPacketPath(c, s, h) = "direct"
                         /\ Proxy!EffectiveClientAddress(c, s, h) = s
  BY DEF Proxy!PathToldRight, Proxy!RelayStaysRelay, Proxy!DirectStaysDirect
<1>1. session[c].exists /\ flow[s] = c /\ h \in {"none", header[s]} /\ flow[s] # Nobody
  BY PartsAssumption DEF Proxy!Answerable
<1>2. Proxy!EntryProxied(s, h) =>
        /\ s \in Trusted
        /\ sole[s] /\ style[s] = "proxy" => Proxy!Reported(s, h) = flow[s]
  BY <1>1, EntryTrue
<1>3. ASSUME vouched[c].source = s
      PROVE  /\ session[c].sender = s /\ vouched[c].header = style[s]
             /\ sole[s] /\ style[s] = "proxy" => session[c].addr = c
  BY <1>1, <1>3, PartsAssumption DEF ProxyIInv, SessionTrue
<1>4. s \notin Trusted => session[c].sender # s
  BY PartsAssumption DEF ProxyIInv, SessionTrue
<1> QED
  BY <1>1, <1>2, <1>3, <1>4 DEF Proxy!ClassifyPacketPath,
     Proxy!EffectiveClientAddress

(* The table holds each source once, and never more than Cap of them.      *)
RecentOK == flows \in 0..MaxFlows /\ Table(recent, Cap)

(* The table begins empty, ... *)
LEMMA EmptyTable == Table(<<>>, Cap)
<1>1. <<>> \in Seq(Sources) /\ Len(<<>>) = 0
  OBVIOUS
<1>2. \A i, j \in 1..0 : <<>>[i] = <<>>[j] => i = j
  OBVIOUS
<1>3. Proxy!IsInjective(<<>>)
  BY <1>1, <1>2, InjectiveIs
<1> QED
  BY <1>1, <1>3, PartsAssumption DEF Table

(* ... within its bound, ... *)
LEMMA RecentInit == Proxy!Init => RecentOK
BY EmptyTable, PartsAssumption DEF Proxy!Init, RecentOK

(* ... and stays so. *)
LEMMA RecentNext == RecentOK /\ [Proxy!Next]_(Proxy!vars) => RecentOK'
<1> SUFFICES ASSUME RecentOK, [Proxy!Next]_(Proxy!vars) PROVE RecentOK'
  OBVIOUS
<1> USE DEF Proxy!flowVars, Proxy!tableVars, Proxy!sessionVars
<1>0. \A q : Table(q, Cap)' <=> Table(q, Cap)
  BY DEF Table, Proxy!IsInjective
<1>1. CASE UNCHANGED <<flows, recent>>
  BY <1>1 DEF RecentOK, Table, Proxy!IsInjective
<1>2. ASSUME NEW s \in Sources, NEW c \in Clients, Proxy!OpenFlow(s, c) PROVE RecentOK'
  <2>1. flows' \in 0..MaxFlows /\ recent' = recent
    BY <1>2, PartsAssumption DEF Proxy!OpenFlow, RecentOK
  <2> QED
    BY <2>1 DEF RecentOK, Table, Proxy!IsInjective
<1>3. ASSUME NEW s \in Sources, NEW h \in Proxy!Headers,
             NEW cmd \in {"header", "handshake", "ping"}, Proxy!Receive(s, h, cmd)
      PROVE  RecentOK'
  <2>1. flows' = flows /\ recent' = Proxy!Observed(s)
    BY <1>3 DEF Proxy!Receive
  <2>2. Table(Proxy!Observed(s), Cap)
    BY ObservedTable DEF RecentOK
  <2> QED
    BY <2>1, <2>2 DEF RecentOK, Table, Proxy!IsInjective
<1>4. ASSUME NEW n \in 1..Cap, Proxy!Prune(n) PROVE RecentOK'
  <2>1. /\ n \in 1..Len(recent) /\ recent' = SubSeq(recent, n + 1, Len(recent))
        /\ flows' = flows
    BY <1>4, PartsAssumption DEF Proxy!Prune, RecentOK, Table
  <2>2. Table(SubSeq(recent, n + 1, Len(recent)), Cap - n)
    BY <2>1, LastOnes, PartsAssumption DEF RecentOK
  <2> DEFINE q == SubSeq(recent, n + 1, Len(recent))
  <2>3. Table(q, Cap - n)
    BY <2>2
  <2> HIDE DEF q
  <2>4. /\ q \in Seq(Sources) /\ Len(q) \in Nat /\ Len(q) <= Cap - n
        /\ Proxy!IsInjective(q)
    BY <2>3 DEF Table
  <2>5. Table(q, Cap)
    BY <2>4, PartsAssumption DEF Table
  <2>6. recent' = q
    BY <2>1 DEF q
  <2> QED
    BY <2>1, <2>5, <2>6 DEF RecentOK, Table, Proxy!IsInjective
<1>5. CASE Proxy!Restart
  <2>1. recent' = <<>> /\ flows' = flows
    BY <1>5 DEF Proxy!Restart
  <2> QED
    BY <2>1, EmptyTable DEF RecentOK, Table, Proxy!IsInjective
<1>6. ASSUME NEW s \in Sources, Proxy!LoseHeader(s) PROVE RecentOK'
  BY <1>1, <1>6 DEF Proxy!LoseHeader
<1>7. ASSUME NEW c \in Clients, Proxy!EndSession(c) PROVE RecentOK'
  BY <1>1, <1>7 DEF Proxy!EndSession
<1> QED
  BY <1>1, <1>2, <1>3, <1>4, <1>5, <1>6, <1>7 DEF Proxy!Next, Proxy!vars

(* The two invariants of the part give its types. *)
LEMMA ProxyTypes == ProxyIInv /\ RecentOK => Proxy!TypeOK
BY DEF ProxyIInv, RecentOK, FlowsOK, TablesOK, VouchersOK, Table, Proxy!TypeOK

-----------------------------------------------------------------------------
(* The three parts together: the steps of one leave the others alone.      *)
PartsIInv == IInv /\ Replay!TypeOK /\ ProxyIInv /\ RecentOK

(* Each part's invariant holds whichever part runs. *)
LEMMA PartsInvariance == PartsSpec => []PartsIInv
<1>1. PartsInit => PartsIInv
  BY InitIInv, ReplayInit, InitProxyIInv, RecentInit DEF PartsInit, PartsIInv
<1>2. PartsIInv /\ [PartsNext]_allVars => PartsIInv'
  <2> SUFFICES ASSUME PartsIInv, [PartsNext]_allVars PROVE PartsIInv'
    OBVIOUS
  <2>1. UNCHANGED proxyVars => UNCHANGED Proxy!vars
    BY DEF proxyVars, Proxy!vars, Proxy!flowVars, Proxy!tableVars, Proxy!sessionVars
  <2>2. [Next]_vars /\ [Replay!Next]_replayVars /\ [Proxy!Next]_(Proxy!vars)
    BY <2>1 DEF PartsNext, allVars
  <2> QED
    BY <2>2, NextIInv, ReplayNext, NextProxyIInv, RecentNext DEF PartsIInv
<1> QED
  BY <1>1, <1>2, PTL DEF PartsSpec

(* Every variable of the three parts keeps its type; the flag punchWorker  *)
(* is set exactly while a worker runs or is to be started (server.go:      *)
(* 894-931), and the table of sources never outgrows its bound (436-467).  *)
THEOREM PartsTypeCorrect == PartsSpec => []PartsTypeOK
<1>1. PartsIInv => PartsTypeOK
  BY ProxyTypes DEF PartsIInv, IInv, PartsTypeOK
<1> QED
  BY <1>1, PartsInvariance, PTL

(* A session never has two punch workers (server.go:911-915).              *)
THEOREM AtMostOneWorker == PartsSpec => []OneWorker
<1>1. PartsIInv => OneWorker
  BY AloneIsOne DEF PartsIInv, IInv
<1> QED
  BY <1>1, PartsInvariance, PTL

(* For a word of any width, the shifts, masks and comparisons of Accept    *)
(* are the sliding window the sessions are proved with (session.go:        *)
(* 442-467).                                                               *)
THEOREM ArithmeticRight == PartsSpec => []ArithmeticIsSlidingWindow
<1>1. PartsIInv => ArithmeticIsSlidingWindow
  BY ReplayTyped DEF PartsIInv, ArithmeticIsSlidingWindow
<1> QED
  BY <1>1, PartsInvariance, PTL

(* A client whose handshake came under an accepted header is told Relay,   *)
(* and of the address in that header, as long as its session lives, and    *)
(* nobody untrusted is taken for a relay, whatever the table has forgotten *)
(* (server.go:1159-1228).                                                  *)
THEOREM ToldRight == PartsSpec => []PathToldRight
<1>1. PartsIInv => PathToldRight
  BY ProxyIInvTold DEF PartsIInv, PathToldRight
<1> QED
  BY <1>1, PartsInvariance, PTL
=============================================================================
