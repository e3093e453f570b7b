------------------------ MODULE SecureSessionProofs ------------------------
(* Proofs about SecureSession for every window size, counter width, number *)
(* of writers and number of readers.                                       *)
EXTENDS SecureSession, TLAPS

(***************************************************************************)
(* The sending side: a claimed number is at most the counter, is still     *)
(* unused, and is held by one writer only.                                 *)
(***************************************************************************)
ClaimedNumbersAreFree ==
  \A w \in Writers : pc[w] = "seal" =>
    cur[w] \in Seqs /\ cur[w] <= sendSeq /\ sealCount[cur[w]] = 0

ClaimsAreDistinct ==
  \A v, w \in Writers :
    v # w /\ pc[v] = "seal" /\ pc[w] = "seal" => cur[v] # cur[w]

SwapStaysBelowMax == \A w \in Writers : pc[w] = "cas" => cur[w] < MaxSeq

SealedUpToCounter == \A s \in Seqs : sealCount[s] > 0 => s <= sendSeq

SenderInv ==
  /\ TypeOK
  /\ ClaimedNumbersAreFree
  /\ ClaimsAreDistinct
  /\ SwapStaysBelowMax
  /\ SealedUpToCounter
  /\ NonceUnique
  /\ NeverSealedWithWipedKey

(* A number above the window's maximum slides the recorded offsets and     *)
(* keeps them inside the window; any other commit adds one offset.         *)
LEMMA CommitType ==
  ASSUME NEW v \in Window, NEW s \in Seqs, Fresh(v, s)
  PROVE  Commit(v, s) \in Window
<1> USE WindowAssumption DEF Window, Seqs
<1>1. CASE ~v.initialized
  BY <1>1 DEF Commit
<1>2. CASE v.initialized /\ s > v.max
  BY <1>2 DEF Commit, Slid
<1>3. CASE v.initialized /\ ~(s > v.max)
  <2>1. v.max - s \in 0..(W - 1)
    BY <1>3 DEF Fresh
  <2>2. QED
    BY <2>1, <1>3 DEF Commit
<1>4. QED
  BY <1>1, <1>2, <1>3

(* Counting one more packet keeps a history counter a counter. *)
LEMMA CountType ==
  ASSUME NEW f \in [Seqs -> Nat], NEW s \in Seqs
  PROVE  [f EXCEPT ![s] = @ + 1] \in [Seqs -> Nat]
  OBVIOUS

(* The types: every variable keeps its range; the counter does not leave   *)
(* its width and the mask does not grow past W.                            *)
LEMMA TypeInit == Init => TypeOK
<1> SUFFICES ASSUME Init
             PROVE  TypeOK
  OBVIOUS
<1>1. EmptyWindow \in Window
  BY WindowAssumption DEF EmptyWindow, Window
<1>2. [seq |-> 1, key |-> "live"] \in Packets
  BY WindowAssumption DEF Packets, Seqs, Keys
<1>3. rpkt \in [Readers -> Packets]
  BY <1>2 DEF Init
<1>4. sealCount \in [Seqs -> Nat] /\ deliveries \in [Seqs -> Nat]
  BY DEF Init
<1>5. pc \in [Writers -> {"idle", "gate", "load", "exhaust", "cas", "seal"}]
  BY DEF Init
<1>6. rpc \in [Readers -> {"idle", "open", "accept"}]
  BY DEF Init
<1>7. sendSeq \in 0..MaxSeq /\ cur \in [Writers -> 0..MaxSeq]
  BY WindowAssumption DEF Init
<1>8. QED
  BY <1>1, <1>3, <1>4, <1>5, <1>6, <1>7 DEF Init, TypeOK, Keys

LEMMA TypeStep == TypeOK /\ [Next]_vars => TypeOK'
<1> SUFFICES ASSUME TypeOK, [Next]_vars
             PROVE  TypeOK'
  OBVIOUS
<1> USE DEF TypeOK, Keys, Packets
<1>1. ASSUME NEW w \in Writers, StartSend(w)
      PROVE  TypeOK'
  BY <1>1 DEF StartSend, Goto, receiverVars
<1>2. ASSUME NEW w \in Writers, Gate(w)
      PROVE  TypeOK'
  BY <1>2 DEF Gate, Goto, receiverVars
<1>3. ASSUME NEW w \in Writers, Load(w)
      PROVE  TypeOK'
  BY <1>3 DEF Load, Goto, receiverVars
<1>4. ASSUME NEW w \in Writers, Exhaust(w)
      PROVE  TypeOK'
  BY <1>4 DEF Exhaust, Goto, receiverVars
<1>5. ASSUME NEW w \in Writers, CompareAndSwap(w)
      PROVE  TypeOK'
  <2>1. Succ(cur[w]) \in 0..MaxSeq
    BY WindowAssumption DEF Succ
  <2>2. QED
    BY <1>5, <2>1 DEF CompareAndSwap, Goto, receiverVars
<1>6. ASSUME NEW w \in Writers, Seal(w)
      PROVE  TypeOK'
  <2>1. CASE SealRefuses(w)
    BY <1>6, <2>1 DEF Seal, Goto, receiverVars
  <2>2. CASE ~SealRefuses(w)
    <3>1. cur[w] \in Seqs
      BY <2>2, WindowAssumption DEF SealRefuses, Seqs
    <3>2. sealCount' \in [Seqs -> Nat]
      BY <1>6, <2>2, <3>1, CountType DEF Seal
    <3>3. net' \subseteq Packets
      BY <1>6, <2>2, <3>1 DEF Seal
    <3>4. QED
      BY <1>6, <3>2, <3>3 DEF Seal, Goto, receiverVars
  <2>3. QED
    BY <2>1, <2>2
<1>7. ASSUME NEW r \in Readers, Receive(r)
      PROVE  TypeOK'
  BY <1>7 DEF Receive, senderVars
<1>8. ASSUME NEW r \in Readers, Verify(r)
      PROVE  TypeOK'
  BY <1>8 DEF Verify, senderVars
<1>9. ASSUME NEW r \in Readers, Accept(r)
      PROVE  TypeOK'
  <2>1. rpkt[r].seq \in Seqs
    OBVIOUS
  <2>2. win' \in Window
    BY <1>9, <2>1, CommitType DEF Accept
  <2>3. deliveries' \in [Seqs -> Nat]
    BY <1>9, <2>1, CountType DEF Accept
  <2>4. QED
    BY <1>9, <2>2, <2>3 DEF Accept, senderVars
<1>10. CASE CloseSender
  BY <1>10 DEF CloseSender, receiverVars
<1>11. CASE CloseReceiver
  BY <1>11 DEF CloseReceiver, senderVars
<1>12. CASE UNCHANGED vars
  BY <1>12 DEF vars, senderVars, receiverVars
<1>13. QED
  BY <1>1, <1>2, <1>3, <1>4, <1>5, <1>6, <1>7, <1>8, <1>9, <1>10, <1>11, <1>12
     DEF Next, WriterStep, ReaderStep

(* Every reachable state has the declared types, whatever the width of the *)
(* counter and of the window.                                              *)
THEOREM TypeCorrect == Spec => []TypeOK
  BY TypeInit, TypeStep, PTL DEF Spec

-----------------------------------------------------------------------------
LEMMA SenderInit == Init => SenderInv
  BY TypeInit DEF Init, SenderInv, ClaimedNumbersAreFree, ClaimsAreDistinct,
     SwapStaysBelowMax, SealedUpToCounter, NonceUnique, NeverSealedWithWipedKey

(* A step of the receiving side leaves the sending side alone. *)
LEMMA SenderFrame == SenderInv /\ TypeOK' /\ UNCHANGED senderVars => SenderInv'
  BY DEF SenderInv, ClaimedNumbersAreFree, ClaimsAreDistinct, SwapStaysBelowMax,
     SealedUpToCounter, NonceUnique, NeverSealedWithWipedKey, senderVars

(* Every step of the sender keeps numbers free until sealed, distinct      *)
(* between writers, and below the counter.                                 *)
LEMMA SenderStep == SenderInv /\ [Next]_vars => SenderInv'
<1> SUFFICES ASSUME SenderInv, [Next]_vars
             PROVE  SenderInv'
  OBVIOUS
<1> USE WindowAssumption DEF ClaimedNumbersAreFree, ClaimsAreDistinct,
        SwapStaysBelowMax, SealedUpToCounter, NonceUnique, NeverSealedWithWipedKey
<1>0. TypeOK /\ TypeOK'
  BY TypeStep DEF SenderInv
<1>1. ASSUME NEW w \in Writers, StartSend(w) \/ Gate(w) \/ Exhaust(w)
      PROVE  SenderInv'
  BY <1>0, <1>1 DEF SenderInv, TypeOK, StartSend, Gate, Exhaust, Goto
<1>2. ASSUME NEW w \in Writers, Load(w)
      PROVE  SenderInv'
  BY <1>0, <1>2 DEF SenderInv, TypeOK, Load, Goto
<1>3. ASSUME NEW w \in Writers, CompareAndSwap(w)
      PROVE  SenderInv'
  <2>1. CASE sendSeq = cur[w]
    <3>1. Succ(cur[w]) = sendSeq + 1 /\ sendSeq + 1 \in Seqs
      <4>1. sendSeq \in 0..(MaxSeq - 1)
        BY <1>0, <1>3, <2>1 DEF SenderInv, TypeOK, CompareAndSwap
      <4>2. (sendSeq + 1) % (MaxSeq + 1) = sendSeq + 1
        BY <4>1
      <4>3. QED
        BY <2>1, <4>1, <4>2 DEF Succ, Seqs
    <3>2. /\ sendSeq' = sendSeq + 1
          /\ cur' = [cur EXCEPT ![w] = sendSeq + 1]
          /\ pc' = [pc EXCEPT ![w] = "seal"]
          /\ UNCHANGED <<net, sealCount>>
      BY <1>3, <2>1, <3>1 DEF CompareAndSwap, Goto
    <3>3. sealCount[sendSeq + 1] = 0
      <4>1. ~(sendSeq + 1 <= sendSeq)
        BY <1>0 DEF TypeOK
      <4>2. sealCount[sendSeq + 1] \in Nat
        BY <1>0, <3>1 DEF TypeOK
      <4>3. QED
        BY <3>1, <4>1, <4>2 DEF SenderInv
    <3>4. SealedUpToCounter' /\ NonceUnique' /\ NeverSealedWithWipedKey'
      BY <1>0, <3>2 DEF SenderInv, TypeOK, Seqs
    <3>5. SwapStaysBelowMax'
      BY <1>0, <3>2 DEF SenderInv, TypeOK
    <3>6. ClaimedNumbersAreFree'
      BY <1>0, <3>1, <3>2, <3>3 DEF SenderInv, TypeOK
    <3>7. ClaimsAreDistinct'
      BY <1>0, <3>2 DEF SenderInv, TypeOK
    <3>8. QED
      BY <1>0, <3>4, <3>5, <3>6, <3>7 DEF SenderInv
  <2>2. CASE sendSeq # cur[w]
    BY <1>0, <1>3, <2>2 DEF SenderInv, TypeOK, CompareAndSwap, Goto
  <2>3. QED
    BY <2>1, <2>2
<1>4. ASSUME NEW w \in Writers, Seal(w)
      PROVE  SenderInv'
  <2>1. CASE SealRefuses(w)
    BY <1>0, <1>4, <2>1 DEF SenderInv, TypeOK, Seal, Goto
  <2>2. CASE ~SealRefuses(w)
    <3>1. /\ pc[w] = "seal" /\ sendKey = "live"
          /\ cur[w] \in Seqs /\ cur[w] <= sendSeq /\ sealCount[cur[w]] = 0
      BY <1>0, <1>4, <2>2 DEF SenderInv, TypeOK, Keys, Seal, SealRefuses
    <3>2. /\ net' = net \cup {[seq |-> cur[w], key |-> sendKey]}
          /\ sealCount' = [sealCount EXCEPT ![cur[w]] = @ + 1]
          /\ pc' = [pc EXCEPT ![w] = "idle"]
          /\ UNCHANGED <<sendSeq, cur>>
      BY <1>4, <2>2 DEF Seal, Goto
    <3>3. NeverSealedWithWipedKey'
      BY <3>1, <3>2 DEF SenderInv
    <3>4. \A s \in Seqs : sealCount'[s] = IF s = cur[w] THEN 1 ELSE sealCount[s]
      BY <1>0, <3>1, <3>2 DEF TypeOK
    <3>5. SealedUpToCounter' /\ NonceUnique' /\ SwapStaysBelowMax'
      BY <1>0, <3>1, <3>2, <3>4 DEF SenderInv, TypeOK
    <3>6. ClaimedNumbersAreFree'
      BY <1>0, <1>4, <3>1, <3>2, <3>4 DEF SenderInv, TypeOK
    <3>7. ClaimsAreDistinct'
      BY <1>0, <3>2 DEF SenderInv, TypeOK
    <3>8. QED
      BY <1>0, <3>3, <3>5, <3>6, <3>7 DEF SenderInv
  <2>3. QED
    BY <2>1, <2>2
<1>5. CASE CloseSender
  BY <1>0, <1>5 DEF SenderInv, CloseSender
<1>6. ASSUME NEW r \in Readers, Receive(r) \/ Verify(r) \/ Accept(r)
      PROVE  SenderInv'
  BY <1>0, <1>6, SenderFrame DEF Receive, Verify, Accept
<1>7. CASE CloseReceiver
  BY <1>0, <1>7, SenderFrame DEF CloseReceiver
<1>8. CASE UNCHANGED vars
  BY <1>0, <1>8, SenderFrame DEF vars
<1>9. QED
  BY <1>1, <1>2, <1>3, <1>4, <1>5, <1>6, <1>7, <1>8
     DEF Next, WriterStep, ReaderStep

LEMMA SenderInvariant == Spec => []SenderInv
  BY SenderInit, SenderStep, PTL DEF Spec

(* No two packets of a direction share an AES-GCM nonce, for any number of *)
(* writers and any counter width.                                          *)
THEOREM NonceUniqueness == Spec => []NonceUnique
<1>1. SenderInv => NonceUnique
  BY DEF SenderInv
<1>2. QED
  BY <1>1, SenderInvariant, PTL

(* No packet is sealed after Close zeroed the key. *)
THEOREM WipedKeySealsNothing == Spec => []NeverSealedWithWipedKey
<1>1. SenderInv => NeverSealedWithWipedKey
  BY DEF SenderInv
<1>2. QED
  BY <1>1, SenderInvariant, PTL

-----------------------------------------------------------------------------
(***************************************************************************)
(* The receiving side: what the window records is exactly what was handed  *)
(* on, as far back as the mask reaches.                                    *)
(***************************************************************************)
BeforeFirst == ~win.initialized => \A s \in Seqs : deliveries[s] = 0

MaxIsNewest ==
  win.initialized =>
    /\ win.max \in Seqs
    /\ deliveries[win.max] > 0
    /\ \A s \in Seqs : deliveries[s] > 0 => s <= win.max

BitsAreExact ==
  win.initialized =>
    \A s \in Seqs : s <= win.max /\ win.max - s < W =>
      (win.max - s \in win.bits <=> deliveries[s] > 0)

ReceiverInv ==
  /\ TypeOK
  /\ BeforeFirst
  /\ MaxIsNewest
  /\ BitsAreExact
  /\ DeliveredOnce

LEMMA ReceiverInit == Init => ReceiverInv
  BY TypeInit DEF Init, ReceiverInv, BeforeFirst, MaxIsNewest, BitsAreExact,
     DeliveredOnce, EmptyWindow

LEMMA ReceiverFrame == ReceiverInv /\ TypeOK' /\ UNCHANGED <<win, deliveries>> => ReceiverInv'
  BY DEF ReceiverInv, BeforeFirst, MaxIsNewest, BitsAreExact, DeliveredOnce

(* A sequence number the window calls fresh was never handed on. *)
LEMMA FreshIsNew ==
  ASSUME ReceiverInv, NEW s \in Seqs, Fresh(win, s)
  PROVE  deliveries[s] = 0
<1>0. deliveries[s] \in Nat /\ win.max \in 0..MaxSeq /\ s \in Int
  BY WindowAssumption DEF ReceiverInv, TypeOK, Window, Seqs
<1>1. CASE ~win.initialized
  BY <1>1 DEF ReceiverInv, BeforeFirst
<1>2. CASE win.initialized /\ s > win.max
  BY <1>0, <1>2 DEF ReceiverInv, MaxIsNewest
<1>3. CASE win.initialized /\ ~(s > win.max)
  BY <1>0, <1>3 DEF ReceiverInv, BitsAreExact, Fresh
<1>4. QED
  BY <1>1, <1>2, <1>3

LEMMA ReceiverStep == ReceiverInv /\ [Next]_vars => ReceiverInv'
<1> SUFFICES ASSUME ReceiverInv, [Next]_vars
             PROVE  ReceiverInv'
  OBVIOUS
<1>0. TypeOK /\ TypeOK'
  BY TypeStep DEF ReceiverInv
<1>1. ASSUME NEW r \in Readers, Accept(r)
      PROVE  ReceiverInv'
  <2> DEFINE s == rpkt[r].seq
  <2>1. s \in Seqs
    BY <1>0 DEF TypeOK, Packets
  <2>2. CASE ~Fresh(win, s)
    BY <1>0, <1>1, <2>2, ReceiverFrame DEF Accept
  <2>3. CASE Fresh(win, s)
    <3>1. win' = Commit(win, s) /\ deliveries' = [deliveries EXCEPT ![s] = @ + 1]
      BY <1>1, <2>3 DEF Accept
    <3>2. deliveries[s] = 0
      BY <2>1, <2>3, FreshIsNew
    <3>3. \A t \in Seqs : deliveries'[t] = IF t = s THEN 1 ELSE deliveries[t]
      BY <1>0, <2>1, <3>1, <3>2 DEF TypeOK
    <3>4. DeliveredOnce'
      BY <3>3 DEF ReceiverInv, DeliveredOnce
    <3> HIDE DEF s
    <3>5. /\ W \in Nat /\ win.max \in Nat /\ win.bits \subseteq 0..(W - 1)
          /\ \A t \in Seqs : t \in Nat /\ deliveries[t] \in Nat
      BY <1>0, WindowAssumption DEF TypeOK, Window, Seqs
    <3>6. CASE ~win.initialized
      <4>1. win'.initialized /\ win'.max = s /\ win'.bits = {0}
        BY <3>1, <3>6 DEF Commit
      <4>2. \A t \in Seqs : deliveries[t] = 0
        BY <3>6 DEF ReceiverInv, BeforeFirst
      <4>3. QED
        BY <1>0, <2>1, <3>3, <3>4, <3>5, <4>1, <4>2
           DEF ReceiverInv, BeforeFirst, MaxIsNewest, BitsAreExact
    <3>7. CASE win.initialized /\ s > win.max
      <4>1. /\ win'.initialized /\ win'.max = s
            /\ win'.bits = Slid(win.bits, s - win.max) \cup {0}
        BY <3>1, <3>7 DEF Commit
      <4>2. MaxIsNewest'
        BY <2>1, <3>3, <3>5, <3>7, <4>1 DEF ReceiverInv, MaxIsNewest
      <4>3. BitsAreExact'
        <5>1. SUFFICES ASSUME NEW t \in Seqs, t <= s, s - t < W
                       PROVE  s - t \in win'.bits <=> deliveries'[t] > 0
          BY <4>1 DEF BitsAreExact
        <5>2. CASE t = s
          BY <2>1, <3>3, <3>5, <4>1, <5>2
        <5>3. CASE t # s /\ t > win.max
          BY <2>1, <3>3, <3>5, <3>7, <4>1, <5>1, <5>3 DEF Slid, ReceiverInv, MaxIsNewest
        <5>4. CASE t # s /\ t <= win.max
          <6>1. s - t \in win'.bits <=> win.max - t \in win.bits
            <7>1. /\ s - t \in 0..(W - 1) /\ s - t # 0
                  /\ s - t >= s - win.max /\ (s - t) - (s - win.max) = win.max - t
              BY <2>1, <3>5, <3>7, <5>1, <5>4
            <7>2. s - t \in win'.bits <=> s - t \in Slid(win.bits, s - win.max)
              BY <4>1, <7>1
            <7>3. QED
              BY <7>1, <7>2 DEF Slid
          <6>2. win.max - t < W
            BY <2>1, <3>5, <3>7, <5>1
          <6>3. QED
            BY <3>3, <3>7, <5>4, <6>1, <6>2 DEF ReceiverInv, BitsAreExact
        <5>5. QED
          BY <3>5, <5>2, <5>3, <5>4
      <4>4. QED
        BY <1>0, <3>4, <4>1, <4>2, <4>3 DEF ReceiverInv, BeforeFirst
    <3>8. CASE win.initialized /\ ~(s > win.max)
      <4>1. /\ win'.initialized /\ win'.max = win.max
            /\ win'.bits = win.bits \cup {win.max - s}
        BY <1>0, <3>1, <3>8 DEF Commit, TypeOK, Window
      <4>2. MaxIsNewest'
        BY <2>1, <3>3, <3>5, <3>8, <4>1 DEF ReceiverInv, MaxIsNewest
      <4>3. BitsAreExact'
        BY <2>1, <3>3, <3>5, <3>8, <4>1 DEF ReceiverInv, BitsAreExact
      <4>4. QED
        BY <1>0, <3>4, <4>1, <4>2, <4>3 DEF ReceiverInv, BeforeFirst
    <3>9. QED
      BY <3>6, <3>7, <3>8
  <2>4. QED
    BY <2>2, <2>3
<1>2. ASSUME NEW r \in Readers, Receive(r) \/ Verify(r)
      PROVE  ReceiverInv'
  BY <1>0, <1>2, ReceiverFrame DEF Receive, Verify
<1>3. ASSUME NEW w \in Writers, StartSend(w) \/ WriterStep(w)
      PROVE  ReceiverInv'
  BY <1>0, <1>3, ReceiverFrame
     DEF WriterStep, StartSend, Gate, Load, Exhaust, CompareAndSwap, Seal, receiverVars
<1>4. CASE CloseSender \/ CloseReceiver
  BY <1>0, <1>4, ReceiverFrame DEF CloseSender, CloseReceiver, receiverVars
<1>5. CASE UNCHANGED vars
  BY <1>0, <1>5, ReceiverFrame DEF vars, receiverVars
<1>6. QED
  BY <1>1, <1>2, <1>3, <1>4, <1>5 DEF Next, ReaderStep

LEMMA ReceiverInvariant == Spec => []ReceiverInv
  BY ReceiverInit, ReceiverStep, PTL DEF Spec

(* A packet is handed on at most once, for any window size, any number of  *)
(* readers and any order, loss or duplication of packets.                  *)
THEOREM AtMostOnceDelivery == Spec => []DeliveredOnce
<1>1. ReceiverInv => DeliveredOnce
  BY DEF ReceiverInv
<1>2. QED
  BY <1>1, ReceiverInvariant, PTL

(* The filter refuses only what it handed on before or what is at least W  *)
(* numbers behind the newest packet.                                       *)
THEOREM RefusalIsJustified == Spec => RefusedOnlyIfSeenOrOld
<1>1. ASSUME ReceiverInv, NEW r \in Readers, Accept(r), deliveries' = deliveries
      PROVE  \/ deliveries[rpkt[r].seq] > 0
             \/ \E m \in Seqs : deliveries[m] > 0 /\ m - rpkt[r].seq >= W
  <2> DEFINE s == rpkt[r].seq
  <2>1. s \in Seqs /\ deliveries \in [Seqs -> Nat]
    BY <1>1 DEF ReceiverInv, TypeOK, Packets
  <2>2. ~Fresh(win, s)
    <3>1. SUFFICES ASSUME Fresh(win, s)
                   PROVE  FALSE
      OBVIOUS
    <3>2. deliveries'[s] = deliveries[s] + 1
      BY <1>1, <2>1, <3>1 DEF Accept
    <3>3. deliveries'[s] = deliveries[s]
      BY <1>1
    <3>4. deliveries[s] \in Nat
      BY <2>1
    <3>5. QED
      BY <3>2, <3>3, <3>4
  <2> HIDE DEF s
  <2>3. win.initialized /\ s <= win.max /\ (win.max - s < W => win.max - s \in win.bits)
    BY <1>1, <2>1, <2>2, WindowAssumption DEF Fresh, ReceiverInv, TypeOK, Window, Seqs
  <2>4. win.max \in Seqs /\ deliveries[win.max] > 0
    BY <1>1, <2>3 DEF ReceiverInv, MaxIsNewest
  <2>5. CASE win.max - s < W
    BY <1>1, <2>1, <2>3, <2>5 DEF ReceiverInv, BitsAreExact, s
  <2>6. CASE ~(win.max - s < W)
    <3>1. win.max - s >= W
      BY <2>1, <2>4, <2>6, WindowAssumption DEF Seqs
    <3>2. QED
      BY <2>4, <3>1 DEF s
  <2>7. QED
    BY <2>5, <2>6
<1>2. ReceiverInv /\ [Next]_vars =>
        [\A r \in Readers :
           (Accept(r) /\ deliveries' = deliveries) =>
             LET s == rpkt[r].seq IN
               \/ deliveries[s] > 0
               \/ \E m \in Seqs : deliveries[m] > 0 /\ m - s >= W]_vars
  BY <1>1
<1>3. QED
  BY <1>2, ReceiverInvariant, PTL DEF Spec, RefusedOnlyIfSeenOrOld

-----------------------------------------------------------------------------
(***************************************************************************)
(* Both ends together: a packet on the wire or in a reader's hand was      *)
(* sealed, which is what lets a delivery map to a step of OnceChannel.     *)
(***************************************************************************)
WireWasSealed ==
  /\ \A p \in net : sealCount[p.seq] > 0
  /\ \A r \in Readers : rpc[r] # "idle" => sealCount[rpkt[r].seq] > 0

ChannelInv == SenderInv /\ ReceiverInv /\ WireWasSealed

LEMMA ChannelInit == Init => ChannelInv
  BY SenderInit, ReceiverInit DEF Init, ChannelInv, WireWasSealed

LEMMA ChannelStep == ChannelInv /\ [Next]_vars => ChannelInv'
<1> SUFFICES ASSUME ChannelInv, [Next]_vars
             PROVE  ChannelInv'
  OBVIOUS
<1>0. TypeOK /\ SenderInv' /\ ReceiverInv'
  BY SenderStep, ReceiverStep DEF ChannelInv, SenderInv
<1> SUFFICES WireWasSealed'
  BY <1>0 DEF ChannelInv
<1> USE DEF ChannelInv, WireWasSealed
<1>1. ASSUME NEW w \in Writers, Seal(w)
      PROVE  WireWasSealed'
  <2>1. CASE SealRefuses(w)
    BY <1>1, <2>1 DEF Seal, receiverVars
  <2>2. CASE ~SealRefuses(w)
    <3>1. /\ net' = net \cup {[seq |-> cur[w], key |-> sendKey]}
          /\ sealCount' = [sealCount EXCEPT ![cur[w]] = @ + 1]
          /\ cur[w] \in Seqs
          /\ UNCHANGED <<rpc, rpkt>>
      BY <1>0, <1>1, <2>2 DEF Seal, ClaimedNumbersAreFree, SenderInv, receiverVars
    <3>2. \A s \in Seqs : sealCount'[s] >= sealCount[s] /\ sealCount'[cur[w]] > 0
      BY <1>0, <3>1 DEF TypeOK
    <3>3. /\ \A p \in net : p.seq \in Seqs
          /\ \A r \in Readers : rpkt[r].seq \in Seqs
          /\ \A s \in Seqs : sealCount[s] \in Nat /\ sealCount'[s] \in Nat
      BY <1>0, <3>1 DEF TypeOK, Packets
    <3>4. \A s \in Seqs : sealCount[s] > 0 => sealCount'[s] > 0
      BY <3>2, <3>3
    <3>5. QED
      BY <3>1, <3>2, <3>3, <3>4
  <2>3. QED
    BY <2>1, <2>2
<1>2. ASSUME NEW w \in Writers,
             StartSend(w) \/ Gate(w) \/ Load(w) \/ Exhaust(w) \/ CompareAndSwap(w)
      PROVE  WireWasSealed'
  BY <1>2 DEF StartSend, Gate, Load, Exhaust, CompareAndSwap, receiverVars
<1>3. ASSUME NEW r \in Readers, Receive(r)
      PROVE  WireWasSealed'
  BY <1>0, <1>3 DEF Receive, TypeOK, senderVars
<1>4. ASSUME NEW r \in Readers, Verify(r) \/ Accept(r)
      PROVE  WireWasSealed'
  BY <1>0, <1>4 DEF Verify, Accept, TypeOK, senderVars
<1>5. CASE CloseSender \/ CloseReceiver
  BY <1>5 DEF CloseSender, CloseReceiver, senderVars, receiverVars
<1>6. CASE UNCHANGED vars
  BY <1>6 DEF vars, senderVars, receiverVars
<1>7. QED
  BY <1>1, <1>2, <1>3, <1>4, <1>5, <1>6 DEF Next, WriterStep, ReaderStep

LEMMA ChannelInvariant == Spec => []ChannelInv
  BY ChannelInit, ChannelStep, PTL DEF Spec

(* Every behaviour of the session is a behaviour of the at-most-once       *)
(* channel: sealing a packet is Seal, handing one on is Deliver, and every *)
(* other step leaves the channel as it is.                                 *)
THEOREM SessionImplementsOnceChannel == Spec => ImplementsOnceChannel
<1>1. Init => Once!Init
  BY DEF Init, Once!Init
<1>2. ChannelInv /\ [Next]_vars => [Once!Next]_<<sealCount, deliveries>>
  <2> SUFFICES ASSUME ChannelInv, [Next]_vars
               PROVE  [Once!Next]_<<sealCount, deliveries>>
    OBVIOUS
  <2>0. /\ sealCount \in [Seqs -> Nat] /\ deliveries \in [Seqs -> Nat]
        /\ \A r \in Readers : rpkt[r].seq \in Seqs
    BY DEF ChannelInv, SenderInv, TypeOK, Packets
  <2>1. ASSUME NEW w \in Writers, Seal(w)
        PROVE  [Once!Next]_<<sealCount, deliveries>>
    <3>1. CASE SealRefuses(w)
      BY <2>1, <3>1 DEF Seal, receiverVars
    <3>2. CASE ~SealRefuses(w)
      <4>1. cur[w] \in Seqs /\ sealCount[cur[w]] = 0
        BY <2>1 DEF Seal, ChannelInv, SenderInv, ClaimedNumbersAreFree
      <4>2. sealCount' = [sealCount EXCEPT ![cur[w]] = 1] /\ deliveries' = deliveries
        BY <2>0, <2>1, <3>2, <4>1 DEF Seal, receiverVars
      <4>3. QED
        BY <4>1, <4>2 DEF Once!Next, Once!Seal
    <3>3. QED
      BY <3>1, <3>2
  <2>2. ASSUME NEW r \in Readers, Accept(r)
        PROVE  [Once!Next]_<<sealCount, deliveries>>
    <3> DEFINE s == rpkt[r].seq
    <3>1. s \in Seqs /\ sealCount' = sealCount
      BY <2>0, <2>2 DEF Accept, senderVars
    <3>2. CASE ~Fresh(win, s)
      BY <2>2, <3>1, <3>2 DEF Accept
    <3>3. CASE Fresh(win, s)
      <4>1. deliveries[s] = 0
        BY <3>1, <3>3, FreshIsNew DEF ChannelInv
      <4>2. sealCount[s] = 1
        <5>1. sealCount[s] > 0 /\ sealCount[s] <= 1
          BY <2>2, <3>1 DEF Accept, ChannelInv, WireWasSealed, SenderInv, NonceUnique
        <5>2. QED
          BY <2>0, <3>1, <5>1
      <4>3. deliveries' = [deliveries EXCEPT ![s] = 1]
        BY <2>0, <2>2, <3>1, <3>3, <4>1 DEF Accept
      <4> HIDE DEF s
      <4>4. QED
        BY <3>1, <4>1, <4>2, <4>3 DEF Once!Next, Once!Deliver
    <3>4. QED
      BY <3>2, <3>3
  <2>3. ASSUME NEW w \in Writers,
               StartSend(w) \/ Gate(w) \/ Load(w) \/ Exhaust(w) \/ CompareAndSwap(w)
        PROVE  UNCHANGED <<sealCount, deliveries>>
    BY <2>3 DEF StartSend, Gate, Load, Exhaust, CompareAndSwap, receiverVars
  <2>4. ASSUME NEW r \in Readers, Receive(r) \/ Verify(r)
        PROVE  UNCHANGED <<sealCount, deliveries>>
    BY <2>4 DEF Receive, Verify, senderVars
  <2>5. CASE CloseSender \/ CloseReceiver \/ UNCHANGED vars
    BY <2>5 DEF CloseSender, CloseReceiver, vars, senderVars, receiverVars
  <2>6. QED
    BY <2>1, <2>2, <2>3, <2>4, <2>5 DEF Next, WriterStep, ReaderStep
<1>3. QED
  BY <1>1, <1>2, ChannelInvariant, PTL DEF Spec, ImplementsOnceChannel, Once!Spec
=============================================================================
