--------------------------- MODULE SecureSession ---------------------------
(***************************************************************************)
(* One direction of a Session (pkg/security/session.go): the sending       *)
(* endpoint's Session object, used by several goroutines that call NextSeq *)
(* and then Seal; a UDP network that loses, duplicates and reorders; and   *)
(* the receiving endpoint's Session, whose Open is called by one goroutine *)
(* per client socket (candidateReadLoop) or by the server's read loop.     *)
(* Either side may Close, which wipes the keys, at any moment.             *)
(*                                                                         *)
(* A step is what the code does under one lock or one atomic operation.    *)
(***************************************************************************)
EXTENDS SlidingWindow

CONSTANTS
  Writers,  \* goroutines that send on the session
  Readers   \* goroutines that open packets of the session

Keys == {"live", "wiped"}
Packets == [seq : Seqs, key : Keys]

VARIABLES
  sendSeq,      \* Session.sendSeq, an atomic uint32
  exhausted,    \* Session.exhausted
  sendKey,      \* the sender's traffic key; "wiped" once Session.closed
  pc,           \* where each writer is between NextSeq and the datagram
  cur,          \* the value a writer loaded from sendSeq, then its number
  net,          \* packets on the wire; a set, never emptied: any packet
                \* may be lost, delayed or delivered again
  sealCount,    \* history: packets sealed under each sequence number
  recvKey,      \* the receiver's copy of the key
  win,          \* Session.recv
  rpc,          \* where each reader is in Open
  rpkt,         \* the packet a reader has in hand
  deliveries    \* history: packets handed on for each sequence number

senderVars == <<sendSeq, exhausted, sendKey, pc, cur, net, sealCount>>
receiverVars == <<recvKey, win, rpc, rpkt, deliveries>>
vars == <<senderVars, receiverVars>>

TypeOK ==
  /\ sendSeq \in 0..MaxSeq
  /\ exhausted \in BOOLEAN
  /\ sendKey \in Keys
  /\ pc \in [Writers -> {"idle", "gate", "load", "exhaust", "cas", "seal"}]
  /\ cur \in [Writers -> 0..MaxSeq]
  /\ net \subseteq Packets
  /\ sealCount \in [Seqs -> Nat]
  /\ recvKey \in Keys
  /\ win \in Window
  /\ rpc \in [Readers -> {"idle", "open", "accept"}]
  /\ rpkt \in [Readers -> Packets]
  /\ deliveries \in [Seqs -> Nat]

Init ==
  /\ sendSeq = 0
  /\ exhausted = FALSE
  /\ sendKey = "live"
  /\ pc = [w \in Writers |-> "idle"]
  /\ cur = [w \in Writers |-> 0]
  /\ net = {}
  /\ sealCount = [s \in Seqs |-> 0]
  /\ recvKey = "live"
  /\ win = EmptyWindow
  /\ rpc = [r \in Readers |-> "idle"]
  /\ rpkt = [r \in Readers |-> [seq |-> 1, key |-> "live"]]
  /\ deliveries = [s \in Seqs |-> 0]

-----------------------------------------------------------------------------
(* The sending side. *)

Goto(w, label) == pc' = [pc EXCEPT ![w] = label]

StartSend(w) ==
  /\ pc[w] = "idle"
  /\ Goto(w, "gate")
  /\ UNCHANGED <<sendSeq, exhausted, sendKey, cur, net, sealCount, receiverVars>>

(* NextSeq reads closed and exhausted under the read lock ... *)
Gate(w) ==
  /\ pc[w] = "gate"
  /\ Goto(w, IF sendKey = "wiped" \/ exhausted THEN "idle" ELSE "load")
  /\ UNCHANGED <<sendSeq, exhausted, sendKey, cur, net, sealCount, receiverVars>>

(* ... loads the counter after releasing it ... *)
Load(w) ==
  /\ pc[w] = "load"
  /\ cur' = [cur EXCEPT ![w] = sendSeq]
  /\ Goto(w, IF sendSeq = MaxSeq THEN "exhaust" ELSE "cas")
  /\ UNCHANGED <<sendSeq, exhausted, sendKey, net, sealCount, receiverVars>>

(* ... takes the write lock to retire an exhausted counter ... *)
Exhaust(w) ==
  /\ pc[w] = "exhaust"
  /\ exhausted' = TRUE
  /\ Goto(w, "idle")
  /\ UNCHANGED <<sendSeq, sendKey, cur, net, sealCount, receiverVars>>

(* Mutant: the counter wraps past 0, which Seal refuses, to 1. *)
SuccSkipsZero(n) == IF n >= MaxSeq - 1 THEN 1 ELSE n + 1

(* The counter is a uint32. *)
Succ(n) == (n + 1) % (MaxSeq + 1)

(* Mutant: a plain store of the incremented value. *)
StoreIncremented(w) ==
  /\ pc[w] = "cas"
  /\ sendSeq' = Succ(cur[w])
  /\ cur' = [cur EXCEPT ![w] = Succ(cur[w])]
  /\ Goto(w, "seal")
  /\ UNCHANGED <<exhausted, sendKey, net, sealCount, receiverVars>>

(* ... or claims the next number by compare-and-swap, starting over when   *)
(* another writer was faster.                                              *)
CompareAndSwap(w) ==
  /\ pc[w] = "cas"
  /\ \/ /\ sendSeq = cur[w]
        /\ sendSeq' = Succ(cur[w])
        /\ cur' = [cur EXCEPT ![w] = Succ(cur[w])]
        /\ Goto(w, "seal")
     \/ /\ sendSeq # cur[w]
        /\ Goto(w, "gate")
        /\ UNCHANGED <<sendSeq, cur>>
  /\ UNCHANGED <<exhausted, sendKey, net, sealCount, receiverVars>>

(* Mutant: Seal trusts the check NextSeq made. *)
SealRefusesOnlyZero(w) == cur[w] = 0

(* Seal refuses sequence number 0 and, reading closed and copying the key  *)
(* under one read lock, a closed session; otherwise the packet is sent.    *)
SealRefuses(w) == cur[w] = 0 \/ sendKey = "wiped"

Seal(w) ==
  /\ pc[w] = "seal"
  /\ \/ /\ SealRefuses(w)
        /\ UNCHANGED <<net, sealCount>>
     \/ /\ ~SealRefuses(w)
        /\ net' = net \cup {[seq |-> cur[w], key |-> sendKey]}
        /\ sealCount' = [sealCount EXCEPT ![cur[w]] = @ + 1]
  /\ Goto(w, "idle")
  /\ UNCHANGED <<sendSeq, exhausted, sendKey, cur, receiverVars>>

CloseSender ==
  /\ sendKey = "live"
  /\ sendKey' = "wiped"
  /\ UNCHANGED <<sendSeq, exhausted, pc, cur, net, sealCount, receiverVars>>

-----------------------------------------------------------------------------
(* The receiving side. *)

(* A datagram reaches a reader. *)
Receive(r) ==
  /\ rpc[r] = "idle"
  /\ \E p \in net : rpkt' = [rpkt EXCEPT ![r] = p]
  /\ rpc' = [rpc EXCEPT ![r] = "open"]
  /\ UNCHANGED <<recvKey, win, deliveries, senderVars>>

(* Open reads closed and copies the key under one read lock; the tag only  *)
(* verifies under the key that sealed the packet.                          *)
Verify(r) ==
  /\ rpc[r] = "open"
  /\ rpc' = [rpc EXCEPT ![r] =
               IF recvKey = "live" /\ rpkt[r].key = recvKey THEN "accept" ELSE "idle"]
  /\ UNCHANGED <<recvKey, win, rpkt, deliveries, senderVars>>

(* ReplayWindow.Accept, under the window's own mutex. *)
Accept(r) ==
  /\ rpc[r] = "accept"
  /\ LET s == rpkt[r].seq IN
       \/ /\ Fresh(win, s)
          /\ win' = Commit(win, s)
          /\ deliveries' = [deliveries EXCEPT ![s] = @ + 1]
       \/ /\ ~Fresh(win, s)
          /\ UNCHANGED <<win, deliveries>>
  /\ rpc' = [rpc EXCEPT ![r] = "idle"]
  /\ UNCHANGED <<recvKey, rpkt, senderVars>>

CloseReceiver ==
  /\ recvKey = "live"
  /\ recvKey' = "wiped"
  /\ UNCHANGED <<win, rpc, rpkt, deliveries, senderVars>>

-----------------------------------------------------------------------------
WriterStep(w) ==
  Gate(w) \/ Load(w) \/ Exhaust(w) \/ CompareAndSwap(w) \/ Seal(w)

ReaderStep(r) == Verify(r) \/ Accept(r)

Next ==
  \/ \E w \in Writers : StartSend(w) \/ WriterStep(w)
  \/ \E r \in Readers : Receive(r) \/ ReaderStep(r)
  \/ CloseSender
  \/ CloseReceiver

Spec == Init /\ [][Next]_vars

-----------------------------------------------------------------------------
(* The AES-GCM nonce is made of the session ID and the sequence number: two *)
(* packets of one direction never share a sequence number, however the     *)
(* writers' NextSeq and Seal calls interleave and when the counter ends.   *)
NonceUnique == \A s \in Seqs : sealCount[s] <= 1

(* Close may run between NextSeq and Seal; no packet is ever sealed with   *)
(* the zeroed key it leaves behind.                                        *)
NeverSealedWithWipedKey == \A p \in net : p.key # "wiped"

(* However often the network delivers a packet, and to however many reader *)
(* goroutines at once, it is handed on at most once.                       *)
DeliveredOnce == \A s \in Seqs : deliveries[s] <= 1

(* The filter drops nothing else: an authentic packet Accept refuses was   *)
(* handed on before, or is at least W numbers older than the newest one.   *)
RefusedOnlyIfSeenOrOld ==
  [][\A r \in Readers :
       (Accept(r) /\ deliveries' = deliveries) =>
         LET s == rpkt[r].seq IN
           \/ deliveries[s] > 0
           \/ \E m \in Seqs : deliveries[m] > 0 /\ m - s >= W]_vars

Once == INSTANCE OnceChannel WITH sealed <- sealCount, delivered <- deliveries

(* The session implements the at-most-once channel: a second packet under  *)
(* a number, a second delivery, or a delivery of what was never sealed is  *)
(* no step of OnceChannel.                                                 *)
ImplementsOnceChannel == Once!Spec
=============================================================================
