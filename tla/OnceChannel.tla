---------------------------- MODULE OnceChannel ----------------------------
(***************************************************************************)
(* What one direction of a secure session promises to the code above it:   *)
(* a sequence number seals at most one packet, and a sealed packet is      *)
(* handed to the receiver's handlers at most once.  Loss is allowed, and   *)
(* so is any order.  The counters let a second seal or delivery show.      *)
(***************************************************************************)
EXTENDS Naturals

CONSTANT Seqs

VARIABLES
  sealed,     \* how many packets were sealed under each sequence number
  delivered   \* how many times each number's packet was handed on

Init ==
  /\ sealed = [s \in Seqs |-> 0]
  /\ delivered = [s \in Seqs |-> 0]

Seal(s) ==
  /\ sealed[s] = 0
  /\ sealed' = [sealed EXCEPT ![s] = 1]
  /\ UNCHANGED delivered

Deliver(s) ==
  /\ sealed[s] = 1
  /\ delivered[s] = 0
  /\ delivered' = [delivered EXCEPT ![s] = 1]
  /\ UNCHANGED sealed

Next == \E s \in Seqs : Seal(s) \/ Deliver(s)

Spec == Init /\ [][Next]_<<sealed, delivered>>
=============================================================================
