---------------------------- MODULE ClientParts ----------------------------
(***************************************************************************)
(* Two parts of the client, model-checked side by side as those of         *)
(* ServerParts are: its candidates under the operator's modes, and its     *)
(* goroutines and sockets while it stops.                                  *)
(***************************************************************************)
EXTENDS ClientRoute

CONSTANTS Configured, Advertised, Sockets, Nothing  \* of Lifecycle

VARIABLES
  part,   \* the part that runs
  start, stop, localOpen, conn, known, tasks, puncher, natDetecting, detecting, doing

Life == INSTANCE Lifecycle WITH Punches <- Sockets, listed <- known

(* A candidate is somewhere.                                               *)
ASSUME LifeAssumption == Nothing \notin Configured \cup Advertised \cup Sockets

lifeVars ==
  <<start, stop, localOpen, conn, known, tasks, puncher, natDetecting, detecting, doing>>
allVars == <<part, vars, lifeVars>>

PartsTypeOK == TypeOK /\ Life!TypeOK

PartsInit == part \in {"route", "life"} /\ Init /\ Life!Init

PartsNext ==
  /\ UNCHANGED part
  /\ \/ part = "route" /\ Next /\ UNCHANGED lifeVars
     \/ part = "life" /\ Life!Next /\ UNCHANGED vars

(* What Lifecycle is fair to is never enabled where it begins.             *)
PartsSpec == PartsInit /\ [][PartsNext]_allVars /\ Life!Fairness

(* The client's tasks and sockets, and its Stop (client.go:1919-1970): see *)
(* Lifecycle.                                                              *)
StopLeavesNothing == Life!StopLeavesNothing
StopReturns == Life!StopReturns
=============================================================================
