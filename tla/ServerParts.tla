---------------------------- MODULE ServerParts ----------------------------
(***************************************************************************)
(* Three parts of the server that share no state, model-checked side by    *)
(* side: a behaviour is one of a single part, the others staying where     *)
(* they begin.                                                             *)
(***************************************************************************)
EXTENDS PunchWorker

CONSTANTS
  W, MaxSeq,                                        \* of ReplayWindow
  Sources, Trusted, Clients, Nobody, Cap, MaxFlows  \* of ProxySource

(* A word has a bit, a table room for a source, and Nobody is neither a   *)
(* source nor a client.                                                    *)
ASSUME PartsAssumption ==
  /\ W \in Nat \ {0} /\ MaxSeq \in Nat \ {0}
  /\ Nobody \notin Sources \cup Clients
  /\ Cap \in Nat \ {0} /\ MaxFlows \in Nat

VARIABLES
  part,   \* the part that runs
  initialized, max, bits,
  style, flow, header, flows, sole, recent, proxied, real, session, vouched

Replay == INSTANCE ReplayWindow
Proxy == INSTANCE ProxySource

replayVars == <<initialized, max, bits>>
proxyVars == <<style, flow, header, flows, sole, recent, proxied, real, session, vouched>>
allVars == <<part, vars, replayVars, proxyVars>>

PartsTypeOK == TypeOK /\ Replay!TypeOK /\ Proxy!TypeOK

(* A part that stays where it begins begins in one way only. *)
PartsInit ==
  /\ part \in {"punch", "replay", "proxy"}
  /\ Init /\ Replay!Init /\ Proxy!Init
  /\ part # "proxy" => style = [s \in Sources |-> "none"]

PartsNext ==
  /\ UNCHANGED part
  /\ \/ part = "punch" /\ Next /\ UNCHANGED <<replayVars, proxyVars>>
     \/ part = "replay" /\ Replay!Next /\ UNCHANGED <<vars, proxyVars>>
     \/ part = "proxy" /\ Proxy!Next /\ UNCHANGED <<vars, replayVars>>

(* What a part is fair to is never enabled where the part begins. *)
PartsSpec == PartsInit /\ [][PartsNext]_allVars /\ Fairness

(* The replay filter's arithmetic is the sliding window of the sessions    *)
(* (session.go:442-467): see ReplayWindow.                                 *)
ArithmeticIsSlidingWindow == Replay!ArithmeticIsSlidingWindow

(* Relay or direct, and the address reflected (server.go:1159-1228): see   *)
(* ProxySource.                                                            *)
PathToldRight == Proxy!PathToldRight
=============================================================================
