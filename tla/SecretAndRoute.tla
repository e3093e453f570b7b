--------------------------- MODULE SecretAndRoute ---------------------------
(***************************************************************************)
(* Two more parts that share no state, model-checked side by side as those *)
(* of ServerParts are: the shared key's file, and the client's choice of a *)
(* route.                                                                  *)
(***************************************************************************)
EXTENDS SecretFile

CONSTANTS N, Layouts, Rtts, Margin

VARIABLES
  part,   \* the part that runs
  class, rtt, online, recent, mode, setter, best, prev, dual, scan, settled,
  game, sent, strict

Route == INSTANCE RouteChoice

(* Times are counted in milliseconds.                                      *)
ASSUME RouteAssumption ==
  /\ N \in Nat \ {0} /\ Margin \in Nat /\ Rtts \subseteq Nat
  /\ Layouts \subseteq [1..N -> Route!Classes]

(* A relay beside a direct path, and a punched path beside one in the LAN. *)
TwoLayouts == {<<"relay", "direct">>, <<"punch", "lan">>}

routeVars ==
  <<class, rtt, online, recent, mode, setter, best, prev, dual, scan, settled,
    game, sent, strict>>
allVars == <<part, vars, routeVars>>

BothTypeOK == TypeOK /\ Route!TypeOK

(* A part that stays where it begins begins in one way only. *)
BothInit ==
  /\ part \in {"secret", "route"}
  /\ Init /\ Route!Init
  /\ part # "secret" => file.kind = "missing" /\ ~private
  /\ part # "route" => /\ class = CHOOSE l \in Layouts : TRUE
                       /\ \A c \in 1..N : rtt[c] = CHOOSE r \in Rtts : TRUE

BothNext ==
  /\ UNCHANGED part
  /\ \/ part = "secret" /\ Next /\ UNCHANGED routeVars
     \/ part = "route" /\ Route!Next /\ UNCHANGED vars

BothSpec == BothInit /\ [][BothNext]_allVars

(* The datagrams of the game, and the route chosen (client.go:1175-1365):  *)
(* see RouteChoice.                                                        *)
GameSentRight == Route!GameSentRight
NearBest == Route!NearBest
=============================================================================
