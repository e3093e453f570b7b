---------------------------- MODULE RouteChoice ----------------------------
(***************************************************************************)
(* Which candidate carries the game (pkg/client/client.go): the choice by  *)
(* round-trip time of selectBestCandidate, and localReadLoop, which sends  *)
(* each datagram of the game over the candidate chosen and, for 400 ms     *)
(* after a switch, also over the one before it.                            *)
(*                                                                         *)
(* The selector holds candidateMu, but reads each candidate under the      *)
(* candidate's own mutex and the mode from an atomic, so that packets,     *)
(* silence and SetMode fall between its reads.  The game's reader copies   *)
(* the route under candidateMu and sends after releasing it.  Candidates   *)
(* neither come nor go here and keep their class: see ClientRoute.         *)
(***************************************************************************)
EXTENDS Integers

CONSTANTS
  N,        \* the candidates are 1..N, in the order of the list
  Layouts,  \* what classes they may have
  Rtts,     \* round-trip times measured, in ms
  Margin    \* an improvement that is always worth a switch (5 ms in the code)

Cands == 1..N
None == 0
Classes == {"relay", "direct", "punch", "lan"}
Modes == {"auto", "direct-only", "relay-only"}

VARIABLES
  class, rtt, online,
  recent,   \* lastActive is at most 15 s ago
  mode,
  setter,   \* where SetMode's caller is
  best, prev,   \* bestCandidate, prevCandidate
  dual,     \* dualSendUntil is set
  scan,     \* where the selector is, the next candidate it reads, what it found
  settled,  \* history: nothing the selector reads has changed since it began
  game,     \* where the game's reader is, and the route it copied
  sent,     \* how often the datagram it read went over each candidate
  strict    \* history: the mode is what it was when the route was copied

candVars == <<class, rtt, online, recent>>
routeVars == <<best, prev, dual>>
modeVars == <<mode, setter>>
gameVars == <<game, sent, strict>>
vars == <<candVars, modeVars, routeVars, scan, settled, gameVars>>

NotScanning == [at |-> "idle", next |-> 1, pick |-> None, eff |-> 0]
NotSending == [at |-> "idle", active |-> None, other |-> None]

TypeOK ==
  /\ class \in [Cands -> Classes] /\ rtt \in [Cands -> Rtts]
  /\ online \in [Cands -> BOOLEAN] /\ recent \in [Cands -> BOOLEAN]
  /\ mode \in Modes /\ setter \in {"idle", "clear"}
  /\ best \in Cands \cup {None} /\ prev \in Cands \cup {None} /\ dual \in BOOLEAN
  /\ (dual <=> prev # None) /\ (dual => best # None)
  /\ scan \in [at : {"idle", "scan", "judge", "install"}, next : Cands,
               pick : Cands \cup {None}, eff : Nat]
  /\ settled \in BOOLEAN
  /\ game \in [at : {"idle", "active", "other"}, active : Cands \cup {None},
               other : Cands \cup {None}]
  /\ sent \in [Cands -> 0..2] /\ strict \in BOOLEAN

Init ==
  /\ class \in Layouts /\ rtt \in [Cands -> Rtts]
  /\ online = [c \in Cands |-> FALSE] /\ recent = online
  /\ mode = "auto" /\ setter = "idle"
  /\ best = None /\ prev = None /\ dual = FALSE
  /\ scan = NotScanning /\ settled = FALSE
  /\ game = NotSending /\ sent = [c \in Cands |-> 0] /\ strict = FALSE

CandidateMuFree == scan.at = "idle"

(* candidateAllowedValues, with the LAN enabled. *)
Allowed(c) ==
  CASE mode = "relay-only"  -> class[c] = "relay"
    [] mode = "direct-only" -> class[c] # "relay"
    [] OTHER                -> TRUE

Live(c) == online[c] /\ recent[c]

-----------------------------------------------------------------------------
(* A Pong or handshake response, or another packet, which leaves rtt as it *)
(* is; 15 s without one; the pinger's verdict on a silent candidate.       *)
Measure(c, r) ==
  /\ rtt' = [rtt EXCEPT ![c] = r]
  /\ online' = [online EXCEPT ![c] = TRUE] /\ recent' = [recent EXCEPT ![c] = TRUE]
  /\ settled' = FALSE
  /\ UNCHANGED <<class, modeVars, routeVars, scan, gameVars>>

GrowStale(c) ==
  /\ recent[c] /\ recent' = [recent EXCEPT ![c] = FALSE]
  /\ settled' = FALSE
  /\ UNCHANGED <<class, rtt, online, modeVars, routeVars, scan, gameVars>>

GoOffline(c) ==
  /\ online[c] /\ online' = [online EXCEPT ![c] = FALSE]
  /\ settled' = FALSE
  /\ UNCHANGED <<class, rtt, recent, modeVars, routeVars, scan, gameVars>>

(* SetMode stores the mode, and for relay-only clears the route; it then   *)
(* selects, as others do at any time.                                      *)
StoreMode(m) ==
  /\ setter = "idle" /\ m # mode
  /\ mode' = m /\ strict' = FALSE /\ settled' = FALSE
  /\ setter' = IF m = "relay-only" THEN "clear" ELSE "idle"
  /\ UNCHANGED <<candVars, routeVars, scan, game, sent>>

ClearRoute ==
  /\ setter = "clear" /\ CandidateMuFree
  /\ best' = IF best # None /\ ~Allowed(best) THEN None ELSE best
  /\ prev' = None /\ dual' = FALSE
  /\ setter' = "idle" /\ settled' = FALSE
  /\ UNCHANGED <<candVars, mode, scan, gameVars>>

-----------------------------------------------------------------------------
(* selectBestCandidate finds the candidate with the smallest round-trip    *)
(* time, a LAN's counting a tenth ...                                      *)
Effective(c) == IF class[c] = "lan" THEN rtt[c] \div 10 ELSE rtt[c]

SelectBegin ==
  /\ CandidateMuFree
  /\ scan' = [NotScanning EXCEPT !.at = "scan"] /\ settled' = TRUE
  /\ UNCHANGED <<candVars, modeVars, routeVars, gameVars>>

Better(c) ==
  /\ Allowed(c) /\ Live(c)
  /\ scan.pick = None \/ Effective(c) < scan.eff

Examine ==
  /\ scan.at = "scan"
  /\ LET c == scan.next
         found == IF Better(c) THEN [scan EXCEPT !.pick = c, !.eff = Effective(c)] ELSE scan
     IN scan' = IF c < N THEN [found EXCEPT !.next = c + 1]
                         ELSE [NotScanning EXCEPT !.at = "judge", !.pick = found.pick]
  /\ UNCHANGED <<candVars, modeVars, routeVars, settled, gameVars>>

(* ... keeps the current one if it is live and the other is little better  *)
(* ...                                                                     *)
SmallEither(from, to) ==   \* mutant: either margin keeps the route
  from - to < Margin \/ from - to < from \div 7
Small(from, to) == from - to < Margin /\ from - to < from \div 7

Keeps(pick) ==
  /\ best # None /\ Allowed(best) /\ Live(best)
  /\ class[pick] # "lan"
  /\ class[best] = "lan" \/ Small(rtt[best], rtt[pick])

WindowStays == dual   \* mutant: dualSendUntil is left as it was
WindowWithoutRoute == FALSE

Judge ==
  /\ scan.at = "judge"
  /\ IF scan.pick = None THEN best' = None /\ prev' = None /\ dual' = WindowWithoutRoute
     ELSE UNCHANGED routeVars
  /\ scan' = IF scan.pick \in {None, best} \/ Keeps(scan.pick)
               THEN NotScanning ELSE [scan EXCEPT !.at = "install"]
  /\ UNCHANGED <<candVars, modeVars, settled, gameVars>>

(* ... and otherwise switches.  The game is sent over both for a while if  *)
(* the old one still works; what a former switch left stays, otherwise.    *)
Install ==
  /\ scan.at = "install"
  /\ best' = scan.pick
  /\ IF best # None /\ online[best] /\ Allowed(best) /\ Allowed(scan.pick)
       THEN prev' = best /\ dual' = TRUE
       ELSE UNCHANGED <<prev, dual>>
  /\ scan' = NotScanning
  /\ UNCHANGED <<candVars, modeVars, settled, gameVars>>

-----------------------------------------------------------------------------
(* localReadLoop reads and seals a datagram, copies the route with the     *)
(* former one and its window, and sends.                                   *)
CopyRoute ==
  /\ game.at = "idle" /\ CandidateMuFree
  /\ game' = [at |-> "active", active |-> best, other |-> IF dual THEN prev ELSE None]
  /\ sent' = [c \in Cands |-> 0] /\ strict' = TRUE
  /\ UNCHANGED <<candVars, modeVars, routeVars, scan, settled>>

AnyRoute(c) == c # None   \* mutant: trusts the selector
MaySend(c) == c # None /\ Allowed(c)

SendActive ==
  /\ game.at = "active"
  /\ IF MaySend(game.active)
       THEN /\ sent' = [sent EXCEPT ![game.active] = @ + 1]
            /\ game' = [game EXCEPT !.at = "other"]
       ELSE UNCHANGED sent /\ game' = NotSending
  /\ UNCHANGED <<candVars, modeVars, routeVars, scan, settled, strict>>

AnyOther(c) == MaySend(c)   \* mutant: sends twice over a path switched back to
MayRepeat(c) == MaySend(c) /\ c # game.active

(* The window copied may have ended by now.                                *)
SendOther ==
  /\ game.at = "other"
  /\ \/ /\ MayRepeat(game.other)
        /\ sent' = [sent EXCEPT ![game.other] = @ + 1]
     \/ UNCHANGED sent
  /\ game' = NotSending
  /\ UNCHANGED <<candVars, modeVars, routeVars, scan, settled, strict>>

Next ==
  \/ \E c \in Cands : GrowStale(c) \/ GoOffline(c) \/ \E r \in Rtts : Measure(c, r)
  \/ \E m \in Modes : StoreMode(m)
  \/ ClearRoute \/ SelectBegin \/ Examine \/ Judge \/ Install
  \/ CopyRoute \/ SendActive \/ SendOther

Spec == Init /\ [][Next]_vars

-----------------------------------------------------------------------------
(* However switches follow one another, no path carries a datagram of the  *)
(* game twice (client.go:1356), and unless the mode changes meanwhile it   *)
(* takes only paths the mode allows (client.go:1353), though the route may *)
(* still be the one of the mode before.                                    *)
GameSentRight ==
  \A c \in Cands : sent[c] <= 1 /\ (sent[c] > 0 /\ strict => Allowed(c))

Worthwhile(from, to) == from > to /\ (from - to >= Margin \/ from - to >= from \div 7)

(* A selection nothing disturbed leaves no worthwhile improvement behind:  *)
(* the route is live and allowed, and unless it is a LAN no candidate is   *)
(* better by the margins (client.go:1224-1260); without one, none is live. *)
NearBest ==
  CandidateMuFree /\ settled =>
    LET eligible == {c \in Cands : Allowed(c) /\ Live(c)} IN
    IF eligible = {} THEN best = None
    ELSE /\ best \in eligible
         /\ class[best] # "lan" =>
              \A c \in eligible : ~Worthwhile(rtt[best], Effective(c))
=============================================================================
