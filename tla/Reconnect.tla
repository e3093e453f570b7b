----------------------------- MODULE Reconnect -----------------------------
(***************************************************************************)
(* How the client finds its way back after an outage                       *)
(* (pkg/client/client.go).  pingProbeLoop goes over all candidates on a    *)
(* ticker: it pings those that were heard lately, throttles handshakes to  *)
(* the others, and discards the session when none was heard.  The read     *)
(* loops revive a candidate whenever something arrives on its socket, at   *)
(* any point of the pinger's round, also between what it reads of the      *)
(* candidate it visits and what it stores: then the revival is overwritten *)
(* with "offline", although the candidate was just heard.                  *)
(*                                                                         *)
(* Time is counted in rounds of the ticker (3 s).  age[c] is the number of *)
(* ticks since something arrived on candidate c, at most StaleRounds + 1;  *)
(* "within 15 s" is age[c] <= StaleRounds.  What Handshake models in       *)
(* detail is one exchange here: a handshake that gets through gives the    *)
(* client a session that the server knows.                                 *)
(*                                                                         *)
(* While a game is connected a punch candidate may be silent for 2.5 s     *)
(* only, which is less than a round.  fresh holds the punch candidates     *)
(* heard in the last 2.5 s before the tick: game data, which flows many    *)
(* times a second over the route, but not the answer to the ping of the    *)
(* tick before, which comes half a second too early.                       *)
(***************************************************************************)
EXTENDS Naturals, FiniteSets

CONSTANTS
  Relays,       \* candidates whose path the server classifies as relay
  Directs,      \* candidates whose path it classifies as direct
  Punches,      \* punch candidates
  None,         \* no candidate
  Mode,         \* "auto", "relay-only" or "direct-only"
  StaleRounds,  \* 15 s
  RetryRounds,  \* the 10 s between two handshakes to a candidate
  MaxFaults     \* bound on outages, lost datagrams and server restarts

Cands == Relays \cup Directs \cup Punches

ASSUME ReconnectAssumption ==
  /\ None \notin Cands /\ IsFiniteSet(Cands)
  /\ Relays \cap Directs = {} /\ (Relays \cup Directs) \cap Punches = {}
  /\ Mode \in {"auto", "relay-only", "direct-only"}
  /\ StaleRounds \in Nat /\ RetryRounds \in Nat /\ MaxFaults \in Nat

VARIABLES
  session,    \* "none", "live", or "dead" once the server has forgotten it
  age,        \* ticks since lastActive
  wait,       \* ticks since lastHandshake, which matters only to those greeted
  online,
  pathClass,  \* "" until the first Pong, or until a punch is established
  best,       \* bestCandidate
  todo,       \* candidates the pinger has yet to visit in its round
  visit,      \* the one it visits, and what it has read of it
  pinging,    \* the pinger is in a round
  anyOnline, anyRecent,
  game,       \* a game is connected: gameConnAddr # nil
  fresh,      \* punch candidates heard in the last 2.5 s before the tick
  msgs,       \* exchanges under way: a ping or a handshake on a candidate
  up,         \* the candidate's path works
  faults

candVars == <<age, wait, online, pathClass>>
roundVars == <<todo, visit, pinging, anyOnline, anyRecent>>
gameVars == <<game, fresh>>
netVars == <<msgs, up, faults>>
vars == <<session, candVars, best, roundVars, gameVars, netVars>>

NoVisit == [cand |-> None, heard |-> FALSE, ask |-> FALSE]
Visits == [cand : Cands, heard : BOOLEAN, ask : BOOLEAN]

Msgs == [kind : {"ping", "handshake"}, cand : Cands]
Ping(c) == [kind |-> "ping", cand |-> c]
Handshake(c) == [kind |-> "handshake", cand |-> c]
Class(c) == IF c \in Relays THEN "relay" ELSE IF c \in Directs THEN "direct" ELSE "punch"

(* What a Pong alone makes of an unclassified candidate that is not a      *)
(* punch candidate: an old server, which sent no hints, was taken for one  *)
(* behind a relay.                                                         *)
Fallback(c) == IF c \in Punches THEN {} ELSE {"relay"}

TypeOK ==
  /\ session \in {"none", "live", "dead"}
  /\ age \in [Cands -> 0..(StaleRounds + 1)]
  /\ wait \in [Cands \ Punches -> 0..RetryRounds]
  /\ online \in [Cands -> BOOLEAN]
  /\ \A c \in Cands : pathClass[c] \in {Class(c), ""} \cup Fallback(c)
  /\ best \in Cands \cup {None}
  /\ best # None => pathClass[best] # ""
  /\ todo \subseteq Cands
  /\ visit \in (Visits \cup {NoVisit}) /\ visit.cand \notin todo
  /\ pinging \in BOOLEAN /\ (todo # {} \/ visit # NoVisit => pinging)
  /\ anyOnline \in BOOLEAN /\ anyRecent \in BOOLEAN
  /\ anyOnline \/ anyRecent => pinging
  /\ game \in BOOLEAN /\ fresh \subseteq Punches
  /\ msgs \subseteq Msgs
  /\ up \in [Cands -> BOOLEAN]
  /\ faults \in 0..MaxFaults

(* Start sends a first handshake over every configured candidate. *)
Init ==
  /\ session = "none"
  /\ age = [c \in Cands |-> StaleRounds + 1]
  /\ wait = [c \in Cands \ Punches |-> RetryRounds]
  /\ online = [c \in Cands |-> FALSE]
  /\ pathClass = [c \in Cands |-> ""]
  /\ best = None
  /\ todo = {} /\ visit = NoVisit /\ pinging = FALSE /\ anyOnline = FALSE /\ anyRecent = FALSE
  /\ game = FALSE /\ fresh = {}
  /\ msgs = {Handshake(c) : c \in Cands \ Punches}
  /\ up = [c \in Cands |-> TRUE]
  /\ faults = 0

-----------------------------------------------------------------------------
Recent(c) == age[c] <= StaleRounds

(* candidateAllowedValues *)
AllowedUnclassified(c) ==   \* mutant: auto admits what is not classified
  CASE Mode = "relay-only"  -> pathClass[c] = "relay"
    [] Mode = "direct-only" -> pathClass[c] \in {"direct", "punch"}
    [] OTHER                -> TRUE

Allowed(c) ==
  CASE Mode = "relay-only"  -> pathClass[c] = "relay"
    [] Mode = "direct-only" -> pathClass[c] \in {"direct", "punch"}
    [] OTHER                -> pathClass[c] # ""

Eligible == {c \in Cands : Allowed(c) /\ online[c] /\ Recent(c)}

(* selectBestCandidate without round-trip times: some eligible candidate,  *)
(* none if there is none.                                                  *)
Select == best' \in IF Eligible' = {} THEN {None} ELSE Eligible'

(* sendHandshake: with a session it is only a ping. *)
Greeting(c) == IF session = "none" THEN Handshake(c) ELSE Ping(c)

-----------------------------------------------------------------------------
(* pingProbeLoop. *)

Older(f, limit) == [c \in DOMAIN f |-> IF f[c] < limit THEN f[c] + 1 ELSE limit]

(* A round trip on a working path takes less than a round; what has no     *)
(* answer by the next tick never will.                                     *)
Answerable(m) == up[m.cand] /\ (m.kind = "handshake" \/ session = "live")

(* Game data comes back over the route while it works.                     *)
Flows == game /\ session = "live" /\ best # None /\ up[best]

(* checkGameConnectionClosed: after 30 s without a packet of its own, the  *)
(* game is taken for gone.                                                 *)
CheckGameConnectionClosed == game' \in {FALSE, game}

Tick ==
  /\ ~pinging
  /\ (\A m \in msgs : ~Answerable(m)) /\ msgs' = {}
  /\ Flows => best \in fresh \cup (Cands \ Punches)
  /\ CheckGameConnectionClosed /\ UNCHANGED fresh
  /\ pinging' = TRUE /\ todo' = Cands
  /\ age' = Older(age, StaleRounds + 1)
  /\ wait' = Older(wait, RetryRounds)
  /\ UNCHANGED <<session, online, pathClass, best, visit, anyOnline, anyRecent, up, faults>>

(* In the order of Client.candidates: a punch candidate is appended when   *)
(* its endpoint is offered, after those of the configuration.              *)
(* Of each it reads class and age, releases the candidate's lock, and acts *)
(* on what it read, whatever a read loop has stored meanwhile.             *)
PatientAlways(c) == Recent(c)   \* mutant
HeardLately(c) == Recent(c) /\ (game /\ c \in Punches => c \in fresh)

(* Under relay-only only a candidate that is not classified yet is greeted. *)
AskUnclassified(c) == pathClass[c] = ""   \* mutant: whatever the mode
MayAsk(c) == Mode # "relay-only" \/ pathClass[c] = ""

Look(c) ==
  /\ visit = NoVisit
  /\ c \in todo
  /\ c \in Punches => todo \subseteq Punches
  /\ todo' = todo \ {c}
  /\ visit' = [cand |-> c, heard |-> Allowed(c) /\ HeardLately(c), ask |-> MayAsk(c)]
  /\ anyRecent' = (anyRecent \/ Recent(c))
  /\ UNCHANGED <<session, candVars, best, pinging, anyOnline, gameVars, netVars>>

StoreOnline ==
  /\ visit # NoVisit /\ visit.heard
  /\ visit' = NoVisit
  /\ online' = [online EXCEPT ![visit.cand] = TRUE]
  /\ anyOnline' = TRUE
  /\ msgs' = IF session = "none" THEN msgs ELSE msgs \cup {Ping(visit.cand)}
  /\ UNCHANGED <<session, age, wait, pathClass, best, todo, pinging, anyRecent, gameVars,
                 up, faults>>

(* Handshakes go out at most every 10 s, and never over a punch candidate. *)
MayGreet(c) == c \notin Punches /\ wait[c] = RetryRounds /\ visit.ask

StoreOffline ==
  /\ visit # NoVisit /\ ~visit.heard
  /\ visit' = NoVisit
  /\ online' = [online EXCEPT ![visit.cand] = FALSE]
  /\ wait' = [wait EXCEPT ![visit.cand] = IF @ = RetryRounds THEN 0 ELSE @]
  /\ msgs' = msgs \cup IF MayGreet(visit.cand) THEN {Greeting(visit.cand)} ELSE {}
  /\ UNCHANGED <<session, age, pathClass, best, todo, pinging, anyOnline, anyRecent, gameVars,
                 up, faults>>

(* The end of a round: select, and with no candidate left give the session *)
(* up and greet everyone (resetSecureSessionForReconnect, sendHandshake).  *)
KeepsSession == FALSE   \* mutant: never gives it up
GivesUp == ~anyOnline /\ ~anyRecent /\ session # "none"

EndRound ==
  /\ pinging /\ todo = {} /\ visit = NoVisit
  /\ pinging' = FALSE /\ anyOnline' = FALSE /\ anyRecent' = FALSE
  /\ IF GivesUp
       THEN /\ session' = "none"
            /\ msgs' = msgs \cup {Handshake(c) : c \in Cands \ Punches}
       ELSE UNCHANGED <<session, msgs>>
  /\ fresh' = {}
  /\ UNCHANGED <<candVars, todo, visit, game, up, faults>>
  /\ Select

-----------------------------------------------------------------------------
(* The server's answers, handled by the candidate's read loop. *)

Heard(c) ==
  /\ age' = [age EXCEPT ![c] = 0]
  /\ online' = [online EXCEPT ![c] = TRUE]
  /\ UNCHANGED game

(* What arrives within a round is later than the tick of this round.       *)
HeardEarly(c) ==
  /\ Heard(c)
  /\ fresh' = IF pinging /\ c \in Punches THEN fresh \cup {c} ELSE fresh

HeardLate(c) ==
  /\ Heard(c)
  /\ fresh' = IF c \in Punches THEN fresh \cup {c} ELSE fresh

(* A PathHint and a Pong. *)
Pong(c) ==
  /\ Ping(c) \in msgs /\ Answerable(Ping(c))
  /\ HeardEarly(c)
  /\ pathClass' = [pathClass EXCEPT ![c] = Class(c)]
  /\ msgs' = msgs \ {Ping(c)}
  /\ UNCHANGED <<session, wait, roundVars, up, faults>>
  /\ Select

(* The Pong arrives without its PathHint, which was lost or overtaken.     *)
PongWithoutHint(c) ==
  /\ Ping(c) \in msgs /\ Answerable(Ping(c))
  /\ faults < MaxFaults /\ faults' = faults + 1
  /\ HeardEarly(c)
  /\ IF pathClass[c] = "" /\ Fallback(c) # {}
       THEN pathClass' = [pathClass EXCEPT ![c] = "relay"]
       ELSE UNCHANGED pathClass
  /\ msgs' = msgs \ {Ping(c)}
  /\ UNCHANGED <<session, wait, roundVars, up>>
  /\ Select

(* handleHandshakeResponse: the first answer brings the session; each is   *)
(* followed by a ping on its candidate.                                    *)
HandshakeResp(c) ==
  /\ Handshake(c) \in msgs /\ Answerable(Handshake(c))
  /\ session' = IF session = "none" THEN "live" ELSE session
  /\ HeardEarly(c)
  /\ msgs' = (msgs \ {Handshake(c)}) \cup {Ping(c)}
  /\ UNCHANGED <<pathClass, wait, roundVars, up, faults>>
  /\ Select

(* establishPunch: the first packet over the punched path ends it. *)
Establish(c) ==
  /\ c \in Punches /\ pathClass[c] = ""
  /\ session = "live" /\ up[c]
  /\ HeardEarly(c) \/ HeardLate(c)
  /\ pathClass' = [pathClass EXCEPT ![c] = "punch"]
  /\ UNCHANGED <<session, wait, roundVars, netVars>>
  /\ Select

(* Game data over the route. *)
GameData ==
  /\ Flows /\ best \in Punches
  /\ HeardLate(best)
  /\ UNCHANGED <<session, wait, pathClass, roundVars, netVars>>
  /\ UNCHANGED best

(* The game's first packet (localReadLoop); within a round it counts after *)
(* the round.                                                              *)
GameStarts ==
  /\ ~game /\ ~pinging /\ game' = TRUE
  /\ UNCHANGED <<session, candVars, best, roundVars, fresh, netVars>>

-----------------------------------------------------------------------------
(* Faults: a path fails and returns, a datagram is lost, the server        *)
(* restarts.  What is sent into a failed path is lost; a ping of a session *)
(* the server does not know is ignored.                                    *)

Fault == faults < MaxFaults /\ faults' = faults + 1

PathFails(c) ==
  /\ up[c] /\ Fault
  /\ up' = [up EXCEPT ![c] = FALSE]
  /\ UNCHANGED <<session, candVars, best, roundVars, gameVars, msgs>>

PathReturns(c) ==
  /\ ~up[c]
  /\ up' = [up EXCEPT ![c] = TRUE]
  /\ UNCHANGED <<session, candVars, best, roundVars, gameVars, msgs, faults>>

Lose(m) ==
  /\ m \in msgs
  /\ IF Answerable(m) THEN Fault ELSE UNCHANGED faults
  /\ msgs' = msgs \ {m}
  /\ UNCHANGED <<session, candVars, best, roundVars, gameVars, up>>

Restart ==
  /\ session = "live" /\ Fault
  /\ session' = "dead"
  /\ UNCHANGED <<candVars, best, roundVars, gameVars, msgs, up>>

Next ==
  \/ Tick \/ StoreOnline \/ StoreOffline \/ EndRound
  \/ \E c \in Cands :
       Look(c) \/ Pong(c) \/ PongWithoutHint(c)
         \/ HandshakeResp(c) \/ Establish(c) \/ PathFails(c) \/ PathReturns(c)
  \/ \E m \in Msgs : Lose(m)
  \/ Restart \/ GameData \/ GameStarts

(* The ticker ticks, the pinger goes through its round, outages end, and   *)
(* what can be answered is, or is lost, counted as a fault.                *)
Fairness ==
  /\ WF_vars(Tick) /\ WF_vars(EndRound) /\ WF_vars(GameData)
  /\ WF_vars(StoreOnline \/ StoreOffline)
  /\ \A c \in Cands :
       /\ WF_vars(Look(c)) /\ WF_vars(Pong(c)) /\ WF_vars(HandshakeResp(c))
       /\ WF_vars(PathReturns(c))

Spec == Init /\ [][Next]_vars
FairSpec == Spec /\ Fairness

-----------------------------------------------------------------------------
(* "Auto-reconnect" (README.md:40; the log of client.go:1848 says          *)
(* "Retrying connection..."): once the faults are over the client comes to *)
(* hold a session the server knows and a route, for good.                  *)
Reconnects == <>[](session = "live" /\ best # None)

Usable == {c \in Cands : CASE Mode = "relay-only" -> c \in Relays
                           [] Mode = "direct-only" -> c \notin Relays
                           [] OTHER -> TRUE}

(* After the faults every candidate of the mode's class carries traffic    *)
(* again, so that a second failure still finds a route to fall back to,    *)
(* although the pinger may overwrite a revival with "offline"              *)
(* (client.go:1808-1809): it goes by lastActive, which it does not write,  *)
(* and so finds the candidate recent at its next visit (1779, 1792), and   *)
(* greets one that is not every 10 s (1828).                               *)
AllRecover == <>[](\A c \in Usable \ Punches : c \in Eligible)

(* A punch candidate that was established comes back after it fell silent: *)
(* "its establishment goroutine handles recovery instead" of handshakes     *)
(* (client.go:1822-1824), so that the client can "fall back to the punched  *)
(* direct path if the relay dies" (1231-1232).  Only the server's probing, *)
(* which this module leaves out, keeps it heard, and that ends 30 s after  *)
(* the last PunchInit (server.go:907).                                     *)
PunchRecovers == \A p \in Punches : pathClass[p] = "punch" ~> p \in Eligible

(* During a game no round of the pinger leaves the data on a punch         *)
(* candidate that was silent for 2.5 s before it (client.go:1784-1792).    *)
FastFailover == [][EndRound /\ game /\ best' \in Punches => best' \in fresh]_vars
=============================================================================
