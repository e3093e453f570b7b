-------------------------- MODULE ReconnectProofs --------------------------
(***************************************************************************)
(* Proofs about Reconnect: for any candidates, mode and bounds on time and *)
(* faults, every variable keeps its type, and no round of the pinger       *)
(* leaves a game on a punch candidate that fell silent.                    *)
(*                                                                         *)
(* FastFailover is about the last step of a round and says nothing of the  *)
(* round before it.  IInv adds what the round has achieved half-way: every *)
(* punch candidate it has visited is offline or fresh (Sifted), whatever   *)
(* the read loops revived meanwhile, because what they hear within a round *)
(* counts as heard.  Of the one being visited only this is known: if the   *)
(* pinger has read that it was heard, and so will store it as online, it   *)
(* is fresh, and stays so until the store.                                 *)
(***************************************************************************)
EXTENDS Reconnect, TLAPS

PathClasses == {"", "relay", "direct", "punch"}

(* TypeOK by the variables that change together. *)
CandOK ==
  /\ age \in [Cands -> 0..(StaleRounds + 1)]
  /\ wait \in [Cands \ Punches -> 0..RetryRounds]
  /\ online \in [Cands -> BOOLEAN]
ClassOK ==
  /\ pathClass \in [Cands -> PathClasses]
  /\ \A c \in Cands : pathClass[c] \in {Class(c), ""} \cup Fallback(c)
BestOK ==
  /\ best \in Cands \cup {None}
  /\ best # None => pathClass[best] # ""
RoundOK ==
  /\ todo \subseteq Cands
  /\ visit \in Visits \cup {NoVisit} /\ visit.cand \notin todo
  /\ pinging \in BOOLEAN /\ (todo # {} \/ visit # NoVisit => pinging)
  /\ anyOnline \in BOOLEAN /\ anyRecent \in BOOLEAN
  /\ anyOnline \/ anyRecent => pinging
GameOK == game \in BOOLEAN /\ fresh \subseteq Punches
NetOK ==
  /\ session \in {"none", "live", "dead"}
  /\ msgs \subseteq Msgs
  /\ up \in [Cands -> BOOLEAN]
  /\ faults \in 0..MaxFaults

(* What the pinger has visited in a game is offline or was heard, and so   *)
(* was what it is about to store as online.                                *)
Sifted ==
  pinging /\ game =>
    /\ \A p \in Punches \ todo : online[p] => p = visit.cand \/ p \in fresh
    /\ visit.heard /\ visit.cand \in Punches => visit.cand \in fresh

IInv == CandOK /\ ClassOK /\ BestOK /\ RoundOK /\ GameOK /\ NetOK /\ Sifted

(* What is sent is a message, and what a classification leads to a class.  *)
LEMMA MsgsOK ==
  ASSUME NEW c \in Cands
  PROVE  Ping(c) \in Msgs /\ Handshake(c) \in Msgs /\ Greeting(c) \in Msgs
BY DEF Ping, Handshake, Greeting, Msgs

LEMMA ClassesOK ==
  ASSUME NEW c \in Cands
  PROVE  /\ Class(c) \in PathClasses \ {""}
         /\ Fallback(c) \subseteq {"relay"}
BY DEF Class, PathClasses, Fallback

(* The candidate selected is classified and online, whatever the mode.     *)
LEMMA SelectOK ==
  ASSUME Select
  PROVE  /\ best' \in Cands \cup {None}
         /\ best' # None => pathClass'[best'] # "" /\ online'[best']
<1>1. \A c : Allowed(c)' => pathClass'[c] # ""
  <2> SUFFICES ASSUME NEW c, Allowed(c)' PROVE pathClass'[c] # ""
    OBVIOUS
  <2>1. CASE Mode = "relay-only"
    BY <2>1 DEF Allowed
  <2>2. CASE Mode = "direct-only"
    BY <2>2 DEF Allowed
  <2>3. CASE Mode \notin {"relay-only", "direct-only"}
    BY <2>3 DEF Allowed
  <2> QED
    BY <2>1, <2>2, <2>3
<1>2. best' \in Eligible' \cup {None}
  BY DEF Select
<1> QED
  BY <1>1, <1>2 DEF Eligible

(* Faults are counted within their bound.                                  *)
LEMMA FaultsOK == ASSUME NetOK, faults' = faults \/ Fault PROVE faults' \in 0..MaxFaults
BY ReconnectAssumption DEF NetOK, Fault

LEMMA InitIInv == Init => IInv
<1> SUFFICES ASSUME Init PROVE IInv
  OBVIOUS
<1>1. CandOK /\ ClassOK
  <2>1. StaleRounds + 1 \in 0..(StaleRounds + 1) /\ RetryRounds \in 0..RetryRounds
    BY ReconnectAssumption
  <2>2. CandOK
    BY <2>1 DEF Init, CandOK
  <2>3. ClassOK
    BY DEF Init, ClassOK, PathClasses
  <2> QED
    BY <2>2, <2>3
<1>2. BestOK /\ RoundOK /\ GameOK /\ Sifted
  BY DEF Init, BestOK, RoundOK, GameOK, Sifted, NoVisit
<1>3. msgs \subseteq Msgs
  BY MsgsOK DEF Init
<1>4. NetOK
  <2>1. 0 \in 0..MaxFaults
    BY ReconnectAssumption
  <2> QED
    BY <1>3, <2>1 DEF Init, NetOK
<1> QED
  BY <1>1, <1>2, <1>4 DEF IInv

-----------------------------------------------------------------------------
(* Counters of rounds stay below their limits.                             *)
LEMMA OlderOK ==
  ASSUME NEW S, NEW limit \in Nat, NEW f \in [S -> 0..limit]
  PROVE  Older(f, limit) \in [S -> 0..limit]
<1>1. \A c \in S : f[c] \in 0..limit
  OBVIOUS
<1>2. \A c \in S : (IF f[c] < limit THEN f[c] + 1 ELSE limit) \in 0..limit
  BY <1>1
<1> QED
  BY <1>2 DEF Older

(* The pinger's steps.                                                     *)
LEMMA TickIInv == ASSUME IInv, Tick PROVE IInv'
<1>1. /\ pinging' = TRUE /\ todo' = Cands /\ visit = NoVisit
      /\ msgs' = {}
      /\ UNCHANGED <<session, online, pathClass, best, visit, anyOnline, anyRecent, fresh,
                     up, faults>>
  BY DEF Tick, IInv, RoundOK
<1>2. CandOK'
  <2>1. StaleRounds + 1 \in Nat /\ RetryRounds \in Nat
    BY ReconnectAssumption
  <2>2. /\ age' = Older(age, StaleRounds + 1) /\ wait' = Older(wait, RetryRounds)
    BY DEF Tick
  <2> QED
    BY <1>1, <2>1, <2>2, OlderOK DEF IInv, CandOK
<1>3. ClassOK' /\ BestOK' /\ NetOK'
  BY <1>1 DEF IInv, ClassOK, BestOK, NetOK
<1>4. RoundOK'
  BY <1>1, ReconnectAssumption DEF IInv, RoundOK, NoVisit
<1>5. GameOK'
  BY <1>1 DEF IInv, GameOK, Tick, CheckGameConnectionClosed
<1>6. Sifted'
  BY <1>1 DEF Sifted, Cands, NoVisit
<1> QED
  BY <1>2, <1>3, <1>4, <1>5, <1>6 DEF IInv

LEMMA LookIInv ==
  ASSUME IInv, NEW c \in Cands, Look(c)
  PROVE  IInv'
<1>1. /\ visit = NoVisit /\ c \in todo /\ todo' = todo \ {c}
      /\ anyRecent' = (anyRecent \/ Recent(c))
      /\ UNCHANGED <<session, age, wait, online, pathClass, best, pinging, anyOnline, game,
                     fresh, msgs, up, faults>>
  BY DEF Look, candVars, gameVars, netVars
<1>2. PICK h \in BOOLEAN, a \in BOOLEAN : /\ visit' = [cand |-> c, heard |-> h, ask |-> a]
                                          /\ h => HeardLately(c)
  <2> DEFINE h == Allowed(c) /\ HeardLately(c)
             a == MayAsk(c)
  <2>1. visit' = [cand |-> c, heard |-> h, ask |-> a]
    BY DEF Look
  <2>2. h \in BOOLEAN /\ a \in BOOLEAN
    BY DEF Allowed, HeardLately, MayAsk, Recent
  <2>3. h => HeardLately(c)
    OBVIOUS
  <2> QED
    BY <2>1, <2>2, <2>3
<1>3. CandOK' /\ ClassOK' /\ BestOK' /\ GameOK' /\ NetOK'
  BY <1>1 DEF IInv, CandOK, ClassOK, BestOK, GameOK, NetOK
<1>4. RoundOK'
  <2>1. visit'.cand = c /\ visit' \in Visits
    BY <1>2 DEF Visits
  <2>2. pinging /\ anyRecent' \in BOOLEAN
    BY <1>1 DEF IInv, RoundOK, Recent
  <2> QED
    BY <1>1, <2>1, <2>2 DEF IInv, RoundOK
<1>5. Sifted'
  <2> SUFFICES ASSUME pinging, game
               PROVE  /\ \A p \in Punches \ todo' : online[p] => p = c \/ p \in fresh
                      /\ visit'.heard /\ c \in Punches => c \in fresh
    BY <1>1, <1>2 DEF Sifted
  <2>1. ASSUME NEW p \in Punches \ todo', online[p] PROVE p = c \/ p \in fresh
    BY <1>1, <2>1, ReconnectAssumption DEF IInv, Sifted, NoVisit, Cands
  <2>2. visit'.heard /\ c \in Punches => c \in fresh
    BY <1>2 DEF HeardLately
  <2> QED
    BY <2>1, <2>2
<1> QED
  BY <1>3, <1>4, <1>5 DEF IInv

(* The end of a visit, whatever is stored: the candidate stored as online  *)
(* was heard, and the one stored as offline is no concern of Sifted.       *)
LEMMA StoreIInv == ASSUME IInv, StoreOnline \/ StoreOffline PROVE IInv'
<1> DEFINE c == visit.cand
<1>1. /\ visit # NoVisit /\ visit' = NoVisit
      /\ online' = [online EXCEPT ![c] = visit.heard]
      /\ UNCHANGED <<session, age, pathClass, best, todo, pinging, anyRecent, game, fresh, up,
                     faults>>
  <2>1. visit # NoVisit /\ visit.heard \in BOOLEAN
    BY DEF StoreOnline, StoreOffline, IInv, RoundOK, Visits
  <2> QED
    BY <2>1 DEF StoreOnline, StoreOffline, gameVars
<1>2. c \in Cands /\ visit.heard \in BOOLEAN /\ pinging
  BY <1>1 DEF IInv, RoundOK, Visits
<1>3. wait' \in [Cands \ Punches -> 0..RetryRounds]
  <2>1. 0 \in 0..RetryRounds
    BY ReconnectAssumption
  <2>2. c \in Cands \ Punches => (IF wait[c] = RetryRounds THEN 0 ELSE wait[c]) \in 0..RetryRounds
    BY <2>1 DEF IInv, CandOK
  <2> QED
    BY <2>2 DEF StoreOnline, StoreOffline, IInv, CandOK
<1>4. CandOK'
  BY <1>1, <1>2, <1>3 DEF IInv, CandOK
<1>5. ClassOK' /\ BestOK' /\ GameOK'
  BY <1>1 DEF IInv, ClassOK, BestOK, GameOK
<1>6. RoundOK'
  <2>1. None \notin todo
    BY ReconnectAssumption DEF IInv, RoundOK
  <2>2. anyOnline' \in BOOLEAN
    BY DEF StoreOnline, StoreOffline, IInv, RoundOK
  <2> QED
    BY <1>1, <1>2, <2>1, <2>2 DEF IInv, RoundOK, NoVisit
<1>7. NetOK'
  <2>1. msgs' \subseteq msgs \cup {Ping(c), Greeting(c)}
    BY DEF StoreOnline, StoreOffline
  <2> QED
    BY <1>1, <1>2, <2>1, MsgsOK DEF IInv, NetOK
<1>8. Sifted'
  <2> SUFFICES ASSUME game, NEW p \in Punches \ todo, online'[p] PROVE p \in fresh
    BY <1>1 DEF Sifted, NoVisit
  <2>1. CASE p = c
    BY <1>1, <1>2, <2>1 DEF IInv, Sifted, CandOK
  <2>2. CASE p # c
    BY <1>1, <1>2, <2>2 DEF IInv, Sifted, CandOK, Cands
  <2> QED
    BY <2>1, <2>2
<1> QED
  BY <1>4, <1>5, <1>6, <1>7, <1>8 DEF IInv

LEMMA EndRoundIInv ==
  ASSUME IInv, EndRound
  PROVE  IInv' /\ (game /\ best' \in Punches => best' \in fresh)
<1>1. /\ pinging /\ todo = {} /\ visit = NoVisit /\ fresh' = {} /\ Select
      /\ pinging' = FALSE /\ anyOnline' = FALSE /\ anyRecent' = FALSE
      /\ UNCHANGED <<age, wait, online, pathClass, todo, visit, game, up, faults>>
  BY DEF EndRound, candVars
<1>2. CandOK' /\ ClassOK' /\ GameOK' /\ RoundOK' /\ Sifted'
  BY <1>1 DEF IInv, CandOK, ClassOK, GameOK, RoundOK, Sifted
<1>3. BestOK'
  BY <1>1, SelectOK DEF BestOK
<1>4. NetOK'
  <2>1. session' \in {"none", session}
    BY DEF EndRound
  <2>2. msgs' \in {msgs, msgs \cup {Handshake(c) : c \in Cands \ Punches}}
    BY DEF EndRound
  <2> QED
    BY <1>1, <2>1, <2>2, MsgsOK DEF IInv, NetOK
<1>5. game /\ best' \in Punches => best' \in fresh
  <2>1. \A p \in Punches : p # None
    BY ReconnectAssumption DEF Cands
  <2> QED
    BY <1>1, <2>1, SelectOK DEF IInv, Sifted, NoVisit
<1> QED
  BY <1>2, <1>3, <1>4, <1>5 DEF IInv

(* What arrives on a candidate.                                            *)
LEMMA HeardKeeps ==
  ASSUME IInv, NEW c \in Cands, HeardEarly(c) \/ HeardLate(c), UNCHANGED <<wait, roundVars>>
  PROVE  CandOK' /\ RoundOK' /\ GameOK' /\ Sifted'
<1>1. /\ age' = [age EXCEPT ![c] = 0] /\ online' = [online EXCEPT ![c] = TRUE]
      /\ UNCHANGED <<game, wait, todo, visit, pinging, anyOnline, anyRecent>>
      /\ fresh' \in {fresh, fresh \cup {c}} /\ (c \notin Punches => fresh' = fresh)
      /\ pinging /\ c \in Punches => c \in fresh'
  BY DEF HeardEarly, HeardLate, Heard, roundVars
<1>2. CandOK'
  <2>1. 0 \in 0..(StaleRounds + 1)
    BY ReconnectAssumption
  <2> QED
    BY <1>1, <2>1 DEF IInv, CandOK
<1>3. RoundOK' /\ GameOK'
  BY <1>1 DEF IInv, RoundOK, GameOK
<1>4. Sifted'
  BY <1>1 DEF IInv, Sifted, CandOK, Cands
<1> QED
  BY <1>2, <1>3, <1>4

LEMMA AnswerIInv ==
  ASSUME IInv, NEW c \in Cands,
         Pong(c) \/ PongWithoutHint(c) \/ HandshakeResp(c) \/ Establish(c)
  PROVE  IInv'
<1>1. (HeardEarly(c) \/ HeardLate(c)) /\ UNCHANGED <<wait, roundVars>>
  BY DEF Pong, PongWithoutHint, HandshakeResp, Establish
<1>2. CandOK' /\ RoundOK' /\ GameOK' /\ Sifted'
  BY <1>1, HeardKeeps
<1>3. Select
  BY DEF Pong, PongWithoutHint, HandshakeResp, Establish
<1>4. BestOK'
  BY <1>3, SelectOK DEF BestOK
<1>5. ClassOK'
  <2>1. PICK k \in PathClasses : /\ k \in {Class(c), pathClass[c]} \cup Fallback(c)
                                 /\ pathClass' = [pathClass EXCEPT ![c] = k]
    <3>1. /\ pathClass[c] \in PathClasses
          /\ pathClass = [pathClass EXCEPT ![c] = pathClass[c]]
      BY DEF IInv, ClassOK
    <3>2. CASE Pong(c)
      BY <3>2, ClassesOK DEF Pong
    <3>3. CASE PongWithoutHint(c)
      BY <3>1, <3>3 DEF PongWithoutHint, Fallback, PathClasses
    <3>4. CASE HandshakeResp(c)
      BY <3>1, <3>4 DEF HandshakeResp
    <3>5. CASE Establish(c)
      BY <3>5, ReconnectAssumption DEF Establish, Class, PathClasses
    <3> QED
      BY <3>2, <3>3, <3>4, <3>5
  <2> QED
    BY <2>1 DEF IInv, ClassOK
<1>6. NetOK'
  <2>1. session' \in {session, "live"} /\ UNCHANGED up
    BY DEF Pong, PongWithoutHint, HandshakeResp, Establish, netVars
  <2>2. msgs' \subseteq msgs \cup {Ping(c)}
    BY DEF Pong, PongWithoutHint, HandshakeResp, Establish, netVars
  <2>3. faults' = faults \/ Fault
    BY DEF Pong, PongWithoutHint, HandshakeResp, Establish, netVars, Fault
  <2> QED
    BY <2>1, <2>2, <2>3, MsgsOK, FaultsOK DEF IInv, NetOK
<1> QED
  BY <1>2, <1>4, <1>5, <1>6 DEF IInv

LEMMA GameIInv == ASSUME IInv, GameData \/ GameStarts PROVE IInv'
<1>1. CASE GameData
  <2>1. /\ best \in Cands /\ HeardLate(best)
        /\ UNCHANGED <<session, pathClass, best, msgs, up, faults, wait, roundVars>>
    BY <1>1 DEF GameData, netVars, Cands
  <2>2. CandOK' /\ RoundOK' /\ GameOK' /\ Sifted'
    BY <2>1, HeardKeeps
  <2>3. ClassOK' /\ BestOK' /\ NetOK'
    BY <2>1 DEF IInv, ClassOK, BestOK, NetOK
  <2> QED
    BY <2>2, <2>3 DEF IInv
<1>2. CASE GameStarts
  <2>1. /\ ~pinging /\ game' = TRUE
        /\ UNCHANGED <<session, candVars, best, roundVars, fresh, netVars>>
    BY <1>2 DEF GameStarts
  <2>2. CandOK' /\ ClassOK' /\ BestOK' /\ NetOK'
    BY <2>1 DEF IInv, CandOK, ClassOK, BestOK, NetOK, candVars, netVars
  <2>3. RoundOK' /\ GameOK' /\ Sifted'
    BY <2>1 DEF IInv, RoundOK, GameOK, Sifted, roundVars
  <2> QED
    BY <2>2, <2>3 DEF IInv
<1> QED
  BY <1>1, <1>2

(* Faults, and steps that change nothing.                                  *)
LEMMA NetIInv ==
  ASSUME IInv,
         UNCHANGED <<candVars, best, roundVars, gameVars>>, NetOK'
  PROVE  IInv'
BY DEF IInv, CandOK, ClassOK, BestOK, RoundOK, GameOK, Sifted, candVars, roundVars, gameVars

LEMMA FaultIInv ==
  ASSUME IInv,
         \/ \E c \in Cands : PathFails(c) \/ PathReturns(c)
         \/ \E m \in Msgs : Lose(m)
         \/ Restart \/ UNCHANGED vars
  PROVE  IInv'
<1>1. UNCHANGED <<candVars, best, roundVars, gameVars>>
  BY DEF PathFails, PathReturns, Lose, Restart, vars
<1>2. NetOK'
  <2>0. faults' = faults \/ Fault => faults' \in 0..MaxFaults
    BY FaultsOK DEF IInv
  <2> USE <2>0 DEF IInv, NetOK
  <2>1. ASSUME NEW c \in Cands, PathFails(c) \/ PathReturns(c) PROVE NetOK'
    BY <2>1 DEF PathFails, PathReturns
  <2>2. ASSUME NEW m \in Msgs, Lose(m) PROVE NetOK'
    BY <2>2 DEF Lose
  <2>3. CASE Restart
    BY <2>3 DEF Restart
  <2>4. CASE UNCHANGED vars
    BY <2>4 DEF vars, netVars
  <2> QED
    BY <2>1, <2>2, <2>3, <2>4
<1> QED
  BY <1>1, <1>2, NetIInv

LEMMA NextIInv == IInv /\ [Next]_vars => IInv'
BY TickIInv, LookIInv, StoreIInv, EndRoundIInv, AnswerIInv, GameIInv, FaultIInv DEF Next

LEMMA Invariance == Spec => []IInv
BY InitIInv, NextIInv, PTL DEF Spec

-----------------------------------------------------------------------------
(* Every variable keeps its type; a candidate is classified as what it is, *)
(* or by a Pong alone as a relay, and the route is one that is classified  *)
(* (client.go:1194-1228).                                                  *)
THEOREM ReconnectTypeCorrect == Spec => []TypeOK
<1>1. IInv => TypeOK
  BY DEF IInv, TypeOK, CandOK, ClassOK, BestOK, RoundOK, GameOK, NetOK
<1> QED
  BY <1>1, Invariance, PTL

(* During a game no round of the pinger leaves the data on a punch         *)
(* candidate that was silent for 2.5 s before it (client.go:1784-1792).    *)
THEOREM FailsOverFast == Spec => FastFailover
<1>1. IInv /\ [Next]_vars => [EndRound /\ game /\ best' \in Punches => best' \in fresh]_vars
  BY EndRoundIInv
<1> QED
  BY <1>1, Invariance, PTL DEF Spec, FastFailover
=============================================================================
