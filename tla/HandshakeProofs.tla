--------------------------- MODULE HandshakeProofs ---------------------------
(***************************************************************************)
(* Proofs about Handshake: for any senders, readers, requests, restarts    *)
(* and evictions, a request has one live session, and a client never       *)
(* swaps its session for another one of the same request.                  *)
(*                                                                         *)
(* Responses stay in the network for ever, so what the server answered     *)
(* long ago must still fit what it remembers.  Cached says that a live     *)
(* session a response names is the one cached for its request; the cache   *)
(* forgets a live session only when the request is too old to be answered  *)
(* again.  OnlyOne follows for a new session, CachedSent for a repeated    *)
(* answer, which adds nothing to what is in the network.  Accepted ties    *)
(* the client's two variables together, which the comparison that rejects  *)
(* late responses relies on.                                               *)
(*                                                                         *)
(* Under the mapping to SessionAgreement, a new session is an Issue (its   *)
(* ID is above all in the network, and what Cached remembers says that its *)
(* request has no live session), restart and reaping are an End, either    *)
(* reset a GiveUp, and the adoption an Adopt, since readers hold only what *)
(* was sent (HeldSent).  Everything else changes nothing the agreement     *)
(* sees.                                                                   *)
(***************************************************************************)
EXTENDS Handshake, FiniteSetTheorems, TLAPS

Answered == [req : 1..seq, id : 1..nextID]

ResponsesKnown == responses \subseteq Answered
HeldKnown == \A r \in Readers : rd[r] \in Answered \cup {None}
Cached ==
  \A n \in Requests, i \in sessions :
    [req |-> n, id |-> i] \in responses => handshakes[n] = i \/ age[n] = 2
OnlyOne ==
  \A n \in Requests : \A i, j \in sessions :
    [req |-> n, id |-> i] \in responses /\ [req |-> n, id |-> j] \in responses => i = j
CachedSent ==
  \A n \in Requests : handshakes[n] # 0 => [req |-> n, id |-> handshakes[n]] \in responses
Accepted == session # None => acceptedHSSeq = session.req

IInv ==
  /\ TypeOK /\ ResponsesKnown /\ HeldKnown
  /\ Cached /\ OnlyOne /\ CachedSent /\ Accepted

(* The initial state satisfies the inductive invariant. *)
LEMMA InitIInv == Init => IInv
BY HandshakeAssumption
   DEF Init, IInv, TypeOK, ResponsesKnown, HeldKnown, Cached, OnlyOne, CachedSent, Accepted, None,
       Requests, Sessions

(* What the client sends preserves it. *)
LEMMA SendIInv ==
  ASSUME IInv, NEW w \in Senders,
         StartHandshake(w) \/ SendRequest(w) \/ RequestFails(w)
  PROVE  IInv'
<1> USE HandshakeAssumption
    DEF IInv, TypeOK, ResponsesKnown, HeldKnown, Cached, OnlyOne, CachedSent, Accepted,
        Answered, serverVars
<1>1. CASE StartHandshake(w)
  BY <1>1 DEF StartHandshake
<1>2. CASE SendRequest(w)
  <2>1. /\ snd' = [snd EXCEPT ![w] = "idle"]
        /\ requests' = requests \cup {pending'}
        /\ UNCHANGED <<session, acceptedHSSeq, rd, responses, age, serverVars, faults>>
    BY <1>2 DEF SendRequest
  <2>2. seq' \in seq..MaxRequests /\ pending' \in 1..seq'
    BY <1>2 DEF SendRequest, NeedsNewRequest, Requests
  <2> QED
    BY <2>1, <2>2
<1>3. CASE RequestFails(w)
  BY <1>3 DEF RequestFails
<1> QED
  BY <1>1, <1>2, <1>3

(* The two halves of the reset preserve it. *)
LEMMA ResetIInv ==
  ASSUME IInv, ResetDeadSession \/ ResetOnOutage \/ ForgetPending
  PROVE  IInv'
<1> USE HandshakeAssumption
    DEF IInv, TypeOK, ResponsesKnown, HeldKnown, Cached, OnlyOne, CachedSent, Accepted,
        Answered, serverVars
<1>1. CASE ResetDeadSession \/ ResetOnOutage
  <2>1. /\ session' = None /\ acceptedHSSeq' = 0
        /\ snd' = [snd EXCEPT ![Pinger] = "forget"]
        /\ faults' \in 0..MaxFaults
        /\ UNCHANGED <<seq, pending, rd, requests, responses, age, serverVars>>
    BY <1>1 DEF ResetDeadSession, ResetOnOutage, Reset
  <2> QED
    BY <2>1
<1>2. CASE ForgetPending
  BY <1>2 DEF ForgetPending
<1> QED
  BY <1>1, <1>2

(* A reader preserves it: what it verifies the server has answered. *)
LEMMA ReaderIInv ==
  ASSUME IInv, NEW r \in Readers, VerifyResponse(r) \/ AdoptResponse(r)
  PROVE  IInv'
<1> USE HandshakeAssumption
    DEF IInv, TypeOK, ResponsesKnown, HeldKnown, Cached, OnlyOne, CachedSent, Accepted,
        Answered, serverVars
<1>1. CASE VerifyResponse(r)
  BY <1>1 DEF VerifyResponse
<1>2. CASE AdoptResponse(r)
  <2>1. /\ rd' = [rd EXCEPT ![r] = None]
        /\ UNCHANGED <<seq, pending, snd, requests, responses, age, serverVars, faults>>
    BY <1>2 DEF AdoptResponse
  <2>2. \/ session' = rd[r] /\ acceptedHSSeq' = rd[r].req /\ rd[r] \in Answered
        \/ UNCHANGED <<session, acceptedHSSeq>>
    BY <1>2 DEF AdoptResponse
  <2>3. session' \in [req : 1..seq, id : 1..nextID] \cup {None} /\ acceptedHSSeq' \in 0..seq
    BY <2>2
  <2> QED
    BY <2>1, <2>2, <2>3
<1> QED
  BY <1>1, <1>2

(* A new session preserves it: its number is new, and its request had no   *)
(* live session, because a session the cache has forgotten belongs to a    *)
(* request too old to be answered.                                         *)
LEMMA NewSessionIInv ==
  ASSUME IInv, NEW n \in Requests, NEW table \in SUBSET sessions, NewSession(n, table),
         faults' \in 0..MaxFaults
  PROVE  IInv'
<1> DEFINE new == nextID + 1
<1> USE HandshakeAssumption
<1>1. /\ n \in 1..seq /\ age[n] < 2 /\ nextID < MaxIDs
      /\ nextID' = new /\ sessions' = table \cup {new}
      /\ handshakes' = [handshakes EXCEPT ![n] = new]
      /\ responses' = responses \cup {[req |-> n, id |-> new]}
      /\ UNCHANGED <<seq, pending, session, acceptedHSSeq, snd, rd, requests, age>>
  BY DEF NewSession, IInv, TypeOK, clientVars
<1>2. TypeOK'
  BY <1>1 DEF IInv, TypeOK, Requests, IDs, Sessions
<1>3. ResponsesKnown' /\ HeldKnown' /\ Accepted'
  BY <1>1 DEF IInv, TypeOK, ResponsesKnown, HeldKnown, Accepted, Answered
<1>4. CachedSent'
  BY <1>1 DEF IInv, TypeOK, CachedSent
<1>5. \A i \in sessions : [req |-> n, id |-> i] \notin responses
  <2> SUFFICES ASSUME NEW i \in sessions, [req |-> n, id |-> i] \in responses PROVE FALSE
    OBVIOUS
  <2>1. handshakes[n] = i /\ i # 0
    BY <1>1 DEF IInv, TypeOK, Cached
  <2> QED
    BY <2>1 DEF NewSession, HasLiveResponse, Live
<1>6. \A m \in Requests : [req |-> m, id |-> new] \notin responses
  BY DEF IInv, TypeOK, ResponsesKnown, Answered
<1>7. OnlyOne'
  BY <1>1, <1>5, <1>6 DEF IInv, OnlyOne
<1>8. Cached'
  <2> SUFFICES ASSUME NEW m \in Requests, NEW i \in sessions',
                      [req |-> m, id |-> i] \in responses'
               PROVE  handshakes'[m] = i \/ age'[m] = 2
    BY DEF Cached
  <2>1. CASE i = new
    BY <1>1, <1>6, <2>1 DEF IInv, TypeOK
  <2>2. CASE i # new
    <3>1. i \in sessions /\ [req |-> m, id |-> i] \in responses
      BY <1>1, <2>2
    <3> QED
      BY <1>1, <1>5, <3>1 DEF IInv, TypeOK, Cached
  <2> QED
    BY <2>1, <2>2
<1> QED
  BY <1>2, <1>3, <1>4, <1>7, <1>8 DEF IInv

(* Whatever else the server does with a request preserves it. *)
LEMMA ServerIInv ==
  ASSUME IInv, NEW n \in Requests,
         AnswerFromCache(n) \/ CreateSession(n) \/ CreateSessionEvicting(n)
           \/ PruneCache(n) \/ Age(n)
  PROVE  IInv'
<1> USE HandshakeAssumption
<1>1. CASE AnswerFromCache(n)
  <2>1. UNCHANGED vars
    BY <1>1 DEF AnswerFromCache, HasLiveResponse, Live, IInv, CachedSent, vars, clientVars,
                serverVars
  <2> QED
    BY <2>1 DEF vars, IInv, TypeOK, ResponsesKnown, HeldKnown, Cached, OnlyOne, CachedSent, Accepted, Answered,
                clientVars, serverVars, Sessions, Requests, IDs
<1>2. CASE CreateSession(n)
  BY <1>2, NewSessionIInv DEF CreateSession, IInv, TypeOK
<1>3. CASE CreateSessionEvicting(n)
  <2>1. faults' \in 0..MaxFaults
    BY <1>3 DEF CreateSessionEvicting, IInv, TypeOK
  <2> QED
    BY <1>3, <2>1, NewSessionIInv DEF CreateSessionEvicting
<1>4. CASE PruneCache(n)
  <2> USE <1>4 DEF PruneCache
  <2>1. TypeOK'
    BY DEF IInv, TypeOK, clientVars
  <2>2. Cached' /\ CachedSent' /\ OnlyOne'
    BY DEF IInv, TypeOK, Cached, CachedSent, OnlyOne
  <2> QED
    BY <2>1, <2>2 DEF IInv, ResponsesKnown, HeldKnown, Accepted, Answered, clientVars
<1>5. CASE Age(n)
  <2>1. age[n] \in 0..1 /\ age' = [age EXCEPT ![n] = age[n] + 1]
        /\ UNCHANGED <<clientVars, requests, responses, serverVars, faults>>
    BY <1>5 DEF Age, IInv, TypeOK
  <2>2. TypeOK'
    BY <2>1 DEF IInv, TypeOK, clientVars, serverVars
  <2>3. Cached' /\ CachedSent' /\ OnlyOne'
    BY <2>1 DEF IInv, TypeOK, Cached, CachedSent, OnlyOne, serverVars
  <2> QED
    BY <2>1, <2>2, <2>3 DEF IInv, ResponsesKnown, HeldKnown, Accepted, Answered,
                            clientVars, serverVars
<1> QED
  BY <1>1, <1>2, <1>3, <1>4, <1>5

(* A session that goes takes nothing with it that Cached needs. *)
LEMMA LossIInv ==
  ASSUME IInv, (\E i \in IDs : ReapSession(i)) \/ Restart \/ UNCHANGED vars
  PROVE  IInv'
<1> USE HandshakeAssumption
    DEF IInv, TypeOK, ResponsesKnown, HeldKnown, Cached, OnlyOne, CachedSent, Accepted, Answered,
        clientVars, serverVars
<1>1. CASE \E i \in IDs : ReapSession(i)
  <2>1. /\ sessions' \subseteq sessions /\ faults' \in 0..MaxFaults
        /\ UNCHANGED <<clientVars, requests, responses, age, nextID, handshakes>>
    BY <1>1 DEF ReapSession
  <2>2. TypeOK'
    BY <2>1
  <2> QED
    BY <2>1, <2>2
<1>2. CASE Restart
  <2>1. /\ sessions' = {} /\ handshakes' = [n \in Requests |-> 0] /\ faults' \in 0..MaxFaults
        /\ UNCHANGED <<clientVars, requests, responses, age, nextID>>
    BY <1>2 DEF Restart
  <2>2. TypeOK'
    BY <2>1
  <2> QED
    BY <2>1, <2>2
<1>3. CASE UNCHANGED vars
  BY <1>3 DEF vars
<1> QED
  BY <1>1, <1>2, <1>3

(* IInv is preserved by every step ... *)
LEMMA NextIInv == IInv /\ [Next]_vars => IInv'
BY SendIInv, ResetIInv, ReaderIInv, ServerIInv, LossIInv DEF Next

(* ... and so holds in every reachable state. *)
LEMMA Invariance == Spec => []IInv
BY InitIInv, NextIInv, PTL DEF Spec

(* Every variable keeps its type, and what a client holds was answered. *)
THEOREM TypeCorrect == Spec => []TypeOK
<1>1. IInv => TypeOK
  BY DEF IInv
<1> QED
  BY <1>1, Invariance, PTL

(* However often a request is repeated, it has one live session on the     *)
(* server (server.go:1000-1050).                                           *)
THEOREM RequestHasOneSession == Spec => []OneSessionPerRequest
<1>1. IInv => OneSessionPerRequest
  <2> SUFFICES ASSUME IInv, NEW n \in Requests PROVE Cardinality(SessionOf(n)) <= 1
    BY DEF OneSessionPerRequest
  <2>1. CASE SessionOf(n) = {}
    BY <2>1, FS_EmptySet
  <2>2. ASSUME NEW i \in SessionOf(n) PROVE Cardinality(SessionOf(n)) <= 1
    <3>1. SessionOf(n) = {i}
      BY <2>2 DEF IInv, OnlyOne, SessionOf
    <3>2. Cardinality(SessionOf(n)) = 1
      BY <3>1, FS_Singleton, Zenon
    <3> QED
      BY <3>2
  <2> QED
    BY <2>1, <2>2
<1> QED
  BY <1>1, Invariance, PTL

-----------------------------------------------------------------------------
(* What the client holds, or a reader is about to adopt, the server sent.  *)
HeldSent ==
  /\ \A r \in Readers : rd[r] \in responses \cup {None}
  /\ session \in responses \cup {None}

(* No step takes a response back. *)
LEMMA ResponsesGrow ==
  ASSUME Next
  PROVE  responses \subseteq responses'
BY DEF Next, StartHandshake, SendRequest, RequestFails, ResetDeadSession, ResetOnOutage,
       Reset, ForgetPending, VerifyResponse, AdoptResponse, AnswerFromCache, CreateSession,
       CreateSessionEvicting, NewSession, PruneCache, Age, ReapSession, Restart

(* It stays so: a reader takes up only what is in the network, which no    *)
(* step takes back, and adopts only what it took up.                       *)
LEMMA HeldSentNext == TypeOK /\ HeldSent /\ [Next]_vars => HeldSent'
<1> SUFFICES ASSUME TypeOK, HeldSent, [Next]_vars PROVE HeldSent'
  OBVIOUS
<1>1. CASE UNCHANGED vars
  BY <1>1 DEF vars, clientVars, HeldSent
<1>2. ASSUME NEW r \in Readers, VerifyResponse(r) PROVE HeldSent'
  BY <1>2 DEF VerifyResponse, HeldSent, TypeOK
<1>3. ASSUME NEW r \in Readers, AdoptResponse(r) PROVE HeldSent'
  BY <1>3 DEF AdoptResponse, HeldSent, TypeOK
<1>4. CASE ResetDeadSession \/ ResetOnOutage
  BY <1>4 DEF ResetDeadSession, ResetOnOutage, Reset, HeldSent
<1>5. CASE Next /\ UNCHANGED <<rd, session>>
  BY <1>5, ResponsesGrow DEF HeldSent
<1> QED
  BY <1>1, <1>2, <1>3, <1>4, <1>5
     DEF Next, StartHandshake, SendRequest, RequestFails, ForgetPending, AnswerFromCache,
         CreateSession, CreateSessionEvicting, NewSession, PruneCache, Age, ReapSession,
         Restart, clientVars

(* A new session is an issue: its ID is new, and its request had none.     *)
LEMMA NewSessionIssues ==
  ASSUME IInv, NEW n \in Requests, NEW table \in SUBSET sessions, NewSession(n, table)
  PROVE  Agreement!Next
<1> DEFINE s == [req |-> n, id |-> nextID + 1]
<1>1. s \in Agreement!Sessions
  BY HandshakeAssumption DEF NewSession, IInv, TypeOK, Agreement!Sessions, IDs
<1>2. \A t \in responses : t.id # s.id
  BY DEF IInv, TypeOK, ResponsesKnown, Answered
<1>3. \A t \in Known : t.req # s.req
  <2> SUFFICES ASSUME NEW t \in Known, t.req = n PROVE FALSE
    OBVIOUS
  <2>1. t = [req |-> n, id |-> t.id] /\ t \in responses /\ t.id \in sessions
    BY DEF Known, IInv, ResponsesKnown, Answered
  <2>2. handshakes[n] = t.id /\ t.id # 0
    BY <2>1 DEF IInv, TypeOK, Cached, NewSession
  <2> QED
    BY <2>1, <2>2 DEF NewSession, HasLiveResponse, Live
<1>4. responses' = responses \cup {s} /\ session' = session
  BY DEF NewSession, clientVars
<1>5. s \in Known' /\ Known' \subseteq Known \cup {s}
  BY <1>2, <1>4 DEF NewSession, Known, IInv, TypeOK
<1> HIDE DEF s
<1> QED
  BY <1>1, <1>2, <1>3, <1>4, <1>5 DEF Agreement!Next, Agreement!Issue

(* Every behaviour of client, network and server is one of the agreement:  *)
(* a request has one live session, an ID is used once, and the client      *)
(* holds only what was issued and never swaps it within a request          *)
(* (client.go:1505-1540, server.go:984-1060).                              *)
THEOREM HandshakeImplementsAgreement == Spec => ImplementsAgreement
<1>1. Init => Agreement!Init /\ HeldSent
  BY DEF Init, Agreement!Init, HeldSent, Known
<1>2. IInv /\ HeldSent /\ [Next]_vars => [Agreement!Next]_<<responses, Known, session>>
  <2> SUFFICES ASSUME IInv, HeldSent, Next
               PROVE  [Agreement!Next]_<<responses, Known, session>>
    BY DEF vars, clientVars, serverVars, Known
  <2>1. CASE UNCHANGED <<responses, sessions, session>>
    BY <2>1 DEF Known
  <2>2. ASSUME NEW n \in Requests, AnswerFromCache(n)
        PROVE  UNCHANGED <<responses, sessions, session>>
    BY <2>2 DEF AnswerFromCache, HasLiveResponse, Live, IInv, CachedSent, clientVars, serverVars
  <2>3. ASSUME NEW n \in Requests, CreateSession(n) \/ CreateSessionEvicting(n)
        PROVE  Agreement!Next
    BY <2>3, NewSessionIssues DEF CreateSession, CreateSessionEvicting
  <2>4. ASSUME NEW r \in Readers, AdoptResponse(r)
        PROVE  [Agreement!Next]_<<responses, Known, session>>
    <3>1. UNCHANGED <<responses, Known>>
      BY <2>4 DEF AdoptResponse, serverVars, Known
    <3>2. CASE UNCHANGED session
      BY <3>1, <3>2
    <3>3. CASE session' # session
      <4>1. /\ session' = rd[r] /\ rd[r] # None /\ ~IsLate(rd[r])
            /\ session = None \/ session.id # rd[r].id
        BY <2>4, <3>3 DEF AdoptResponse
      <4>2. rd[r] \in responses /\ rd[r] \in Agreement!Sessions
        BY <4>1 DEF HeldSent, IInv, TypeOK, Agreement!Sessions, Sessions
      <4>3. session = None \/ session.req # rd[r].req
        BY <4>1 DEF IsLate, IInv, Accepted
      <4> QED
        BY <3>1, <4>1, <4>2, <4>3 DEF Agreement!Next, Agreement!Adopt
    <3> QED
      BY <3>2, <3>3
  <2>5. CASE ResetDeadSession \/ ResetOnOutage
    <3>1. session' = None /\ UNCHANGED <<responses, Known>>
      BY <2>5 DEF ResetDeadSession, ResetOnOutage, Reset, serverVars, Known
    <3> QED
      BY <3>1 DEF Agreement!Next, Agreement!GiveUp
  <2>6. CASE Restart \/ \E i \in IDs : ReapSession(i)
    <3>1. Known' \subseteq Known /\ UNCHANGED <<responses, session>>
      BY <2>6 DEF Restart, ReapSession, clientVars, Known
    <3> QED
      BY <3>1 DEF Agreement!Next, Agreement!End
  <2> QED
    BY <2>1, <2>2, <2>3, <2>4, <2>5, <2>6
       DEF Next, StartHandshake, SendRequest, RequestFails, ForgetPending, VerifyResponse,
           PruneCache, Age, clientVars, serverVars
<1>3. IInv => TypeOK
  BY DEF IInv
<1> QED
  BY <1>1, <1>2, <1>3, Invariance, HeldSentNext, PTL
     DEF Spec, ImplementsAgreement, Agreement!Spec

(* Hence a client that holds a session never swaps it for another session  *)
(* of the same request, however many answers its readers hold              *)
(* (client.go:1520-1528).                                                  *)
THEOREM FirstAnswerWins == Spec => AdoptFirst
<1>1. [Agreement!Next]_<<responses, Known, session>> =>
        [session # None /\ session' # None /\ session' # session
           => session'.req # session.req]_vars
  BY DEF Agreement!Next, Agreement!Issue, Agreement!Adopt, Agreement!End, Agreement!GiveUp
<1> QED
  BY <1>1, HandshakeImplementsAgreement, PTL DEF ImplementsAgreement, Agreement!Spec, AdoptFirst
=============================================================================
