----------------------------- MODULE Handshake -----------------------------
(***************************************************************************)
(* How a client and the server agree on a session.                         *)
(*                                                                         *)
(* Client (pkg/client/client.go): every goroutine that calls sendHandshake *)
(* shares one pending request, sent over several candidate sockets;        *)
(* candidateReadLoop goroutines process responses; pingProbeLoop discards  *)
(* the session once every candidate has been silent.  Server               *)
(* (pkg/server/server.go): a table of sessions, and a cache of responses   *)
(* so that a repeated request is answered with the session it already has. *)
(* Datagrams are lost, delayed, repeated and reordered; the server         *)
(* restarts and reaps idle sessions.                                       *)
(*                                                                         *)
(* A request is known by its number (its nonce is fresh), a session by its *)
(* ID, drawn by a server whose counter starts at a random place, so that   *)
(* an ID is not used twice even across restarts.  age is how old a request *)
(* is: 0 up to 90 s, 1 up to the 120 s both ends allow between their       *)
(* clocks, 2 beyond.  The two clocks agree.                                *)
(***************************************************************************)
EXTENDS Naturals, FiniteSets

CONSTANTS
  Senders,      \* client goroutines that call sendHandshake
  Pinger,       \* the one of them that runs pingProbeLoop
  Readers,      \* client goroutines in candidateReadLoop
  MaxRequests,  \* bound on the requests a client creates
  MaxIDs,       \* bound on the sessions the server creates
  MaxFaults,    \* bound on restarts, outages, reaped and evicted sessions
  MaxAged       \* bound on the requests that live to be 90 s old

ASSUME HandshakeAssumption ==
  /\ Pinger \in Senders
  /\ MaxRequests \in Nat \ {0} /\ MaxIDs \in Nat \ {0}
  /\ MaxFaults \in Nat /\ MaxAged \in 0..MaxRequests

Requests == 1..MaxRequests
IDs == 1..MaxIDs
None == [req |-> 0, id |-> 0]
Sessions == [req : Requests, id : IDs]

VARIABLES
  \* client
  seq,            \* Client.seq: requests created so far
  pending,        \* Client.pendingHandshake, 0 for nil
  session,        \* Client.secureSession, None for nil
  acceptedHSSeq,  \* the request whose response was adopted
  snd,            \* where each sender is
  rd,             \* the verified response each reader holds, or None
  \* network
  requests, responses,
  age,
  \* server
  nextID,
  sessions,       \* IDs in Server.sessions
  handshakes,     \* Server.handshakes: request -> cached session, 0 if none
  faults

clientVars == <<seq, pending, session, acceptedHSSeq, snd, rd>>
serverVars == <<nextID, sessions, handshakes>>
vars == <<clientVars, requests, responses, age, serverVars, faults>>

TypeOK ==
  /\ seq \in 0..MaxRequests
  /\ pending \in 0..seq
  /\ session \in [req : 1..seq, id : 1..nextID] \cup {None}
  /\ acceptedHSSeq \in 0..seq
  /\ snd \in [Senders -> {"idle", "request", "forget"}]
  /\ rd \in [Readers -> Sessions \cup {None}]
  /\ requests \subseteq 1..seq
  /\ responses \subseteq Sessions
  /\ age \in [Requests -> 0..2]
  /\ nextID \in 0..MaxIDs
  /\ sessions \subseteq 1..nextID
  /\ handshakes \in [Requests -> 0..nextID]
  /\ faults \in 0..MaxFaults

Init ==
  /\ seq = 0 /\ pending = 0 /\ session = None /\ acceptedHSSeq = 0
  /\ snd = [w \in Senders |-> "idle"]
  /\ rd = [r \in Readers |-> None]
  /\ requests = {} /\ responses = {}
  /\ age = [n \in Requests |-> 0]
  /\ nextID = 0 /\ sessions = {} /\ handshakes = [n \in Requests |-> 0]
  /\ faults = 0

-----------------------------------------------------------------------------
(* Client: sending. *)

(* sendHandshake first looks for a live session; with one it only pings. *)
StartHandshake(w) ==
  /\ snd[w] = "idle"
  /\ snd' = [snd EXCEPT ![w] = IF session = None THEN "request" ELSE "idle"]
  /\ UNCHANGED <<seq, pending, session, acceptedHSSeq, rd,
                 requests, responses, age, serverVars, faults>>

(* Then, under handshakeMu, it makes a new request if there is none or the *)
(* one there is has become old, and sends what is pending.                 *)
NeedsNewRequestOnlyIfNone == pending = 0   \* mutant: no 90 s limit
NeedsNewRequest == pending \notin {n \in Requests : age[n] = 0}

SendRequest(w) ==
  /\ snd[w] = "request"
  /\ IF NeedsNewRequest
       THEN /\ seq < MaxRequests
            /\ seq' = seq + 1
            /\ pending' = seq + 1
       ELSE UNCHANGED <<seq, pending>>
  /\ requests' = requests \cup {pending'}
  /\ snd' = [snd EXCEPT ![w] = "idle"]
  /\ UNCHANGED <<session, acceptedHSSeq, rd, responses, age,
                 serverVars, faults>>

(* NewHandshakeRequest may fail (it draws random bytes): nothing is sent. *)
RequestFails(w) ==
  /\ snd[w] = "request"
  /\ NeedsNewRequest
  /\ snd' = [snd EXCEPT ![w] = "idle"]
  /\ UNCHANGED <<seq, pending, session, acceptedHSSeq, rd,
                 requests, responses, age, serverVars, faults>>

(* resetSecureSessionForReconnect drops the session under sessionMu ...     *)
Reset ==
  /\ snd[Pinger] = "idle"
  /\ session # None
  /\ session' = None
  /\ acceptedHSSeq' = 0
  /\ snd' = [snd EXCEPT ![Pinger] = "forget"]
  /\ UNCHANGED <<seq, pending, rd, requests, responses, age, serverVars>>

(* All candidates were silent for 15 s: because the server no longer knows *)
(* the session, or by an outage.                                           *)
ResetDeadSession ==
  /\ session.id \notin sessions
  /\ Reset
  /\ UNCHANGED faults

ResetOnOutage ==
  /\ session.id \in sessions
  /\ faults < MaxFaults
  /\ faults' = faults + 1
  /\ Reset

(* ... and, separately, the pending request under handshakeMu.  The pinger *)
(* then calls sendHandshake.                                               *)
ForgetPending ==
  /\ snd[Pinger] = "forget"
  /\ pending' = 0
  /\ snd' = [snd EXCEPT ![Pinger] = "idle"]
  /\ UNCHANGED <<seq, session, acceptedHSSeq, rd, requests,
                 responses, age, serverVars, faults>>

-----------------------------------------------------------------------------
(* Client: handleHandshakeResponse. *)

(* Reads the pending request under handshakeMu, releases it, and verifies  *)
(* the response against what it read.                                      *)
VerifyResponse(r) ==
  /\ rd[r] = None
  /\ pending # 0 /\ age[pending] < 2
  /\ \E resp \in responses :
       /\ resp.req = pending
       /\ rd' = [rd EXCEPT ![r] = resp]
  /\ UNCHANGED <<seq, pending, session, acceptedHSSeq, snd,
                 requests, responses, age, serverVars, faults>>

(* A second, different session for the request already adopted. *)
IsLateByID(resp) == session # None /\ acceptedHSSeq > resp.req   \* mutant
IsLate(resp) ==
  session # None /\ acceptedHSSeq = resp.req /\ session.id # resp.id

(* Under sessionMu: reject a late response, adopt a different session,     *)
(* ignore one that is adopted already.                                     *)
AdoptResponse(r) ==
  /\ rd[r] # None
  /\ rd' = [rd EXCEPT ![r] = None]
  /\ IF ~IsLate(rd[r]) /\ (session = None \/ session.id # rd[r].id)
       THEN /\ session' = rd[r]
            /\ acceptedHSSeq' = rd[r].req
       ELSE UNCHANGED <<session, acceptedHSSeq>>
  /\ UNCHANGED <<seq, pending, snd, requests, responses, age, serverVars, faults>>

-----------------------------------------------------------------------------
(* Server. *)

Live(i) == i # 0 /\ i \in sessions

(* handleHandshake, in the single read loop: a request in time is answered *)
(* from the cache while its session lives, and otherwise gets a session.   *)
HasResponse(n) == handshakes[n] # 0 /\ n = seq   \* mutant: caches the last only
HasLiveResponse(n) == Live(handshakes[n])

AnswerFromCache(n) ==
  /\ n \in requests /\ age[n] < 2
  /\ HasLiveResponse(n)
  /\ responses' = responses \cup {[req |-> n, id |-> handshakes[n]]}
  /\ UNCHANGED <<clientVars, requests, age, serverVars, faults>>

NewSession(n, table) ==
  /\ n \in requests /\ age[n] < 2
  /\ ~HasLiveResponse(n)
  /\ nextID < MaxIDs
  /\ nextID' = nextID + 1
  /\ sessions' = table \cup {nextID + 1}
  /\ handshakes' = [handshakes EXCEPT ![n] = nextID + 1]
  /\ responses' = responses \cup {[req |-> n, id |-> nextID + 1]}
  /\ UNCHANGED <<clientVars, requests, age>>

CreateSession(n) == NewSession(n, sessions) /\ UNCHANGED faults

(* evictOldestSessionLocked: other clients may have filled the table, and  *)
(* then the session longest inactive, for us any, makes room.  The cache   *)
(* of responses, twice as large, is taken not to be full: its entries are  *)
(* dropped after two minutes.                                              *)
CreateSessionEvicting(n) ==
  /\ faults < MaxFaults
  /\ faults' = faults + 1
  /\ \E i \in sessions : NewSession(n, sessions \ {i})

(* cleanupSessionsLoop: a session without traffic for 60 s, which is an    *)
(* orphan or cut off by an outage.                                         *)
ReapSession(i) ==
  /\ i \in sessions
  /\ faults < MaxFaults
  /\ faults' = faults + 1
  /\ sessions' = sessions \ {i}
  /\ UNCHANGED <<clientVars, requests, responses, age, nextID, handshakes>>

(* ... and a cached response after two minutes or once its session is gone. *)
PruneCache(n) ==
  /\ handshakes[n] # 0
  /\ age[n] = 2 \/ handshakes[n] \notin sessions
  /\ handshakes' = [handshakes EXCEPT ![n] = 0]
  /\ UNCHANGED <<clientVars, requests, responses, age, nextID, sessions, faults>>

RestartFromOne == \* mutant: the counter is not randomised
  /\ faults < MaxFaults
  /\ faults' = faults + 1
  /\ sessions' = {}
  /\ handshakes' = [n \in Requests |-> 0]
  /\ nextID' = 0
  /\ UNCHANGED <<clientVars, requests, responses, age>>

Restart ==
  /\ faults < MaxFaults
  /\ faults' = faults + 1
  /\ sessions' = {}
  /\ handshakes' = [n \in Requests |-> 0]
  /\ UNCHANGED <<clientVars, requests, responses, age, nextID>>

(* Older requests are older.  Requests above MaxAged stay young: the bound *)
(* leaves too few to follow them.                                          *)
Age(n) ==
  /\ n <= seq /\ n <= MaxAged
  /\ age[n] < 2
  /\ \A m \in 1..(n - 1) : age[m] > age[n] \/ age[m] = 2
  /\ age' = [age EXCEPT ![n] = @ + 1]
  /\ UNCHANGED <<clientVars, requests, responses, serverVars, faults>>

-----------------------------------------------------------------------------
Next ==
  \/ \E w \in Senders : StartHandshake(w) \/ SendRequest(w) \/ RequestFails(w)
  \/ ResetDeadSession \/ ResetOnOutage \/ ForgetPending
  \/ \E r \in Readers : VerifyResponse(r) \/ AdoptResponse(r)
  \/ \E n \in Requests :
       \/ AnswerFromCache(n) \/ CreateSession(n) \/ CreateSessionEvicting(n)
       \/ PruneCache(n) \/ Age(n)
  \/ \E i \in IDs : ReapSession(i)
  \/ Restart

(* pingProbeLoop runs on a ticker and, without a session, sends handshakes *)
(* again and again; readers and the server's loop run when they have work; *)
(* a request or response that is repeated for ever gets through.           *)
Fairness ==
  /\ WF_vars(StartHandshake(Pinger)) /\ SF_vars(SendRequest(Pinger))
  /\ WF_vars(ResetDeadSession) /\ WF_vars(ForgetPending)
  /\ \A r \in Readers : WF_vars(VerifyResponse(r)) /\ WF_vars(AdoptResponse(r))
  /\ \A n \in Requests : WF_vars(AnswerFromCache(n)) /\ WF_vars(CreateSession(n))

Spec == Init /\ [][Next]_vars
FairSpec == Spec /\ Fairness

-----------------------------------------------------------------------------
(* A client that holds a session never swaps it for another session of the *)
(* same request, although several candidates and a restarting server may   *)
(* have produced several (client.go:1520-1528).  This is what a reader of  *)
(* the client relies on; it follows from ImplementsAgreement, below.       *)
AdoptFirst ==
  [][session # None /\ session' # None /\ session' # session
       => session'.req # session.req]_vars

(* However often a request is repeated, it has one live session on the     *)
(* server: a second would get an upstream socket and a source port of its  *)
(* own.                                                                    *)
SessionOf(n) == {i \in sessions : [req |-> n, id |-> i] \in responses}

OneSessionPerRequest == \A n \in Requests : Cardinality(SessionOf(n)) <= 1

(* The sessions a client could use: answered for, and still in the table.  *)
Known == {s \in responses : s.id \in sessions}
Agreement == INSTANCE SessionAgreement WITH
  issued <- responses, live <- Known, held <- session

(* Client, network and server together keep the agreement: each session    *)
(* has an ID of its own, even across restarts; a request has one live      *)
(* session; the client holds only sessions the server issued, and goes     *)
(* from one to another only by giving it up or for another request         *)
(* (client.go:1505-1540, server.go:984-1060).  A step that is no step of   *)
(* SessionAgreement would be, say, a second session for a repeated request.*)
ImplementsAgreement == Agreement!Spec

(* After the last fault the client comes to hold, for good, a session the  *)
(* server knows.                                                           *)
Reconnects == <>[](session # None /\ session.id \in sessions)
=============================================================================
