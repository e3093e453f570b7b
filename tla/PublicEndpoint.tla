--------------------------- MODULE PublicEndpoint ---------------------------
(***************************************************************************)
(* How the server learns the endpoint clients can punch to, and tells its  *)
(* sessions (pkg/server/server.go, pkg/stun/stun_client.go).               *)
(*                                                                         *)
(* Two sources race: discoverPublicEndpointLoop asks STUN servers for ever *)
(* what address the NAT shows, and the UPnP task, once, has the router map *)
(* a fixed one.  The read loop takes the STUN responses, and also the      *)
(* handshakes, which carry the endpoint known so far; a new endpoint is    *)
(* pushed to the sessions there are.  Stop may come at any point.          *)
(* The router is asked over HTTP (pkg/discover/upnp.go).  It may map the   *)
(* port without its answer arriving, and fail to delete a mapping: nobody  *)
(* can tell, so held is about what it has confirmed and been asked.        *)
(*                                                                         *)
(* This is the configuration with UPnP on and no punch_addr.  Responses    *)
(* are late, repeated, lost and reordered; one of the wrong shape, source  *)
(* or transaction changes nothing and is left out.                         *)
(***************************************************************************)
EXTENDS Naturals, FiniteSets

CONSTANTS
  Nats,       \* endpoints the NAT may show
  Ext,        \* the endpoint UPnP maps
  Unknown,    \* nil
  Clients,
  IDs,        \* STUN transaction IDs
  MaxMoves    \* bound on how often the NAT shows another endpoint

ASSUME PublicEndpointAssumption ==
  /\ Nats # {} /\ Ext \notin Nats /\ Unknown \notin Nats \cup {Ext}
  /\ MaxMoves \in Nat

Endpoints == Nats \cup {Ext}

VARIABLES
  serverPublic,
  upnpCleanup,  \* upnpCleanup # nil
  held,         \* the router confirmed a mapping, and was not asked to delete it
  loop, upnp, discover, stop,  \* where the goroutines are
  offer,        \* what the read loop and the UPnP task are about to send
  newcomer,     \* the clients whose handshake is being answered
  sessions,     \* clients in Server.sessions
  offered,      \* the endpoints sent to each client
  pending,      \* Validator.pending
  requests,     \* STUN requests under way
  responses,    \* STUN responses under way
  nat, moves    \* what the NAT shows

pubVars == <<serverPublic, upnpCleanup, held>>
sessVars == <<newcomer, sessions, offered>>
stunVars == <<pending, requests, responses>>
natVars == <<nat, moves>>
vars == <<pubVars, loop, upnp, discover, stop, offer, sessVars, stunVars, natVars>>

Senders == {"loop", "upnp"}

TypeOK ==
  /\ serverPublic \in Endpoints \cup {Unknown}
  /\ upnpCleanup \in BOOLEAN /\ held \in BOOLEAN
  /\ upnpCleanup => held
  /\ loop \in {"read", "broadcast", "send", "insert", "exited"}
  /\ upnp \in {"discover", "add", "ask", "mapped", "undo", "update", "broadcast",
              "send", "done"}
  /\ discover \in {"wait", "request", "exited"}
  /\ stop \in {"running", "gate", "cancelled", "released", "stopped"}
  /\ offer \in [Senders -> Endpoints \cup {Unknown}]
  /\ newcomer \subseteq Clients /\ sessions \subseteq Clients
  /\ newcomer # {} <=> loop = "insert"
  /\ offered \in [Clients -> SUBSET (Endpoints \cup {Unknown})]
  /\ pending \subseteq IDs /\ requests \subseteq IDs
  /\ responses \subseteq [id : IDs, addr : Nats]
  /\ nat \in Nats /\ moves \in 0..MaxMoves

Init ==
  /\ serverPublic = Unknown /\ upnpCleanup = FALSE /\ held = FALSE
  /\ loop = "read" /\ upnp = "discover" /\ discover = "wait" /\ stop = "running"
  /\ offer = [g \in Senders |-> Unknown]
  /\ newcomer = {} /\ sessions = {} /\ offered = [c \in Clients |-> {}]
  /\ pending = {} /\ requests = {} /\ responses = {}
  /\ nat \in Nats /\ moves = 0

stopping == stop # "running"
ctxDone == stop \notin {"running", "gate"}

-----------------------------------------------------------------------------
(* broadcastPunchOffer, of the read loop and of the UPnP task: read the    *)
(* endpoint, then send it to every session under sessionMu.                *)
OfferTo(known, c, e) == [known EXCEPT ![c] = @ \cup {e}]

Broadcast(g) ==
  /\ offer' = [offer EXCEPT ![g] = serverPublic]
  /\ UNCHANGED <<pubVars, discover, stop, sessVars, stunVars, natVars>>

SendOffers(g) ==
  /\ offered' = [c \in Clients |->
                   offered[c] \cup IF c \in sessions THEN {offer[g]} ELSE {}]
  /\ offer' = [offer EXCEPT ![g] = Unknown]
  /\ UNCHANGED <<pubVars, discover, stop, newcomer, sessions, stunVars, natVars>>

LoopBroadcast == loop = "broadcast" /\ loop' = "send" /\ UNCHANGED upnp /\ Broadcast("loop")
LoopSend == loop = "send" /\ loop' = "read" /\ UNCHANGED upnp /\ SendOffers("loop")
UPnPBroadcast == upnp = "broadcast" /\ upnp' = "send" /\ UNCHANGED loop /\ Broadcast("upnp")
UPnPSend == upnp = "send" /\ upnp' = "done" /\ UNCHANGED loop /\ SendOffers("upnp")

-----------------------------------------------------------------------------
(* The read loop: a STUN response in time consumes its transaction, and    *)
(* updates the endpoint unless UPnP has mapped one.                        *)
NeverDefers == FALSE   \* mutant: a late reflection wins
DefersToUPnP == upnpCleanup

ChangedFirst(e) == serverPublic = Unknown   \* mutant: keeps the first endpoint
Changed(e) == serverPublic # e

AfterUpdateSilent == "read"   \* mutant: does not push what it learned
AfterUpdate == "broadcast"

StunResponse(r) ==
  /\ loop = "read" /\ ~ctxDone
  /\ r \in responses /\ r.id \in pending
  /\ pending' = pending \ {r.id}
  /\ IF ~DefersToUPnP /\ Changed(r.addr)
       THEN serverPublic' = r.addr /\ loop' = AfterUpdate
       ELSE UNCHANGED <<serverPublic, loop>>
  /\ UNCHANGED <<upnpCleanup, held, upnp, discover, stop, offer, sessVars, requests,
                 responses, natVars>>

(* A handshake: the response is built with the endpoint known now, and the *)
(* session is listed after that.                                           *)
Handshake(c) ==
  /\ loop = "read" /\ ~ctxDone /\ c \notin sessions
  /\ newcomer' = {c}
  /\ offered' = [offered EXCEPT ![c] = {serverPublic}]
  /\ loop' = "insert"
  /\ UNCHANGED <<pubVars, upnp, discover, stop, offer, sessions, stunVars, natVars>>

Insert ==
  /\ loop = "insert"
  /\ sessions' = sessions \cup newcomer /\ newcomer' = {}
  /\ loop' = "read"
  /\ UNCHANGED <<pubVars, upnp, discover, stop, offer, offered, stunVars, natVars>>

LoopExits ==
  /\ loop = "read" /\ ctxDone /\ loop' = "exited"
  /\ UNCHANGED <<pubVars, upnp, discover, stop, offer, sessVars, stunVars, natVars>>

-----------------------------------------------------------------------------
(* discoverPublicEndpointLoop: unless UPnP is active, a request with a     *)
(* fresh transaction.  An ID is fresh once nothing of it is left: what is  *)
(* late of its former use would be refused.                                *)
WantRequest ==
  /\ discover = "wait" /\ ~upnpCleanup /\ ~ctxDone
  /\ discover' = "request"
  /\ UNCHANGED <<pubVars, loop, upnp, stop, offer, sessVars, stunVars, natVars>>

SendRequest(id) ==
  /\ discover = "request" /\ id \notin pending
  /\ pending' = pending \cup {id} /\ requests' = requests \cup {id}
  /\ responses' = {r \in responses : r.id # id}
  /\ discover' = "wait"
  /\ UNCHANGED <<pubVars, loop, upnp, stop, offer, sessVars, natVars>>

(* Writing to the socket may fail: the transaction is taken back.          *)
RequestFails ==
  /\ discover = "request" /\ discover' = "wait"
  /\ UNCHANGED <<pubVars, loop, upnp, stop, offer, sessVars, stunVars, natVars>>

DiscoverExits ==
  /\ discover = "wait" /\ ctxDone /\ discover' = "exited"
  /\ UNCHANGED <<pubVars, loop, upnp, stop, offer, sessVars, stunVars, natVars>>

(* A transaction expires after five seconds. *)
Expire(id) ==
  /\ id \in pending
  /\ pending' = pending \ {id}
  /\ requests' = requests \ {id} /\ responses' = {r \in responses : r.id # id}
  /\ UNCHANGED <<pubVars, loop, upnp, discover, stop, offer, sessVars, natVars>>

(* The STUN server reflects what the NAT shows it. *)
Reflect(id) ==
  /\ id \in requests
  /\ requests' = requests \ {id}
  /\ responses' = responses \cup {[id |-> id, addr |-> nat]}
  /\ UNCHANGED <<pubVars, loop, upnp, discover, stop, offer, sessVars, pending, natVars>>

NatMoves ==
  /\ moves < MaxMoves /\ moves' = moves + 1
  /\ nat' \in Nats \ {nat}
  /\ UNCHANGED <<pubVars, loop, upnp, discover, stop, offer, sessVars, stunVars>>

-----------------------------------------------------------------------------
(* The UPnP task.  TryUPnPMapping finds a gateway, or none, or the server  *)
(* stops meanwhile ...                                                     *)
Discover ==
  /\ upnp = "discover" /\ upnp' \in {"add", "done"}
  /\ UNCHANGED <<pubVars, loop, discover, stop, offer, sessVars, stunVars, natVars>>

(* ... has it map the port (a request that fails is taken to have mapped   *)
(* nothing) ...                                                            *)
AddPortMapping ==
  /\ upnp = "add"
  /\ held' \in BOOLEAN
  /\ upnp' = IF held' THEN "ask" ELSE "done"
  /\ UNCHANGED <<serverPublic, upnpCleanup, loop, discover, stop, offer, sessVars,
                 stunVars, natVars>>

(* ... and asks for its address, without a usable one taking the mapping   *)
(* back.                                                                   *)
GivesUpSilently == "done"   \* mutant: discards the mapping it made
WithoutAddress == "undo"

GetExternalIPAddress ==
  /\ upnp = "ask" /\ upnp' \in {"mapped", WithoutAddress}
  /\ UNCHANGED <<pubVars, loop, discover, stop, offer, sessVars, stunVars, natVars>>

(* cleanupUPnPMapping tries once, and is taken to succeed; if it fails the *)
(* code logs it and the mapping stays.                                     *)
DeletePortMapping == held' = FALSE

Undo ==
  /\ upnp = "undo" /\ upnp' = "done" /\ DeletePortMapping
  /\ UNCHANGED <<serverPublic, upnpCleanup, loop, discover, stop, offer, sessVars,
                 stunVars, natVars>>

UPnPRequest == Discover \/ AddPortMapping \/ GetExternalIPAddress \/ Undo

(* Under lifecycleMu: publish the cleanup, or clean up at once if Stop has *)
(* begun and may have looked for it already.                               *)
MayPublishAlways == TRUE   \* mutant: does not look at stopping
MayPublish == ~stopping

Publish ==
  /\ upnp = "mapped"
  /\ IF MayPublish THEN upnpCleanup' = TRUE /\ upnp' = "update"
                   ELSE upnp' = "undo" /\ UNCHANGED upnpCleanup
  /\ UNCHANGED <<serverPublic, held, loop, discover, stop, offer, sessVars, stunVars,
                 natVars>>

UPnPUpdate ==
  /\ upnp = "update"
  /\ serverPublic' = Ext
  /\ upnp' = IF serverPublic # Ext THEN "broadcast" ELSE "done"
  /\ UNCHANGED <<upnpCleanup, held, loop, discover, stop, offer, sessVars, stunVars, natVars>>

-----------------------------------------------------------------------------
(* Stop: close the gate, cancel, release the mapping, wait.                *)
CloseGate ==
  /\ stop = "running" /\ stop' = "gate"
  /\ UNCHANGED <<pubVars, loop, upnp, discover, offer, sessVars, stunVars, natVars>>

Cancel ==
  /\ stop = "gate" /\ stop' = "cancelled"
  /\ UNCHANGED <<pubVars, loop, upnp, discover, offer, sessVars, stunVars, natVars>>

CleanupKept == upnpCleanup   \* mutant: the callback is not taken
CleanupAfterRelease == FALSE

Release ==
  /\ stop = "cancelled" /\ stop' = "released"
  /\ upnpCleanup' = CleanupAfterRelease
  /\ IF upnpCleanup THEN DeletePortMapping ELSE UNCHANGED held
  /\ UNCHANGED <<serverPublic, loop, upnp, discover, offer, sessVars, stunVars, natVars>>

Wait ==
  /\ stop = "released" /\ loop = "exited" /\ upnp = "done" /\ discover = "exited"
  /\ stop' = "stopped"
  /\ UNCHANGED <<pubVars, loop, upnp, discover, offer, sessVars, stunVars, natVars>>

Stopped == stop = "stopped" /\ UNCHANGED vars

Next ==
  \/ LoopBroadcast \/ LoopSend \/ UPnPBroadcast \/ UPnPSend
  \/ \E r \in [id : IDs, addr : Nats] : StunResponse(r)
  \/ \E c \in Clients : Handshake(c)
  \/ Insert \/ LoopExits
  \/ WantRequest \/ RequestFails \/ DiscoverExits
  \/ \E id \in IDs : SendRequest(id) \/ Expire(id) \/ Reflect(id)
  \/ NatMoves
  \/ UPnPRequest \/ Publish \/ UPnPUpdate
  \/ CloseGate \/ Cancel \/ Release \/ Wait \/ Stopped

(* The goroutines run, and of the requests that are repeated for ever some *)
(* are answered in time.                                                   *)
Fairness ==
  /\ WF_vars(LoopBroadcast) /\ WF_vars(LoopSend) /\ WF_vars(Insert)
  /\ WF_vars(UPnPBroadcast) /\ WF_vars(UPnPSend) /\ WF_vars(UPnPUpdate)
  /\ WF_vars(UPnPRequest \/ Publish)
  /\ WF_vars(WantRequest)
  /\ \A id \in IDs : SF_vars(SendRequest(id)) /\ WF_vars(Expire(id)) /\ SF_vars(Reflect(id))
  /\ SF_vars(\E r \in responses : r.addr = nat /\ StunResponse(r))

Spec == Init /\ [][Next]_vars
FairSpec == Spec /\ Fairness

-----------------------------------------------------------------------------
(* A reflection that was under way when the router mapped the port never   *)
(* replaces the mapped endpoint (server.go:623-626).                       *)
UPnPWins == [][serverPublic = Ext /\ ~ctxDone => serverPublic' = Ext]_vars

(* Wherever Stop meets the UPnP task, and whichever of its requests fails, *)
(* the router has been asked to delete the mapping it confirmed, when Stop *)
(* returns (server.go:289-291, upnp.go:525-529).                           *)
MappingReleased == stop = "stopped" => ~held

(* Before it reads the next datagram the read loop has pushed what STUN    *)
(* told it to every session that did not get it with the handshake.        *)
DiscoveryReachesSessions ==
  loop = "read" /\ serverPublic \in Nats =>
    \A c \in sessions : serverPublic \in offered[c]

(* broadcastPunchOffer "tells every live session the server's public punch *)
(* endpoint, so clients that connected before discovery can still punch"   *)
(* (server.go:653-654): once the UPnP task is done, every session has the  *)
(* mapped endpoint.                                                        *)
UPnPReachesSessions ==
  upnp = "done" /\ loop = "read" /\ serverPublic = Ext =>
    \A c \in sessions : Ext \in offered[c]

(* The endpoint follows the NAT unless UPnP fixed it or the server stops.  *)
FollowsNat == <>[](serverPublic = nat \/ upnpCleanup \/ stopping)
=============================================================================
