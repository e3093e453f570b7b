------------------------ MODULE PublicEndpointProofs ------------------------
(***************************************************************************)
(* Proofs about PublicEndpoint, for any number of clients, endpoints and   *)
(* STUN transactions: no port mapping survives Stop, no late reflection    *)
(* replaces a mapped endpoint, and what the read loop learned from STUN    *)
(* has reached every session before it reads again.                        *)
(***************************************************************************)
EXTENDS PublicEndpoint, TLAPS

(* A confirmed mapping has one owner: the UPnP task until it publishes the *)
(* cleanup or undoes it, and then upnpCleanup, which only Stop takes.      *)
Owned ==
  /\ held <=> upnp \in {"ask", "mapped", "undo"} \/ upnpCleanup
  /\ upnp \in {"discover", "add", "ask", "mapped", "undo"} => ~upnpCleanup
  /\ stop \in {"released", "stopped"} => ~upnpCleanup
  /\ stop = "stopped" => upnp = "done"

(* The mapped endpoint is announced only under a published cleanup.        *)
Fixed ==
  /\ upnp = "update" /\ ~ctxDone => upnpCleanup
  /\ serverPublic = Ext /\ ~ctxDone => upnpCleanup

(* Outside a broadcast, the sessions listed know what STUN reported; in    *)
(* one, what is being sent is what they lack.                              *)
Told ==
  serverPublic \in Nats =>
    /\ loop = "send" => offer["loop"] = serverPublic
    /\ loop \in {"read", "insert"} =>
         \A c \in sessions \cup newcomer : serverPublic \in offered[c]

IInv == TypeOK /\ Owned /\ Fixed /\ Told

(* The initial states satisfy the inductive invariant.                     *)
LEMMA InitIInv == Init => IInv
<1> SUFFICES ASSUME Init PROVE IInv
  OBVIOUS
<1>1. TypeOK
  <2>1. /\ offer \in [Senders -> Endpoints \cup {Unknown}]
        /\ offered \in [Clients -> SUBSET (Endpoints \cup {Unknown})]
    BY DEF Init
  <2>2. moves \in 0..MaxMoves
    BY PublicEndpointAssumption DEF Init
  <2>3. loop # "insert" /\ newcomer = {}
    BY DEF Init
  <2> QED
    BY <2>1, <2>2, <2>3 DEF Init, TypeOK
<1>2. Owned /\ Fixed
  BY PublicEndpointAssumption DEF Init, Owned, Fixed, ctxDone
<1>3. Told
  BY PublicEndpointAssumption DEF Init, Told
<1> QED
  BY <1>1, <1>2, <1>3 DEF IInv

(* Every step preserves the types.                                         *)
LEMMA NextTypeOK == IInv /\ [Next]_vars => TypeOK'
<1> SUFFICES ASSUME IInv, [Next]_vars PROVE TypeOK'
  OBVIOUS
<1> USE PublicEndpointAssumption
    DEF IInv, TypeOK, Senders, Endpoints, pubVars, sessVars, stunVars, natVars
<1>1. CASE LoopBroadcast
  BY <1>1 DEF LoopBroadcast, Broadcast
<1>2. CASE LoopSend
  BY <1>2 DEF LoopSend, SendOffers
<1>3. CASE UPnPBroadcast
  BY <1>3 DEF UPnPBroadcast, Broadcast
<1>4. CASE UPnPSend
  BY <1>4 DEF UPnPSend, SendOffers
<1>5. ASSUME NEW r \in [id : IDs, addr : Nats], StunResponse(r) PROVE TypeOK'
  BY <1>5 DEF StunResponse, AfterUpdate
<1>6. ASSUME NEW c \in Clients, Handshake(c) PROVE TypeOK'
  BY <1>6 DEF Handshake
<1>7. CASE Insert
  BY <1>7 DEF Insert
<1>8. CASE LoopExits \/ WantRequest \/ RequestFails \/ DiscoverExits \/ NatMoves
  BY <1>8 DEF LoopExits, WantRequest, RequestFails, DiscoverExits, NatMoves
<1>9. ASSUME NEW id \in IDs, SendRequest(id) \/ Expire(id) \/ Reflect(id) PROVE TypeOK'
  BY <1>9 DEF SendRequest, Expire, Reflect
<1>10. CASE UPnPRequest
  <2>1. UNCHANGED upnpCleanup /\ ~upnpCleanup
    BY <1>10 DEF UPnPRequest, Discover, AddPortMapping, GetExternalIPAddress, Undo, Owned
  <2>3. held' \in BOOLEAN
    <3>1. CASE UNCHANGED held
      BY <3>1
    <3>2. CASE AddPortMapping \/ held' = FALSE
      BY <3>2 DEF AddPortMapping
    <3> QED
      BY <1>10, <3>1, <3>2
      DEF UPnPRequest, Discover, AddPortMapping, GetExternalIPAddress, Undo, DeletePortMapping
  <2>4. upnp' \in {"add", "ask", "mapped", "undo", "done"}
    BY <1>10 DEF UPnPRequest, Discover, AddPortMapping, GetExternalIPAddress,
                 WithoutAddress, Undo
  <2>2. UNCHANGED <<serverPublic, loop, discover, stop, offer, newcomer, sessions, offered,
                    pending, requests, responses, nat, moves>>
    BY <1>10 DEF UPnPRequest, Discover, AddPortMapping, GetExternalIPAddress, Undo
  <2>5. upnpCleanup' => held'
    BY <2>1
  <2> QED
    BY <2>1, <2>2, <2>3, <2>4, <2>5
<1>11. CASE Publish
  BY <1>11 DEF Publish, MayPublish, stopping, Owned
<1>12. CASE UPnPUpdate
  BY <1>12 DEF UPnPUpdate
<1>13. CASE CloseGate \/ Cancel \/ Wait
  BY <1>13 DEF CloseGate, Cancel, Wait
<1>14. CASE Release
  <2>1. held' \in BOOLEAN /\ upnpCleanup' = FALSE
    BY <1>14 DEF Release, CleanupAfterRelease, DeletePortMapping
  <2> QED
    BY <1>14, <2>1 DEF Release
<1>15. CASE UNCHANGED vars
  BY <1>15 DEF vars
<1> QED
  BY <1>1, <1>2, <1>3, <1>4, <1>5, <1>6, <1>7, <1>8, <1>9, <1>10, <1>11, <1>12, <1>13,
     <1>14, <1>15
  DEF Next, Stopped, UPnPRequest

(* Every step preserves the ownership of the mapping: only the UPnP task   *)
(* and Stop touch it.                                                      *)
LEMMA NextOwned == IInv /\ [Next]_vars => Owned'
<1> SUFFICES ASSUME IInv, [Next]_vars PROVE Owned'
  OBVIOUS
<1> USE DEF IInv, TypeOK, Owned, pubVars, sessVars, stunVars, natVars
<1>1. CASE UPnPUpdate
  BY <1>1 DEF UPnPUpdate
<1>12. CASE UPnPRequest
  BY <1>12 DEF UPnPRequest, Discover, AddPortMapping, GetExternalIPAddress,
               WithoutAddress, Undo, DeletePortMapping
<1>2. CASE Publish
  BY <1>2 DEF Publish, MayPublish, stopping
<1>3. CASE CloseGate \/ Cancel \/ Wait
  BY <1>3 DEF CloseGate, Cancel, Wait
<1>11. CASE Release
  <2>1. (held' <=> held /\ ~upnpCleanup) /\ ~upnpCleanup'
    BY <1>11 DEF Release, DeletePortMapping, CleanupAfterRelease
  <2> QED
    BY <1>11, <2>1 DEF Release
<1>4. CASE UPnPBroadcast \/ UPnPSend
  BY <1>4 DEF UPnPBroadcast, UPnPSend, Broadcast, SendOffers
<1>5. CASE LoopBroadcast \/ LoopSend
  BY <1>5 DEF LoopBroadcast, LoopSend, Broadcast, SendOffers
<1>6. ASSUME NEW r \in [id : IDs, addr : Nats], StunResponse(r) PROVE Owned'
  BY <1>6 DEF StunResponse
<1>7. ASSUME NEW c \in Clients, Handshake(c) PROVE Owned'
  BY <1>7 DEF Handshake
<1>8. CASE Insert \/ LoopExits \/ WantRequest \/ RequestFails \/ DiscoverExits \/ NatMoves
  BY <1>8 DEF Insert, LoopExits, WantRequest, RequestFails, DiscoverExits, NatMoves
<1>9. ASSUME NEW id \in IDs, SendRequest(id) \/ Expire(id) \/ Reflect(id) PROVE Owned'
  BY <1>9 DEF SendRequest, Expire, Reflect
<1>10. CASE UNCHANGED vars
  BY <1>10 DEF vars
<1> QED
  BY <1>1, <1>2, <1>3, <1>4, <1>5, <1>6, <1>7, <1>8, <1>9, <1>10, <1>11, <1>12
  DEF Next, Stopped, UPnPRequest

(* Every step preserves Fixed, and keeps a mapped endpoint until ctx is    *)
(* done: a response may set another one only when no cleanup is published. *)
LEMMA NextFixed ==
  IInv /\ [Next]_vars =>
    /\ Fixed'
    /\ serverPublic = Ext /\ ~ctxDone => serverPublic' = Ext
<1> DEFINE Goal ==
      /\ Fixed'
      /\ serverPublic = Ext /\ ~ctxDone => serverPublic' = Ext
<1> SUFFICES ASSUME IInv, [Next]_vars PROVE Goal
  OBVIOUS
<1> USE PublicEndpointAssumption
    DEF IInv, TypeOK, Owned, Fixed, ctxDone, pubVars, sessVars, stunVars, natVars
<1>1. ASSUME NEW r \in [id : IDs, addr : Nats], StunResponse(r) PROVE Goal
  BY <1>1 DEF StunResponse, DefersToUPnP
<1>2. CASE UPnPUpdate
  BY <1>2 DEF UPnPUpdate
<1>11. CASE UPnPRequest
  BY <1>11 DEF UPnPRequest, Discover, AddPortMapping, GetExternalIPAddress,
               WithoutAddress, Undo
<1>3. CASE Publish
  BY <1>3 DEF Publish, MayPublish, stopping
<1>4. CASE CloseGate \/ Cancel \/ Release \/ Wait
  BY <1>4 DEF CloseGate, Cancel, Release, CleanupAfterRelease, Wait
<1>5. CASE UPnPBroadcast \/ UPnPSend
  BY <1>5 DEF UPnPBroadcast, UPnPSend, Broadcast, SendOffers
<1>6. CASE LoopBroadcast \/ LoopSend
  BY <1>6 DEF LoopBroadcast, LoopSend, Broadcast, SendOffers
<1>7. ASSUME NEW c \in Clients, Handshake(c) PROVE Goal
  BY <1>7 DEF Handshake
<1>8. CASE Insert \/ LoopExits \/ WantRequest \/ RequestFails \/ DiscoverExits \/ NatMoves
  BY <1>8 DEF Insert, LoopExits, WantRequest, RequestFails, DiscoverExits, NatMoves
<1>9. ASSUME NEW id \in IDs, SendRequest(id) \/ Expire(id) \/ Reflect(id) PROVE Goal
  BY <1>9 DEF SendRequest, Expire, Reflect
<1>10. CASE UNCHANGED vars
  BY <1>10 DEF vars
<1> QED
  BY <1>1, <1>2, <1>3, <1>4, <1>5, <1>6, <1>7, <1>8, <1>9, <1>10, <1>11
  DEF Next, Stopped, UPnPRequest

(* Every step preserves Told: the endpoint changes to a reflected one only *)
(* in the read loop, which then broadcasts.                                *)
LEMMA NextTold == IInv /\ [Next]_vars => Told'
<1> SUFFICES ASSUME IInv, [Next]_vars PROVE Told'
  OBVIOUS
<1> USE PublicEndpointAssumption
    DEF IInv, TypeOK, Senders, Endpoints, Told, pubVars, sessVars, stunVars, natVars
<1>1. CASE LoopBroadcast
  BY <1>1 DEF LoopBroadcast, Broadcast
<1>2. CASE LoopSend
  BY <1>2 DEF LoopSend, SendOffers
<1>3. CASE UPnPBroadcast
  BY <1>3 DEF UPnPBroadcast, Broadcast
<1>4. CASE UPnPSend
  BY <1>4 DEF UPnPSend, SendOffers
<1>5. ASSUME NEW r \in [id : IDs, addr : Nats], StunResponse(r) PROVE Told'
  BY <1>5 DEF StunResponse, AfterUpdate
<1>6. ASSUME NEW c \in Clients, Handshake(c) PROVE Told'
  BY <1>6 DEF Handshake
<1>7. CASE Insert
  BY <1>7 DEF Insert
<1>8. CASE LoopExits \/ WantRequest \/ RequestFails \/ DiscoverExits \/ NatMoves
  BY <1>8 DEF LoopExits, WantRequest, RequestFails, DiscoverExits, NatMoves
<1>9. ASSUME NEW id \in IDs, SendRequest(id) \/ Expire(id) \/ Reflect(id) PROVE Told'
  BY <1>9 DEF SendRequest, Expire, Reflect
<1>10. CASE UPnPRequest \/ Publish
  BY <1>10 DEF UPnPRequest, Discover, AddPortMapping, GetExternalIPAddress, Undo, Publish
<1>11. CASE UPnPUpdate
  BY <1>11 DEF UPnPUpdate
<1>12. CASE CloseGate \/ Cancel \/ Release \/ Wait
  BY <1>12 DEF CloseGate, Cancel, Release, Wait
<1>13. CASE UNCHANGED vars
  BY <1>13 DEF vars
<1> QED
  BY <1>1, <1>2, <1>3, <1>4, <1>5, <1>6, <1>7, <1>8, <1>9, <1>10, <1>11, <1>12, <1>13
  DEF Next, Stopped, UPnPRequest

(* The inductive invariant holds of every behaviour.                       *)
THEOREM Inductive == Spec => []IInv
<1>1. IInv /\ [Next]_vars => IInv'
  BY NextTypeOK, NextOwned, NextFixed, NextTold DEF IInv
<1> QED
  BY <1>1, InitIInv, PTL DEF Spec

(* Every state is well formed; a published cleanup means a held mapping.   *)
THEOREM TypeCorrect == Spec => []TypeOK
<1>1. IInv => TypeOK
  BY DEF IInv
<1> QED
  BY <1>1, Inductive, PTL

(* When Stop has returned the router holds no mapping of this server       *)
(* (server.go:289-291, 1461-1513).                                         *)
THEOREM NoMappingSurvivesStop == Spec => []MappingReleased
<1>1. IInv => MappingReleased
  BY DEF IInv, Owned, MappingReleased
<1> QED
  BY <1>1, Inductive, PTL

(* A reflected endpoint never replaces the mapped one (server.go:623-626). *)
THEOREM ReflectionNeverWins == Spec => UPnPWins
<1>1. IInv /\ [Next]_vars => [serverPublic = Ext /\ ~ctxDone => serverPublic' = Ext]_vars
  BY NextFixed
<1> QED
  BY <1>1, Inductive, PTL DEF Spec, UPnPWins

(* Before the read loop reads the next datagram every listed session has   *)
(* the endpoint STUN reported (server.go:645-671).                         *)
THEOREM SessionsAreTold == Spec => []DiscoveryReachesSessions
<1>1. IInv => DiscoveryReachesSessions
  BY DEF IInv, Told, DiscoveryReachesSessions
<1> QED
  BY <1>1, Inductive, PTL
=============================================================================
