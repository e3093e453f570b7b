-------------------------- MODULE ClientPartsProofs --------------------------
(***************************************************************************)
(* Proofs about ClientParts.  The route: for any endpoints, punch          *)
(* candidates, switches of the mode and interleavings, the route is        *)
(* listed, no punch socket survives a switch to relay-only, and a route    *)
(* the mode forbids is on its way out.  The goroutines: for any candidates *)
(* and whatever is under way when Stop comes, no open socket and no task   *)
(* is forgotten.                                                           *)
(*                                                                         *)
(* What each property lacks to be inductive is who still has to act.       *)
(* BeingRemoved says that a retired candidate is listed only until a       *)
(* goroutine removes it.  SetMode knows what it has yet to retire          *)
(* (YetToRetire), and nothing is added under relay-only, since the mode    *)
(* does not change while SetMode is at it (SetterPlaces).  A selection may *)
(* install a route the mode forbids only if SetMode stored the mode after  *)
(* that selection began and still waits for candidateMu (SetterWaits).     *)
(*                                                                         *)
(* Of the sockets, LifeIInv adds what the readers and makers rely on: a    *)
(* reader's socket is in the list Stop goes through, and closed once it    *)
(* has (ReadersListed); a maker between two steps knows whether its        *)
(* candidate is listed, read or closed by now (MakersKnow); and nothing    *)
(* starts after what Stop waited for has ended (Undone).                   *)
(***************************************************************************)
EXTENDS ClientParts, FiniteSetTheorems, TLAPS


(* TypeOK by the variables that change together. *)
ModeOK ==
  /\ mode \in Modes /\ left \in Modes /\ modeSeen \in Modes
  /\ switches \in 0..MaxSwitches
MadeOK == made \in 0..MaxPunches
ListOK == listed \subseteq {Relay} \cup 1..made /\ Relay \in listed
DataOK ==
  /\ relayClass \in {"", "relay", "direct"}
  /\ endpoint \in [Punches -> Endpoints \cup {NoEndpoint}]
FlagsOK == retired \in [Punches -> BOOLEAN] /\ online \in [Cands -> BOOLEAN]
UnretiredListed == \A p \in 1..made : ~retired[p] => p \in listed
RouteOK == best \in Cands \cup {None} /\ prev \in Cands \cup {None}
GoOK ==
  /\ pc \in [Goroutines -> Places] /\ then \in [Goroutines -> Places]
  /\ target \in [Goroutines -> Cands]
  /\ offer \in [Goroutines -> Endpoints \cup {NoEndpoint}]
LockOK ==
  /\ holder \in Goroutines \cup {Nobody}
  /\ \A g \in Goroutines : pc[g] = "selecting" <=> holder = g

(* Candidates not made yet are neither retired nor probed, nor will be. *)
Unmade ==
  /\ \A p \in Punches : p > made => ~retired[p] /\ pc[Prober(p)] = "idle"
  /\ toRetire \subseteq Punches /\ toRetire \subseteq 1..made

(* Where a goroutine goes on after selecting or appending. *)
GoesOn == \A g \in Goroutines : then[g] \in {"idle", "select", "retire", "offer", "done"}

(* Only what is retired is removed, and whatever is retired is. *)
RemovesRetired ==
  \A g \in Goroutines : pc[g] = "remove" => target[g] \in 1..made /\ retired[target[g]]
BeingRemoved ==
  \A p \in Punches : p \in listed /\ retired[p] =>
    \E g \in Goroutines : pc[g] = "remove" /\ target[g] = p

InList == {best, prev} \subseteq listed \cup {None}

SetterPlaces ==
  /\ pc[Setter] \in {"idle", "clear", "retire", "remove", "select", "selecting", "append",
                     "offer"}
  /\ then[Setter] \in {"idle", "retire", "offer"}
  /\ pc[Setter] = "append" => mode # "relay-only" /\ then[Setter] = "idle"

Retiring ==
  \/ pc[Setter] = "retire"
  \/ pc[Setter] \in {"remove", "select", "selecting"} /\ then[Setter] = "retire"
YetToRetire ==
  mode = "relay-only" /\ pc[Setter] # "clear" =>
    \A p \in listed \ {Relay} : retired[p] \/ (Retiring /\ p \in toRetire)

SetterWaits ==
  holder # Nobody /\ modeSeen # mode => pc[Setter] \in {"clear", "select"}

OnItsWay(g) ==
  \/ pc[g] \in {"clear", "retire", "remove", "select", "selecting"}
  \/ pc[g] = "append" /\ then[g] = "select"
RouteFixed == best # None /\ ~Allowed(best) => \E g \in Goroutines : OnItsWay(g)

IInv ==
  /\ ModeOK /\ MadeOK /\ ListOK /\ DataOK /\ FlagsOK /\ UnretiredListed /\ RouteOK
  /\ GoOK /\ LockOK
  /\ Unmade /\ GoesOn /\ RemovesRetired /\ BeingRemoved /\ InList
  /\ SetterPlaces /\ YetToRetire /\ SetterWaits /\ RouteFixed

(* The goroutines are distinct. *)
LEMMA Distinct ==
  /\ Setter \in Goroutines /\ Pinger \in Goroutines /\ Setter # Pinger
  /\ Nobody \notin Goroutines
  /\ \A c \in Cands : Reader(c) \in Goroutines /\ Reader(c) \notin {Setter, Pinger}
  /\ \A p \in Punches : Prober(p) \in Goroutines /\ Prober(p) \notin {Setter, Pinger}
  /\ \A p, q \in Punches : Prober(p) = Prober(q) => p = q
  /\ \A c \in Cands, p \in Punches : Reader(c) # Prober(p)
BY DEF Setter, Pinger, Nobody, Goroutines, Reader, Prober

(* Candidates are numbers, and None is none of them. *)
LEMMA Numbers ==
  /\ Relay \in Cands /\ Relay \notin Punches /\ Punches \subseteq Cands
  /\ None \notin Cands
  /\ \A p \in Punches : p \in Nat /\ p >= 1
BY ClientRouteAssumption DEF Relay, Punches, Cands, None

(* So are those made so far.                                               *)
LEMMA MadeNumbers == ASSUME MadeOK PROVE made \in Nat /\ 1..made \subseteq Punches
BY ClientRouteAssumption DEF MadeOK, Punches

(* Goroutine g alone moves, to one of the places; and it alone goes on to  *)
(* one of them afterwards.                                                 *)
Moves(g, places) ==
  /\ pc' \in [Goroutines -> Places] /\ pc'[g] \in places
  /\ \A h \in Goroutines \ {g} : pc'[h] = pc[h]
Then(g, places) ==
  /\ then' \in [Goroutines -> Places] /\ then'[g] \in places
  /\ \A h \in Goroutines \ {g} : then'[h] = then[h]

(* SetMode stores the mode; it then retires or selects.                    *)
LEMMA StoreModeIInv ==
  ASSUME IInv, NEW m \in Modes, StoreMode(m)
  PROVE  IInv'
<1> USE ClientRouteAssumption DEF IInv, modeVars, candVars, routeVars, lockVars
<1>1. /\ pc[Setter] = "idle" /\ mode' = m /\ left' = mode /\ m # mode
      /\ switches' \in 0..MaxSwitches
      /\ UNCHANGED <<candVars, routeVars, target, offer, toRetire, lockVars>>
  BY DEF StoreMode, ModeOK
<1>2. Moves(Setter, {IF m = "relay-only" THEN "clear" ELSE "select"})
  BY Distinct DEF StoreMode, Go, AfterStore, GoOK, Places, Moves
<1>3. Then(Setter, {"offer"})
  BY Distinct DEF StoreMode, GoOK, Places, Then
<1>4. (ModeOK /\ MadeOK /\ ListOK /\ DataOK)'
  BY <1>1, <1>2, <1>3 DEF ModeOK, Modes, MadeOK, ListOK, DataOK
<1>5. (FlagsOK /\ UnretiredListed /\ RouteOK)'
  BY <1>1, <1>2, <1>3, Numbers DEF FlagsOK, UnretiredListed, RouteOK
<1>6. (GoOK /\ GoesOn)'
  BY <1>1, <1>2, <1>3, Numbers DEF GoOK, GoesOn, Moves, Then
<1>7. LockOK'
  BY <1>1, <1>2, <1>3, Distinct DEF LockOK, Moves, Then
<1>8. Unmade'
  BY <1>1, <1>2, <1>3, Distinct, Numbers DEF Unmade, Moves, Then
<1>9. (RemovesRetired /\ BeingRemoved)'
  BY <1>1, <1>2, <1>3 DEF RemovesRetired, BeingRemoved, Moves
<1>10. InList'
  BY <1>1, <1>2, <1>3 DEF InList
<1>11. SetterPlaces'
  BY <1>1, <1>2, <1>3, Distinct DEF SetterPlaces, Moves, Then
<1>12. YetToRetire'
  BY <1>1, <1>2, <1>3, Distinct DEF YetToRetire, Retiring, Moves, Then
<1>13. SetterWaits'
  BY <1>1, <1>2, <1>3, Distinct DEF SetterWaits, Moves, Then
<1>14. RouteFixed'
  BY <1>1, <1>2, <1>3, Distinct DEF RouteFixed, OnItsWay, Allowed, AllowedIn, Moves
<1> QED
  BY <1>4, <1>5, <1>6, <1>7, <1>8, <1>9, <1>10, <1>11, <1>12, <1>13, <1>14

(* SetMode drops a route it has forbidden, and lists what it must retire.  *)
LEMMA ClearRouteIInv ==
  ASSUME IInv, ClearRoute
  PROVE  IInv'
<1> USE ClientRouteAssumption DEF IInv, modeVars, candVars, routeVars, lockVars
<1>1. /\ pc[Setter] = "clear" /\ holder = Nobody /\ toRetire' = listed \ {Relay}
      /\ UNCHANGED <<modeVars, candVars, then, target, offer, lockVars>>
  BY DEF ClearRoute, CandidateMuFree
<1>2. best' \in {best, None} /\ prev' = None
  BY DEF ClearRoute
<1>3. Moves(Setter, {"retire"})
  BY Distinct DEF ClearRoute, Go, GoOK, Places, Moves
<1>4. (ModeOK /\ MadeOK /\ ListOK /\ DataOK)'
  BY <1>1, <1>2, <1>3 DEF ModeOK, Modes, MadeOK, ListOK, DataOK
<1>5. (FlagsOK /\ UnretiredListed /\ RouteOK)'
  BY <1>1, <1>2, <1>3, Numbers DEF FlagsOK, UnretiredListed, RouteOK
<1>6. (GoOK /\ GoesOn)'
  BY <1>1, <1>2, <1>3, Numbers DEF GoOK, GoesOn, Moves
<1>7. LockOK'
  BY <1>1, <1>2, <1>3, Distinct DEF LockOK, Moves
<1>8. Unmade'
  BY <1>1, <1>2, <1>3, Distinct, Numbers, MadeNumbers DEF Unmade, Moves, ListOK
<1>9. (RemovesRetired /\ BeingRemoved)'
  BY <1>1, <1>2, <1>3 DEF RemovesRetired, BeingRemoved, Moves
<1>10. InList'
  BY <1>1, <1>2, <1>3 DEF InList
<1>11. SetterPlaces'
  BY <1>1, <1>2, <1>3, Distinct DEF SetterPlaces, Moves
<1>12. YetToRetire'
  BY <1>1, <1>2, <1>3, Distinct DEF YetToRetire, Retiring, Moves
<1>13. SetterWaits'
  BY <1>1, <1>2, <1>3, Distinct DEF SetterWaits, Moves
<1>14. RouteFixed'
  BY <1>1, <1>2, <1>3, Distinct DEF RouteFixed, OnItsWay, Allowed, AllowedIn, Moves
<1> QED
  BY <1>4, <1>5, <1>6, <1>7, <1>8, <1>9, <1>10, <1>11, <1>12, <1>13, <1>14

(* SetMode has retired all on its list.                                    *)
LEMMA RetiredAllIInv ==
  ASSUME IInv, RetiredAll
  PROVE  IInv'
<1> USE ClientRouteAssumption DEF IInv, modeVars, candVars, routeVars, lockVars
<1>1. /\ pc[Setter] = "retire" /\ toRetire = {}
      /\ UNCHANGED <<modeVars, candVars, routeVars, target, offer, toRetire, lockVars>>
  BY DEF RetiredAll
<1>2. Moves(Setter, {"select"}) /\ Then(Setter, {"offer"})
  BY Distinct DEF RetiredAll, SelectThen, Go, GoOK, Places, Moves, Then
<1>3. (ModeOK /\ MadeOK /\ ListOK /\ DataOK)'
  BY <1>1, <1>2 DEF ModeOK, Modes, MadeOK, ListOK, DataOK
<1>4. (FlagsOK /\ UnretiredListed /\ RouteOK)'
  BY <1>1, <1>2, Numbers DEF FlagsOK, UnretiredListed, RouteOK
<1>5. (GoOK /\ GoesOn)'
  BY <1>1, <1>2, Numbers DEF GoOK, GoesOn, Moves, Then
<1>6. LockOK'
  BY <1>1, <1>2, Distinct DEF LockOK, Moves, Then
<1>7. Unmade'
  BY <1>1, <1>2, Distinct, Numbers DEF Unmade, Moves, Then
<1>8. (RemovesRetired /\ BeingRemoved)'
  BY <1>1, <1>2 DEF RemovesRetired, BeingRemoved, Moves, Then
<1>9. InList'
  BY <1>1, <1>2 DEF InList
<1>10. SetterPlaces'
  BY <1>1, <1>2, Distinct DEF SetterPlaces, Moves, Then
<1>11. YetToRetire'
  BY <1>1, <1>2, Distinct DEF YetToRetire, Retiring, Moves, Then
<1>12. SetterWaits'
  BY <1>1, <1>2, Distinct DEF SetterWaits, Moves, Then
<1>13. RouteFixed'
  BY <1>1, <1>2, Distinct DEF RouteFixed, OnItsWay, Allowed, AllowedIn, Moves, Then
<1> QED
  BY <1>3, <1>4, <1>5, <1>6, <1>7, <1>8, <1>9, <1>10, <1>11, <1>12, <1>13

(* SetMode's last step: it appends only outside relay-only, and nobody     *)
(* else changes the mode.                                                  *)
LEMMA ReofferIInv ==
  ASSUME IInv, Reoffer
  PROVE  IInv'
<1> USE ClientRouteAssumption DEF IInv, modeVars, candVars, routeVars, lockVars
<1>1. /\ pc[Setter] = "offer" /\ left' = "auto"
      /\ UNCHANGED <<mode, switches, candVars, routeVars, target, toRetire, lockVars>>
  BY DEF Reoffer
<1>2. Moves(Setter, {"idle", "append"})
  BY Distinct DEF Reoffer, Go, GoOK, Places, Moves
<1>3. Then(Setter, {"idle", then[Setter]})
  BY Distinct DEF Reoffer, GoOK, Places, Then
<1>4. pc'[Setter] = "append" => mode # "relay-only" /\ then'[Setter] = "idle"
  BY Distinct DEF Reoffer, Offered, Go, GoOK
<1>5. offer' \in [Goroutines -> Endpoints \cup {NoEndpoint}]
  BY DEF Reoffer, GoOK
<1>6. (ModeOK /\ MadeOK /\ ListOK /\ DataOK)'
  BY <1>1, <1>2, <1>3, <1>4, <1>5 DEF ModeOK, Modes, MadeOK, ListOK, DataOK
<1>7. (FlagsOK /\ UnretiredListed /\ RouteOK)'
  BY <1>1, <1>2, <1>3, <1>4, <1>5, Numbers DEF FlagsOK, UnretiredListed, RouteOK
<1>8. (GoOK /\ GoesOn)'
  BY <1>1, <1>2, <1>3, <1>4, <1>5, Numbers DEF GoOK, GoesOn, Moves, Then
<1>9. LockOK'
  BY <1>1, <1>2, <1>3, <1>4, <1>5, Distinct DEF LockOK, Moves, Then
<1>10. Unmade'
  BY <1>1, <1>2, <1>3, <1>4, <1>5, Distinct, Numbers DEF Unmade, Moves, Then
<1>11. (RemovesRetired /\ BeingRemoved)'
  BY <1>1, <1>2, <1>3, <1>4, <1>5 DEF RemovesRetired, BeingRemoved, Moves, Then
<1>12. InList'
  BY <1>1, <1>2, <1>3, <1>4, <1>5 DEF InList
<1>13. SetterPlaces'
  BY <1>1, <1>2, <1>3, <1>4, <1>5, Distinct DEF SetterPlaces, Moves, Then
<1>14. YetToRetire'
  BY <1>1, <1>2, <1>3, <1>4, <1>5, Distinct DEF YetToRetire, Retiring, Moves, Then
<1>15. SetterWaits'
  BY <1>1, <1>2, <1>3, <1>4, <1>5, Distinct DEF SetterWaits, Moves, Then
<1>16. RouteFixed'
  BY <1>1, <1>2, <1>3, <1>4, <1>5, Distinct DEF RouteFixed, OnItsWay, Allowed,
     AllowedIn,
     Moves, Then
<1> QED
  BY <1>6, <1>7, <1>8, <1>9, <1>10, <1>11, <1>12, <1>13, <1>14, <1>15, <1>16

(* A selection begins.                                                     *)
LEMMA SelectBeginIInv ==
  ASSUME IInv, NEW g \in Goroutines, SelectBegin(g)
  PROVE  IInv'
<1> USE ClientRouteAssumption DEF IInv, modeVars, candVars, routeVars, lockVars
<1>1. /\ pc[g] = "select" /\ holder = Nobody /\ holder' = g /\ modeSeen' = mode
      /\ UNCHANGED <<modeVars, candVars, routeVars, then, target, offer, toRetire>>
  BY DEF SelectBegin, CandidateMuFree
<1>2. Moves(g, {"selecting"})
  BY DEF SelectBegin, Go, GoOK, Places, Moves
<1>3. (ModeOK /\ MadeOK /\ ListOK /\ DataOK)'
  BY <1>1, <1>2 DEF ModeOK, Modes, MadeOK, ListOK, DataOK
<1>4. (FlagsOK /\ UnretiredListed /\ RouteOK)'
  BY <1>1, <1>2, Numbers DEF FlagsOK, UnretiredListed, RouteOK
<1>5. (GoOK /\ GoesOn)'
  BY <1>1, <1>2, Numbers DEF GoOK, GoesOn, Moves
<1>6. LockOK'
  BY <1>1, <1>2, Distinct DEF LockOK, Moves
<1>7. Unmade'
  BY <1>1, <1>2, Distinct, Numbers DEF Unmade, Moves
<1>8. (RemovesRetired /\ BeingRemoved)'
  BY <1>1, <1>2 DEF RemovesRetired, BeingRemoved, Moves
<1>9. InList'
  BY <1>1, <1>2 DEF InList
<1>10. SetterPlaces'
  BY <1>1, <1>2, Distinct DEF SetterPlaces, Moves
<1>11. YetToRetire'
  BY <1>1, <1>2, Distinct DEF YetToRetire, Retiring, Moves
<1>12. SetterWaits'
  BY <1>1, <1>2, Distinct DEF SetterWaits, Moves
<1>13. RouteFixed'
  BY <1>1, <1>2 DEF RouteFixed, OnItsWay, Allowed, AllowedIn, Moves
<1> QED
  BY <1>3, <1>4, <1>5, <1>6, <1>7, <1>8, <1>9, <1>10, <1>11, <1>12, <1>13

(* A selection ends: what it installs is listed, and allowed unless        *)
(* SetMode waits to select again.                                          *)
LEMMA SelectEndIInv ==
  ASSUME IInv, NEW g \in Goroutines, SelectEnd(g)
  PROVE  IInv'
<1> USE ClientRouteAssumption DEF IInv, modeVars, candVars, routeVars, lockVars
<1>1. /\ pc[g] = "selecting" /\ holder' = Nobody /\ modeSeen' = "auto"
      /\ UNCHANGED <<modeVars, candVars, target, offer, toRetire>>
  BY DEF SelectEnd
<1>2. Moves(g, {then[g]}) /\ Then(g, {"idle"})
  BY DEF SelectEnd, Go, GoOK, Places, Moves, Then
<1>3. /\ {best', prev'} \subseteq listed \cup {None}
      /\ best' # None => AllowedIn(mode, best') \/ AllowedIn(modeSeen, best')
  <2>1. PICK seen \in [Cands -> {modeSeen, mode}] :
          LET eligible == {c \in listed : online[c] /\ AllowedIn(seen[c], c)} IN
          \/ best' = None /\ prev' = None
          \/ \E c \in eligible \cup (IF best # None /\ online[best] /\ Allowed(best)
                                      THEN {best} ELSE {}) :
               best' = c /\ prev' \in {best, prev}
    BY DEF SelectEnd
  <2>2. \/ best' = None
        \/ best' = best /\ Allowed(best)
        \/ best' \in listed /\ AllowedIn(seen[best'], best')
    <3>1. CASE best' = None
      BY <3>1
    <3>2. CASE best' # None
      <4>1. PICK c \in {c \in listed : online[c] /\ AllowedIn(seen[c], c)}
                         \cup (IF best # None /\ online[best] /\ Allowed(best)
                                 THEN {best} ELSE {}) : best' = c
        BY <2>1, <3>2, Zenon
      <4>2. CASE c \in listed /\ AllowedIn(seen[c], c)
        BY <4>1, <4>2
      <4>3. CASE c = best /\ Allowed(best)
        BY <4>1, <4>3
      <4> QED
        BY <4>1, <4>2, <4>3, Zenon
    <3> QED
      BY <3>1, <3>2
  <2>3. prev' \in {best, prev, None}
    BY <2>1
  <2>4. best' \in listed => seen[best'] \in {modeSeen, mode}
    BY <2>1, Numbers, MadeNumbers DEF ListOK
  <2> QED
    BY <2>2, <2>3, <2>4 DEF InList, Allowed
<1>4. (ModeOK /\ MadeOK /\ ListOK /\ DataOK)'
  BY <1>1, <1>2, <1>3 DEF ModeOK, Modes, MadeOK, ListOK, DataOK
<1>5. (FlagsOK /\ UnretiredListed /\ RouteOK)'
  BY <1>1, <1>2, <1>3, Numbers, MadeNumbers DEF FlagsOK, UnretiredListed,
     RouteOK, ListOK
<1>6. (GoOK /\ GoesOn)'
  BY <1>1, <1>2, <1>3, Numbers DEF GoOK, GoesOn, Moves, Then
<1>7. LockOK'
  BY <1>1, <1>2, <1>3, Distinct DEF LockOK, Moves, GoesOn
<1>8. Unmade'
  BY <1>1, <1>2, <1>3, Distinct, Numbers DEF Unmade, Moves
<1>9. (RemovesRetired /\ BeingRemoved)'
  BY <1>1, <1>2, <1>3 DEF RemovesRetired, BeingRemoved, Moves, GoesOn
<1>10. InList'
  BY <1>1, <1>2, <1>3 DEF InList
<1>11. SetterPlaces'
  BY <1>1, <1>2, <1>3, Distinct DEF SetterPlaces, Moves, Then, LockOK
<1>12. YetToRetire'
  BY <1>1, <1>2, <1>3, Distinct DEF YetToRetire, Retiring, Moves, Then
<1>13. SetterWaits'
  BY <1>1, <1>2, <1>3, Distinct DEF SetterWaits, Moves
<1>14. RouteFixed'
  <2> SUFFICES ASSUME best' # None, ~AllowedIn(mode, best')
               PROVE  \E h \in Goroutines : OnItsWay(h)'
    BY <1>1 DEF RouteFixed, Allowed, AllowedIn
  <2>1. modeSeen # mode /\ holder = g
    BY <1>1, <1>3 DEF LockOK
  <2>2. pc[Setter] \in {"clear", "select"}
    BY <2>1, Distinct DEF SetterWaits
  <2>3. pc'[Setter] = pc[Setter]
    BY <1>1, <1>2, <2>2, Distinct DEF Moves
  <2> QED
    BY <2>2, <2>3, Distinct DEF OnItsWay
<1> QED
  BY <1>4, <1>5, <1>6, <1>7, <1>8, <1>9, <1>10, <1>11, <1>12, <1>13, <1>14

(* A retired candidate is removed, from the list and from the route.       *)
LEMMA RemoveIInv ==
  ASSUME IInv, NEW g \in Goroutines, Remove(g)
  PROVE  IInv'
<1> USE ClientRouteAssumption DEF IInv, modeVars, candVars, routeVars, lockVars
<1>1. /\ pc[g] = "remove" /\ holder = Nobody
      /\ listed' = listed \ {target[g]}
      /\ target' = [target EXCEPT ![g] = Relay]
      /\ UNCHANGED <<modeVars, relayClass, made, endpoint, retired, online, then, offer,
                     toRetire, lockVars>>
  BY DEF Remove, CandidateMuFree
<1>2. Moves(g, {"select"})
  BY DEF Remove, Go, GoOK, Places, Moves
<1>3. target[g] \in 1..made /\ retired[target[g]] /\ target[g] # Relay
  BY <1>1, MadeNumbers, Numbers DEF RemovesRetired
<1>4. /\ best' = (IF best = target[g] THEN None ELSE best)
      /\ prev' = (IF prev = target[g] THEN None ELSE prev)
  BY DEF Remove, BestWithout, PrevWithout
<1>5. (ModeOK /\ MadeOK /\ ListOK /\ DataOK)'
  BY <1>1, <1>2, <1>3, <1>4 DEF ModeOK, Modes, MadeOK, ListOK, DataOK
<1>6. (FlagsOK /\ UnretiredListed /\ RouteOK)'
  BY <1>1, <1>2, <1>3, <1>4, Numbers DEF FlagsOK, UnretiredListed, RouteOK
<1>7. (GoOK /\ GoesOn)'
  BY <1>1, <1>2, <1>3, <1>4, Numbers DEF GoOK, GoesOn, Moves
<1>8. LockOK'
  BY <1>1, <1>2, <1>3, <1>4, Distinct DEF LockOK, Moves
<1>9. Unmade'
  BY <1>1, <1>2, <1>3, <1>4, Distinct, Numbers DEF Unmade, Moves
<1>10. (RemovesRetired /\ BeingRemoved)'
  BY <1>1, <1>2, <1>3, <1>4 DEF RemovesRetired, BeingRemoved, Moves, GoOK
<1>11. InList'
  BY <1>1, <1>2, <1>3, <1>4 DEF InList
<1>12. SetterPlaces'
  BY <1>1, <1>2, <1>3, <1>4, Distinct DEF SetterPlaces, Moves
<1>13. YetToRetire'
  BY <1>1, <1>2, <1>3, <1>4, Distinct DEF YetToRetire, Retiring, Moves
<1>14. SetterWaits'
  BY <1>1, <1>2, <1>3, <1>4, Distinct DEF SetterWaits, Moves
<1>15. RouteFixed'
  BY <1>1, <1>2, <1>3, <1>4 DEF RouteFixed, OnItsWay, Allowed, AllowedIn, Moves
<1> QED
  BY <1>5, <1>6, <1>7, <1>8, <1>9, <1>10, <1>11, <1>12, <1>13, <1>14, <1>15

(* A punch candidate is appended, not under relay-only.                    *)
LEMMA AppendIInv ==
  ASSUME IInv, NEW g \in Goroutines, Append(g)
  PROVE  IInv'
<1> USE ClientRouteAssumption DEF IInv, modeVars, candVars, routeVars, lockVars
<1>1. PICK n \in Punches : n = made + 1
  <2>1. made \in Nat /\ made < MaxPunches
    BY MadeNumbers DEF Append
  <2> QED
    BY <2>1 DEF Punches
<1>2. /\ pc[g] = "append" /\ holder = Nobody /\ mode # "relay-only"
      /\ made' = n /\ listed' = listed \cup {n}
      /\ endpoint' = [endpoint EXCEPT ![n] = offer[g]]
      /\ offer' = [offer EXCEPT ![g] = NoEndpoint]
      /\ UNCHANGED <<modeVars, relayClass, retired, online, routeVars, target, toRetire,
                     lockVars>>
  BY <1>1 DEF Append, AppendDone, MayAppend, CandidateMuFree
<1>3. /\ ~retired[n] /\ pc[Prober(n)] = "idle" /\ Prober(n) # g
      /\ Prober(n) \in Goroutines /\ Prober(n) # Setter
  BY <1>1, <1>2, MadeNumbers, Distinct DEF Unmade
<1>4. n \notin listed /\ made \in Nat
  BY <1>1, MadeNumbers, Numbers DEF ListOK
<1>5. /\ pc' \in [Goroutines -> Places] /\ pc'[g] = then[g] /\ pc'[Prober(n)] = "probing"
      /\ \A h \in Goroutines \ {g, Prober(n)} : pc'[h] = pc[h]
  <2>1. pc' = [pc EXCEPT ![g] = then[g], ![Prober(n)] = "probing"]
    BY <1>1 DEF Append
  <2> QED
    BY <1>3, <2>1 DEF GoOK, Places
<1>6. Then(g, {"idle"})
  BY DEF Append, AppendDone, GoOK, Places, Then
<1>7. ModeOK'
  BY <1>1, <1>2, <1>3, <1>4, <1>5, <1>6 DEF ModeOK, Modes
<1>8. MadeOK'
  BY <1>1, <1>2, <1>3, <1>4, <1>5, <1>6 DEF MadeOK, Punches
<1>9. ListOK'
  BY <1>1, <1>2, <1>3, <1>4, <1>5, <1>6 DEF ListOK
<1>10. DataOK'
  BY <1>1, <1>2, <1>3, <1>4, <1>5, <1>6 DEF DataOK, GoOK
<1>11. (FlagsOK /\ UnretiredListed /\ RouteOK)'
  BY <1>1, <1>2, <1>3, <1>4, <1>5, <1>6, Numbers DEF FlagsOK, UnretiredListed,
     RouteOK
<1>12. (GoOK /\ GoesOn)'
  BY <1>1, <1>2, <1>3, <1>4, <1>5, <1>6, Numbers DEF GoOK, GoesOn, Then
<1>13. LockOK'
  BY <1>1, <1>2, <1>3, <1>4, <1>5, <1>6, Distinct DEF LockOK, GoesOn
<1>14. Unmade'
  BY <1>1, <1>2, <1>3, <1>4, <1>5, <1>6, Distinct, Numbers DEF Unmade
<1>15. RemovesRetired'
  BY <1>1, <1>2, <1>3, <1>4, <1>5, <1>6 DEF RemovesRetired, GoesOn
<1>16. BeingRemoved'
  <2> SUFFICES ASSUME NEW p \in Punches, p \in listed', retired'[p]
               PROVE  \E h \in Goroutines : pc'[h] = "remove" /\ target'[h] = p
    BY DEF BeingRemoved
  <2>1. p \in listed /\ retired[p]
    BY <1>2, <1>3
  <2>2. PICK h \in Goroutines : pc[h] = "remove" /\ target[h] = p
    BY <2>1 DEF BeingRemoved
  <2> QED
    BY <1>2, <1>3, <1>5, <2>2
<1>17. InList'
  BY <1>1, <1>2, <1>3, <1>4, <1>5, <1>6 DEF InList
<1>18. SetterPlaces'
  BY <1>1, <1>2, <1>3, <1>4, <1>5, <1>6, Distinct DEF SetterPlaces, Then
<1>19. YetToRetire'
  BY <1>1, <1>2, <1>3, <1>4, <1>5, <1>6, Distinct DEF YetToRetire, Retiring
<1>20. SetterWaits'
  BY <1>1, <1>2, <1>3, <1>4, <1>5, <1>6, Distinct DEF SetterWaits
<1>21. RouteFixed'
  BY <1>1, <1>2, <1>3, <1>4, <1>5, <1>6 DEF RouteFixed, OnItsWay, Allowed,
     AllowedIn, Then
<1> QED
  BY <1>7, <1>8, <1>9, <1>10, <1>11, <1>12, <1>13, <1>14, <1>15, <1>16, <1>17,
     <1>18, <1>19,
     <1>20, <1>21

(* An offer is refused, or its socket not made.                            *)
LEMMA AppendRefusedIInv ==
  ASSUME IInv, NEW g \in Goroutines, AppendRefused(g)
  PROVE  IInv'
<1> USE ClientRouteAssumption DEF IInv, modeVars, candVars, routeVars, lockVars
<1>1. /\ pc[g] = "append" /\ holder = Nobody
      /\ offer' = [offer EXCEPT ![g] = NoEndpoint]
      /\ UNCHANGED <<modeVars, candVars, routeVars, target, toRetire, lockVars>>
  BY DEF AppendRefused, AppendDone, CandidateMuFree
<1>2. Moves(g, {then[g]}) /\ Then(g, {"idle"})
  BY DEF AppendRefused, AppendDone, Go, GoOK, Places, Moves, Then
<1>3. (ModeOK /\ MadeOK /\ ListOK /\ DataOK)'
  BY <1>1, <1>2 DEF ModeOK, Modes, MadeOK, ListOK, DataOK
<1>4. (FlagsOK /\ UnretiredListed /\ RouteOK)'
  BY <1>1, <1>2, Numbers DEF FlagsOK, UnretiredListed, RouteOK
<1>5. (GoOK /\ GoesOn)'
  BY <1>1, <1>2, Numbers DEF GoOK, GoesOn, Moves, Then
<1>6. LockOK'
  BY <1>1, <1>2, Distinct DEF LockOK, Moves, GoesOn
<1>7. Unmade'
  BY <1>1, <1>2, Distinct, Numbers DEF Unmade, Moves, Then
<1>8. (RemovesRetired /\ BeingRemoved)'
  BY <1>1, <1>2 DEF RemovesRetired, BeingRemoved, Moves, GoesOn, Then
<1>9. InList'
  BY <1>1, <1>2 DEF InList
<1>10. SetterPlaces'
  BY <1>1, <1>2, Distinct DEF SetterPlaces, Moves, Then
<1>11. YetToRetire'
  BY <1>1, <1>2, Distinct DEF YetToRetire, Retiring, Moves, Then
<1>12. SetterWaits'
  BY <1>1, <1>2, Distinct DEF SetterWaits, Moves, Then
<1>13. RouteFixed'
  BY <1>1, <1>2 DEF RouteFixed, OnItsWay, Allowed, AllowedIn, Moves, Then
<1> QED
  BY <1>3, <1>4, <1>5, <1>6, <1>7, <1>8, <1>9, <1>10, <1>11, <1>12, <1>13

(* A reader processes a packet; if that reclassifies Relay, it selects.    *)
LEMMA ProcessIInv ==
  ASSUME IInv, NEW c \in Cands, Process(c)
  PROVE  IInv'
<1> USE ClientRouteAssumption DEF IInv, modeVars, candVars, routeVars, lockVars
<1> DEFINE r == Reader(c)
<1>1. /\ pc[r] \in {"idle", "packet"} /\ r \in Goroutines /\ r # Setter
      /\ \A p \in Punches : r # Prober(p)
      /\ UNCHANGED <<modeVars, listed, made, endpoint, retired, routeVars, target, toRetire,
                     lockVars>>
  BY Distinct DEF Process
<1>2. online' = [online EXCEPT ![c] = TRUE]
  BY DEF Process
<1>3. PICK next \in {"idle", "select"} :
        /\ relayClass' \in IF c = Relay /\ next = "select"
                             THEN {"relay", "direct"} ELSE {relayClass}
        /\ \/ pc' = [pc EXCEPT ![r] = next] /\ UNCHANGED <<then, offer>>
           \/ /\ \E e \in Endpoints : offer' = [offer EXCEPT ![r] = e]
              /\ pc' = [pc EXCEPT ![r] = "append"] /\ then' = [then EXCEPT ![r] = next]
  BY DEF Process, Go
<1>4. Moves(r, {"idle", "select", "append"}) /\ Then(r, {"idle", "select", then[r]})
  BY <1>1, <1>3 DEF GoOK, Places, Moves, Then
<1>5. offer' \in [Goroutines -> Endpoints \cup {NoEndpoint}]
  BY <1>3 DEF GoOK
<1>6. /\ relayClass' \in {"relay", "direct", relayClass}
      /\ relayClass' # relayClass => OnItsWay(r)'
  BY <1>1, <1>3 DEF OnItsWay, GoOK
<1> HIDE DEF r
<1>7. (ModeOK /\ MadeOK /\ ListOK /\ DataOK)'
  BY <1>1, <1>2, <1>3, <1>4, <1>5, <1>6 DEF ModeOK, Modes, MadeOK, ListOK, DataOK
<1>8. (FlagsOK /\ UnretiredListed /\ RouteOK)'
  BY <1>1, <1>2, <1>3, <1>4, <1>5, <1>6, Numbers DEF FlagsOK, UnretiredListed,
     RouteOK
<1>9. (GoOK /\ GoesOn)'
  BY <1>1, <1>2, <1>3, <1>4, <1>5, <1>6, Numbers DEF GoOK, GoesOn, Moves, Then
<1>10. LockOK'
  BY <1>1, <1>2, <1>3, <1>4, <1>5, <1>6, Distinct DEF LockOK, Moves, Then
<1>11. Unmade'
  BY <1>1, <1>2, <1>3, <1>4, <1>5, <1>6, Distinct, Numbers DEF Unmade, Moves, Then
<1>12. (RemovesRetired /\ BeingRemoved)'
  BY <1>1, <1>2, <1>3, <1>4, <1>5, <1>6 DEF RemovesRetired, BeingRemoved, Moves, Then
<1>13. InList'
  BY <1>1, <1>2, <1>3, <1>4, <1>5, <1>6 DEF InList
<1>14. SetterPlaces'
  BY <1>1, <1>2, <1>3, <1>4, <1>5, <1>6, Distinct DEF SetterPlaces, Moves, Then
<1>15. YetToRetire'
  BY <1>1, <1>2, <1>3, <1>4, <1>5, <1>6, Distinct DEF YetToRetire, Retiring,
     Moves, Then
<1>16. SetterWaits'
  BY <1>1, <1>2, <1>3, <1>4, <1>5, <1>6, Distinct DEF SetterWaits, Moves, Then
<1>17. RouteFixed'
  BY <1>1, <1>2, <1>3, <1>4, <1>5, <1>6 DEF RouteFixed, OnItsWay, Allowed,
     AllowedIn, Moves,
     Then
<1> QED
  BY <1>7, <1>8, <1>9, <1>10, <1>11, <1>12, <1>13, <1>14, <1>15, <1>16, <1>17

(* The pinger finds a candidate silent or not, and selects.                *)
LEMMA RoundIInv ==
  ASSUME IInv, NEW c \in Cands, Round(c)
  PROVE  IInv'
<1> USE ClientRouteAssumption DEF IInv, modeVars, candVars, routeVars, lockVars
<1>1. /\ pc[Pinger] = "idle"
      /\ UNCHANGED <<modeVars, relayClass, listed, made, endpoint, retired, routeVars, target,
                     offer, toRetire, lockVars>>
  BY DEF Round
<1>2. Moves(Pinger, {"select"}) /\ Then(Pinger, {"idle"})
  BY Distinct DEF Round, SelectThen, Go, GoOK, Places, Moves, Then
<1>3. online' \in [Cands -> BOOLEAN]
  <2>1. PICK silent \in BOOLEAN : online' = [online EXCEPT ![c] = online[c] /\ ~silent]
    BY Zenon DEF Round
  <2> DEFINE b == online[c] /\ ~silent
  <2>2. b \in BOOLEAN
    BY Zenon
  <2>3. online' = [online EXCEPT ![c] = b]
    BY <2>1
  <2> HIDE DEF b
  <2> QED
    BY <2>2, <2>3 DEF FlagsOK
<1>4. \A p \in Punches : Prober(p) # Pinger
  BY Distinct
<1>5. (ModeOK /\ MadeOK /\ ListOK /\ DataOK)'
  BY <1>1, <1>2, <1>3, <1>4 DEF ModeOK, Modes, MadeOK, ListOK, DataOK
<1>6. (FlagsOK /\ UnretiredListed /\ RouteOK)'
  BY <1>1, <1>2, <1>3, <1>4, Numbers DEF FlagsOK, UnretiredListed, RouteOK
<1>7. (GoOK /\ GoesOn)'
  BY <1>1, <1>2, <1>3, <1>4, Numbers DEF GoOK, GoesOn, Moves, Then
<1>8. LockOK'
  BY <1>1, <1>2, <1>3, <1>4, Distinct DEF LockOK, Moves, Then
<1>9. Unmade'
  BY <1>1, <1>2, <1>3, <1>4, Distinct, Numbers DEF Unmade, Moves, Then
<1>10. (RemovesRetired /\ BeingRemoved)'
  BY <1>1, <1>2, <1>3, <1>4 DEF RemovesRetired, BeingRemoved, Moves, Then
<1>11. InList'
  BY <1>1, <1>2, <1>3, <1>4 DEF InList
<1>12. SetterPlaces'
  BY <1>1, <1>2, <1>3, <1>4, Distinct DEF SetterPlaces, Moves, Then
<1>13. YetToRetire'
  BY <1>1, <1>2, <1>3, <1>4, Distinct DEF YetToRetire, Retiring, Moves, Then
<1>14. SetterWaits'
  BY <1>1, <1>2, <1>3, <1>4, Distinct DEF SetterWaits, Moves, Then
<1>15. RouteFixed'
  BY <1>1, <1>2, <1>3, <1>4, Distinct DEF RouteFixed, OnItsWay, Allowed,
     AllowedIn, Moves,
     Then
<1> QED
  BY <1>5, <1>6, <1>7, <1>8, <1>9, <1>10, <1>11, <1>12, <1>13, <1>14, <1>15

(* A reader takes a packet.                                                *)
LEMMA ReceiveIInv ==
  ASSUME IInv, NEW p \in Punches, Receive(p)
  PROVE  IInv'
<1> USE ClientRouteAssumption DEF IInv, modeVars, candVars, routeVars, lockVars
<1> DEFINE r == Reader(p)
<1>1. /\ pc[r] = "idle" /\ r \in Goroutines /\ r # Setter /\ \A q \in Punches : r # Prober(q)
      /\ UNCHANGED <<modeVars, candVars, routeVars, then, target, offer, toRetire, lockVars>>
  BY Distinct, Numbers DEF Receive
<1>2. Moves(r, {"packet"})
  BY <1>1 DEF Receive, Go, GoOK, Places, Moves
<1> HIDE DEF r
<1>3. (ModeOK /\ MadeOK /\ ListOK /\ DataOK)'
  BY <1>1, <1>2 DEF ModeOK, Modes, MadeOK, ListOK, DataOK
<1>4. (FlagsOK /\ UnretiredListed /\ RouteOK)'
  BY <1>1, <1>2, Numbers DEF FlagsOK, UnretiredListed, RouteOK
<1>5. (GoOK /\ GoesOn)'
  BY <1>1, <1>2, Numbers DEF GoOK, GoesOn, Moves
<1>6. LockOK'
  BY <1>1, <1>2, Distinct DEF LockOK, Moves
<1>7. Unmade'
  BY <1>1, <1>2, Distinct, Numbers DEF Unmade, Moves
<1>8. (RemovesRetired /\ BeingRemoved)'
  BY <1>1, <1>2 DEF RemovesRetired, BeingRemoved, Moves
<1>9. InList'
  BY <1>1, <1>2 DEF InList
<1>10. SetterPlaces'
  BY <1>1, <1>2, Distinct DEF SetterPlaces, Moves
<1>11. YetToRetire'
  BY <1>1, <1>2, Distinct DEF YetToRetire, Retiring, Moves
<1>12. SetterWaits'
  BY <1>1, <1>2, Distinct DEF SetterWaits, Moves
<1>13. RouteFixed'
  BY <1>1, <1>2 DEF RouteFixed, OnItsWay, Allowed, AllowedIn, Moves
<1> QED
  BY <1>3, <1>4, <1>5, <1>6, <1>7, <1>8, <1>9, <1>10, <1>11, <1>12, <1>13

(* A prober finds its candidate established, and selects.                  *)
LEMMA ConfirmIInv ==
  ASSUME IInv, NEW p \in Punches, Confirm(p)
  PROVE  IInv'
<1> USE ClientRouteAssumption DEF IInv, modeVars, candVars, routeVars, lockVars
<1> DEFINE r == Prober(p)
<1>1. /\ pc[r] = "probing" /\ r \in Goroutines /\ r # Setter
      /\ UNCHANGED <<modeVars, candVars, routeVars, target, offer, toRetire, lockVars>>
  BY Distinct DEF Confirm
<1>2. \A q \in Punches : q > made => r # Prober(q)
  BY <1>1 DEF Unmade
<1>3. Moves(r, {"select"}) /\ Then(r, {"done"})
  BY <1>1 DEF Confirm, SelectThen, Go, GoOK, Places, Moves, Then
<1> HIDE DEF r
<1>4. (ModeOK /\ MadeOK /\ ListOK /\ DataOK)'
  BY <1>1, <1>2, <1>3 DEF ModeOK, Modes, MadeOK, ListOK, DataOK
<1>5. (FlagsOK /\ UnretiredListed /\ RouteOK)'
  BY <1>1, <1>2, <1>3, Numbers DEF FlagsOK, UnretiredListed, RouteOK
<1>6. (GoOK /\ GoesOn)'
  BY <1>1, <1>2, <1>3, Numbers DEF GoOK, GoesOn, Moves, Then
<1>7. LockOK'
  BY <1>1, <1>2, <1>3, Distinct DEF LockOK, Moves, Then
<1>8. Unmade'
  BY <1>1, <1>2, <1>3, Distinct, Numbers DEF Unmade, Moves, Then
<1>9. (RemovesRetired /\ BeingRemoved)'
  BY <1>1, <1>2, <1>3 DEF RemovesRetired, BeingRemoved, Moves, Then
<1>10. InList'
  BY <1>1, <1>2, <1>3 DEF InList
<1>11. SetterPlaces'
  BY <1>1, <1>2, <1>3, Distinct DEF SetterPlaces, Moves, Then
<1>12. YetToRetire'
  BY <1>1, <1>2, <1>3, Distinct DEF YetToRetire, Retiring, Moves, Then
<1>13. SetterWaits'
  BY <1>1, <1>2, <1>3, Distinct DEF SetterWaits, Moves, Then
<1>14. RouteFixed'
  BY <1>1, <1>2, <1>3 DEF RouteFixed, OnItsWay, Allowed, AllowedIn, Moves, Then
<1> QED
  BY <1>4, <1>5, <1>6, <1>7, <1>8, <1>9, <1>10, <1>11, <1>12, <1>13, <1>14

(* Whoever retires a candidate marks it and goes on to remove it, or finds *)
(* it marked.                                                              *)
LEMMA MarkRetiredIInv ==
  ASSUME IInv, NEW g \in Goroutines, NEW p \in 1..made, NEW otherwise \in {"retire", "done"},
         MarkRetired(g, p, otherwise),
         IF g = Setter THEN pc[g] = "retire" /\ otherwise = "retire"
                       ELSE pc[g] = "probing" /\ otherwise = "done",
         \A q \in Punches : q > made => Prober(q) # g,
         toRetire' \in {toRetire, toRetire \ {p}},
         UNCHANGED <<modeVars, relayClass, listed, made, endpoint, routeVars, offer, lockVars>>
  PROVE  IInv'
<1> USE ClientRouteAssumption DEF IInv, modeVars, candVars, routeVars, lockVars
<1>1. p \in Punches /\ made \in Nat
  BY MadeNumbers
<1>2. \/ /\ retired[p] /\ Moves(g, {otherwise})
         /\ UNCHANGED <<retired, online, then, target>>
      \/ /\ retired' = [retired EXCEPT ![p] = TRUE] /\ online' = [online EXCEPT ![p] = FALSE]
         /\ target' = [target EXCEPT ![g] = p]
         /\ Moves(g, {"remove"}) /\ Then(g, {otherwise})
  BY DEF MarkRetired, Go, GoOK, Places, Moves, Then
<1>3. \A q \in Punches : retired[q] => retired'[q]
  BY <1>1, <1>2 DEF FlagsOK
<1>4. (ModeOK /\ MadeOK /\ ListOK /\ DataOK)'
  BY <1>1, <1>2, <1>3 DEF ModeOK, Modes, MadeOK, ListOK, DataOK
<1>5. (FlagsOK /\ UnretiredListed /\ RouteOK)'
  BY <1>1, <1>2, <1>3, Numbers, MadeNumbers DEF FlagsOK, UnretiredListed, RouteOK
<1>6. (GoOK /\ GoesOn)'
  BY <1>1, <1>2, <1>3, Numbers DEF GoOK, GoesOn, Moves, Then
<1>7. LockOK'
  BY <1>1, <1>2, <1>3, Distinct DEF LockOK, Moves, Then
<1>8. Unmade'
  BY <1>1, <1>2, <1>3, Distinct, Numbers DEF Unmade, Moves, FlagsOK
<1>9. RemovesRetired'
  <2> SUFFICES ASSUME NEW h \in Goroutines, pc'[h] = "remove"
               PROVE  target'[h] \in 1..made' /\ retired'[target'[h]]
    BY DEF RemovesRetired
  <2>1. CASE h = g
    BY <1>1, <1>2, <2>1 DEF Moves, FlagsOK, GoOK
  <2>2. CASE h # g
    <3>1. pc[h] = "remove" /\ target'[h] = target[h]
      BY <1>2, <2>2 DEF Moves, GoOK
    <3> QED
      BY <1>3, <3>1, MadeNumbers DEF RemovesRetired
  <2> QED
    BY <2>1, <2>2
<1>10. BeingRemoved'
  BY <1>1, <1>2, <1>3 DEF BeingRemoved, Moves, FlagsOK, GoOK
<1>11. InList'
  BY <1>1, <1>2, <1>3 DEF InList
<1>12. SetterPlaces'
  BY <1>1, <1>2, <1>3, Distinct DEF SetterPlaces, Moves, Then
<1>13. YetToRetire'
  <2> SUFFICES ASSUME mode' = "relay-only", pc'[Setter] # "clear",
                      NEW q \in listed' \ {Relay}
               PROVE  retired'[q] \/ (Retiring' /\ q \in toRetire')
    BY DEF YetToRetire
  <2>a. CASE retired'[q]
    BY <2>a, Zenon
  <2>b. CASE ~retired'[q]
    <3>0. mode = "relay-only" /\ q \in listed \ {Relay}
      OBVIOUS
    <3>1. q \in Punches /\ ~retired[q]
      BY <1>3, <2>b, <3>0, MadeNumbers DEF ListOK
    <3>2. q # p
      <4>1. CASE retired[p]
        BY <3>1, <4>1, Zenon
      <4>2. CASE retired' = [retired EXCEPT ![p] = TRUE]
        <5>1. retired'[p]
          BY <1>1, <4>2 DEF FlagsOK
        <5> QED
          BY <2>b, <5>1, Zenon
      <4> QED
        BY <1>2, <4>1, <4>2, Zenon
    <3>3. Retiring /\ q \in toRetire
      BY <1>2, <3>0, <3>1, Distinct DEF YetToRetire, Moves
    <3>4. Retiring'
      BY <1>2, <3>3, Distinct DEF Retiring, Moves, Then
    <3> QED
      BY <3>2, <3>3, <3>4
  <2> QED
    BY <2>a, <2>b, Zenon
<1>14. SetterWaits'
  BY <1>1, <1>2, <1>3, Distinct DEF SetterWaits, Moves, Then
<1>15. RouteFixed'
  BY <1>1, <1>2, <1>3 DEF RouteFixed, OnItsWay, Allowed, AllowedIn, Moves, Then
<1> QED
  BY <1>4, <1>5, <1>6, <1>7, <1>8, <1>9, <1>10, <1>11, <1>12, <1>13, <1>14, <1>15

(* SetMode, the probers and the pinger. *)
LEMMA RetireIInv ==
  ASSUME IInv, NEW p \in Punches, RetirePunch(p) \/ GiveUp(p)
  PROVE  IInv'
<1> USE DEF IInv, modeVars, candVars, routeVars, lockVars
<1>1. CASE RetirePunch(p)
  <2>1. /\ pc[Setter] = "retire" /\ p \in 1..made /\ toRetire' = toRetire \ {p}
        /\ MarkRetired(Setter, p, "retire")
        /\ UNCHANGED <<modeVars, relayClass, listed, made, endpoint, routeVars, offer, lockVars>>
    BY <1>1 DEF RetirePunch, Unmade
  <2>2. Setter \in Goroutines /\ \A q \in Punches : Prober(q) # Setter
    BY Distinct
  <2> QED
    BY <2>1, <2>2, MarkRetiredIInv
<1>2. CASE GiveUp(p)
  <2>1. /\ pc[Prober(p)] = "probing" /\ MarkRetired(Prober(p), p, "done") /\ toRetire' = toRetire
        /\ UNCHANGED <<modeVars, relayClass, listed, made, endpoint, routeVars, offer, lockVars>>
    BY <1>2 DEF GiveUp
  <2>2. Prober(p) \in Goroutines /\ Prober(p) # Setter
    BY Distinct
  <2>3. p \in 1..made
    BY <2>1, MadeNumbers, Numbers DEF Unmade
  <2>4. \A q \in Punches : q > made => Prober(q) # Prober(p)
    BY <2>1 DEF Unmade
  <2> QED
    BY <2>1, <2>2, <2>3, <2>4, MarkRetiredIInv
<1> QED
  BY <1>1, <1>2

(* Nothing changes.                                                        *)
LEMMA StutterIInv == ASSUME IInv, UNCHANGED vars PROVE IInv'
<1> USE DEF vars, modeVars, candVars, routeVars, goVars, lockVars
<1>1. (ModeOK /\ MadeOK /\ ListOK /\ DataOK /\ FlagsOK /\ UnretiredListed /\ RouteOK)'
  BY DEF IInv, ModeOK, MadeOK, ListOK, DataOK, FlagsOK, UnretiredListed, RouteOK
<1>2. (GoOK /\ LockOK /\ Unmade /\ GoesOn /\ RemovesRetired /\ BeingRemoved /\ InList)'
  BY DEF IInv, GoOK, LockOK, Unmade, GoesOn, RemovesRetired, BeingRemoved, InList
<1>3. (SetterPlaces /\ YetToRetire /\ SetterWaits /\ RouteFixed)'
  BY DEF IInv, SetterPlaces, YetToRetire, Retiring, SetterWaits, RouteFixed,
     OnItsWay,
         Allowed, AllowedIn
<1> QED
  BY <1>1, <1>2, <1>3 DEF IInv

(* Every step preserves IInv ... *)
LEMMA NextIInv == IInv /\ [Next]_vars => IInv'
<1> SUFFICES ASSUME IInv, Next PROVE IInv'
  BY StutterIInv
<1>1. ASSUME NEW m \in Modes, StoreMode(m) PROVE IInv'
  BY <1>1, StoreModeIInv
<1>2. CASE ClearRoute \/ RetiredAll \/ Reoffer
  BY <1>2, ClearRouteIInv, RetiredAllIInv, ReofferIInv
<1>3. ASSUME NEW g \in Goroutines,
             SelectBegin(g) \/ SelectEnd(g) \/ Remove(g) \/ Append(g) \/ AppendRefused(g)
      PROVE  IInv'
  BY <1>3, SelectBeginIInv, SelectEndIInv, RemoveIInv, AppendIInv, AppendRefusedIInv
<1>4. ASSUME NEW c \in Cands, Process(c) \/ Round(c) PROVE IInv'
  BY <1>4, ProcessIInv, RoundIInv
<1>5. ASSUME NEW p \in Punches, Receive(p) \/ RetirePunch(p) \/ GiveUp(p) \/ Confirm(p)
      PROVE  IInv'
  BY <1>5, ReceiveIInv, RetireIInv, ConfirmIInv
<1> QED
  BY <1>1, <1>2, <1>3, <1>4, <1>5 DEF Next

(* ... and so it holds in every reachable state. *)
LEMMA InitIInv == Init => IInv
<1> SUFFICES ASSUME Init PROVE IInv
  OBVIOUS
<1>0. made = 0
  BY DEF Init
<1>1. /\ made = 0 /\ listed = {Relay} /\ best = None /\ prev = None /\ toRetire = {}
      /\ relayClass = "" /\ endpoint = [p \in Punches |-> NoEndpoint]
  BY DEF Init
<1>2. /\ pc = [g \in Goroutines |-> "idle"] /\ then = [g \in Goroutines |-> "idle"]
      /\ target = [g \in Goroutines |-> Relay] /\ offer = [g \in Goroutines |-> NoEndpoint]
      /\ holder = Nobody
  BY DEF Init
<1>3. /\ retired = [p \in Punches |-> FALSE] /\ online = [c \in Cands |-> FALSE]
  BY DEF Init
<1>4. ModeOK
  <2>1. mode = InitMode /\ left = "auto" /\ modeSeen = "auto" /\ switches = 0
    BY DEF Init
  <2> QED
    BY <2>1, ClientRouteAssumption DEF ModeOK, Modes
<1>5. MadeOK /\ ListOK /\ DataOK /\ RouteOK /\ InList
  <2>1. MadeOK
    BY <1>0, ClientRouteAssumption DEF MadeOK
  <2>2. ListOK /\ RouteOK /\ InList
    BY <1>1, Numbers DEF ListOK, RouteOK, InList
  <2>3. DataOK
    BY <1>1 DEF DataOK
  <2> QED
    BY <2>1, <2>2, <2>3
<1>6. FlagsOK
  BY <1>3 DEF FlagsOK
<1>7. UnretiredListed /\ BeingRemoved
  <2>1. 1..made = {}
    BY <1>0
  <2>2. UnretiredListed
    BY <2>1 DEF UnretiredListed
  <2>3. \A p \in Punches : ~retired[p]
    BY <1>3
  <2>4. BeingRemoved
    BY <2>3 DEF BeingRemoved
  <2> QED
    BY <2>2, <2>4
<1>8. GoOK /\ LockOK /\ GoesOn /\ RemovesRetired
  BY <1>2, Distinct, Numbers DEF GoOK, LockOK, GoesOn, RemovesRetired, Places
<1>9. Unmade
  BY <1>1, <1>2, <1>3, Distinct DEF Unmade
<1>10. SetterPlaces /\ YetToRetire /\ SetterWaits /\ RouteFixed
  BY <1>1, <1>2, Distinct DEF SetterPlaces, YetToRetire, SetterWaits, RouteFixed
<1> QED
  BY <1>4, <1>5, <1>6, <1>7, <1>8, <1>9, <1>10 DEF IInv

-----------------------------------------------------------------------------
(* The client's tasks and sockets.  Life!TypeOK by what changes together.  *)
LifePlaces == {"idle", "append", "reader", "prober", "close", "remove", "detect"}

ControlOK ==
  /\ start \in {"new", "candidates", "started"}
  /\ stop \in {"running", "gate", "cancelled", "puncher", "conns", "wait", "stopped"}
  /\ localOpen \in BOOLEAN /\ puncher \in {"none", "probing", "exited"}
NetOK ==
  /\ conn \in [Life!Cands -> {"none", "open", "closed"}]
  /\ known \subseteq Life!Cands /\ tasks \subseteq Life!Tasks
NatOK ==
  /\ detecting \subseteq tasks \cap {Life!DetectLoop, Life!Detect}
  /\ \A t, u \in detecting : t = u
  /\ natDetecting <=> detecting # {} \/ doing[Life!Operator].at = "detect"
  /\ doing[Life!Operator].at = "detect" => detecting = {}
DoingOK ==
  /\ doing \in [Life!Makers -> [at : LifePlaces, cand : Sockets \cup {Nothing}]]
  /\ \A m \in Life!Makers : doing[m].at \in {"idle", "detect"} <=> doing[m].cand = Nothing

(* What a maker knows of the socket of its punch candidate.                *)
MakersKnow ==
  \A m \in Life!Makers : \A p \in Sockets : doing[m].cand = p =>
    /\ conn[p] # "none"
    /\ doing[m].at = "remove" => conn[p] = "closed"
    /\ doing[m].at = "reader" => p \in known \/ conn[p] = "closed"
    /\ doing[m].at = "prober" /\ ~Life!ctxDone => Life!Reader(p) \in tasks \/ conn[p] = "closed"

(* A reader's socket is known for Stop to close, which it has done in the *)
(* end.                                                                    *)
ReadersListed ==
  \A c \in Life!Cands : Life!Reader(c) \in tasks =>
    /\ conn[c] # "none"
    /\ conn[c] = "open" => c \in known /\ stop \notin {"wait", "stopped"}

(* Stop waits for Start, and undoes what it waited for.                    *)
Undone ==
  /\ Life!stopping => start # "candidates"
  /\ stop \in {"conns", "wait", "stopped"} => puncher # "probing" /\ ~localOpen
  /\ stop = "stopped" => tasks = {}

LifeIInv ==
  /\ ControlOK /\ NetOK /\ NatOK /\ DoingOK /\ MakersKnow /\ ReadersListed /\ Undone
  /\ Life!SocketsServed

(* Tasks are told apart.                                                   *)
LEMMA TasksDiffer ==
  /\ \A c, d : Life!Reader(c) = Life!Reader(d) => c = d
  /\ \A c : Life!Reader(c) \notin {Life!Loops, Life!DetectLoop, Life!Detect, Life!Operator}
  /\ \A c, p : Life!Reader(c) \notin {Life!Prober(p), Life!Burst(p), Life!Diagnostic(p)}
  /\ \A p : Life!Prober(p) # Life!Operator
  /\ Life!Operator \in Life!Makers /\ Life!Operator \notin Life!Tasks
  /\ {Life!Loops, Life!DetectLoop, Life!Detect} \subseteq Life!Tasks
  /\ Life!DetectLoop # Life!Detect
<1> USE DEF Life!Reader, Life!Prober, Life!Burst, Life!Diagnostic, Life!Loops,
            Life!DetectLoop, Life!Detect, Life!Operator
<1>1. \A c, d : Life!Reader(c) = Life!Reader(d) => c = d
  OBVIOUS
<1>2. \A c : Life!Reader(c) \notin {Life!Loops, Life!DetectLoop, Life!Detect, Life!Operator}
  OBVIOUS
<1>3. \A c, p : Life!Reader(c) \notin {Life!Prober(p), Life!Burst(p), Life!Diagnostic(p)}
  OBVIOUS
<1>4. \A p : Life!Prober(p) # Life!Operator
  OBVIOUS
<1>5. Life!Operator \in Life!Makers
  BY DEF Life!Makers
<1>6. Life!Operator \notin Life!Tasks
  BY DEF Life!Tasks
<1>7. {Life!Loops, Life!DetectLoop, Life!Detect} \subseteq Life!Tasks
  BY DEF Life!Tasks
<1>8. Life!DetectLoop # Life!Detect
  OBVIOUS
<1> QED
  BY <1>1, <1>2, <1>3, <1>4, <1>5, <1>6, <1>7, <1>8

LEMMA TheirTasks ==
  /\ \A c \in Life!Cands : Life!Reader(c) \in Life!Tasks /\ Life!Reader(c) \in Life!Makers
  /\ \A p \in Sockets :
       {Life!Reader(p), Life!Prober(p), Life!Burst(p), Life!Diagnostic(p)} \subseteq Life!Tasks
  /\ \A p \in Sockets : p \in Life!Cands /\ p # Nothing
  /\ Nothing \notin Life!Cands
BY LifeAssumption DEF Life!Tasks, Life!Makers, Life!Cands

LEMMA LifeInit == Life!Init => LifeIInv
<1> SUFFICES ASSUME Life!Init PROVE LifeIInv
  OBVIOUS
<1>1. \A m \in Life!Makers : doing[m] = [at |-> "idle", cand |-> Nothing]
  BY DEF Life!Init, Life!Idle
<1>2. doing[Life!Operator].at = "idle"
  BY <1>1, TasksDiffer
<1>3. ControlOK /\ NetOK /\ Undone
  BY DEF Life!Init, ControlOK, NetOK, Undone, Life!stopping
<1>4. NatOK
  BY <1>2 DEF Life!Init, NatOK
<1>5. DoingOK
  BY <1>1 DEF Life!Init, DoingOK, Life!Idle, LifePlaces
<1>6. MakersKnow
  BY <1>1, TheirTasks DEF MakersKnow
<1>7. ReadersListed /\ Life!SocketsServed
  BY DEF Life!Init, ReadersListed, Life!SocketsServed
<1> QED
  BY <1>3, <1>4, <1>5, <1>6, <1>7 DEF LifeIInv

-----------------------------------------------------------------------------
(* The parts about sockets, while sockets, lists and makers stay, no       *)
(* reader starts or ends, and Stop does not close the known sockets.      *)
LEMMA Quiet ==
  ASSUME LifeIInv, UNCHANGED <<conn, known, doing>>, tasks' \subseteq Life!Tasks,
         tasks \subseteq tasks', \A c : Life!Reader(c) \in tasks' => Life!Reader(c) \in tasks,
         Life!ctxDone => Life!ctxDone',
         stop' \in {"wait", "stopped"} => stop \in {"wait", "stopped"},
         stop \in {"cancelled", "puncher", "conns"} =>
           stop' \in {"cancelled", "puncher", "conns"}
  PROVE  NetOK' /\ DoingOK' /\ MakersKnow' /\ ReadersListed' /\ Life!SocketsServed'
<1>1. NetOK' /\ DoingOK'
  BY DEF LifeIInv, NetOK, DoingOK
<1>2. MakersKnow'
  BY DEF LifeIInv, MakersKnow
<1>3. ReadersListed'
  BY DEF LifeIInv, ReadersListed
<1>4. Life!SocketsServed'
  BY DEF LifeIInv, Life!SocketsServed, Life!Alive
<1> QED
  BY <1>1, <1>2, <1>3, <1>4

(* Start, and the hole puncher.                                            *)
LEMMA StartIInv ==
  ASSUME LifeIInv, Life!Bind \/ Life!NoCandidates \/ Life!StartLoops \/ Life!PuncherEnds
  PROVE  LifeIInv'
<1>1. UNCHANGED <<conn, known, doing, stop, Life!natVars>>
  BY DEF Life!Bind, Life!NoCandidates, Life!StartLoops, Life!PuncherEnds,
     Life!netVars
<1>2. \/ tasks' = tasks
      \/ Life!StartLoops /\ tasks' = tasks \cup {Life!Loops, Life!DetectLoop}
  BY DEF Life!Bind, Life!NoCandidates, Life!StartLoops, Life!PuncherEnds
<1>3. NetOK' /\ DoingOK' /\ MakersKnow' /\ ReadersListed' /\ Life!SocketsServed'
  BY <1>1, <1>2, Quiet, TasksDiffer DEF Life!ctxDone, LifeIInv, NetOK
<1>4. ControlOK' /\ Undone'
  BY <1>1, <1>2 DEF LifeIInv, ControlOK, Undone, Life!stopping, Life!Bind,
     Life!NoCandidates, Life!StartLoops,
                    Life!PuncherEnds, Life!netVars
<1>5. NatOK'
  BY <1>1, <1>2 DEF LifeIInv, NatOK, Life!natVars
<1> QED
  BY <1>3, <1>4, <1>5 DEF LifeIInv

(* Stop, but for the closing of the candidates' sockets.                   *)
LEMMA StopIInv ==
  ASSUME LifeIInv,
         \/ Life!CloseGate \/ Life!Cancel \/ Life!StopPuncher \/ Life!CloseLocal
         \/ Life!WaitAndWipe
  PROVE  LifeIInv'
<1>1. UNCHANGED <<start, conn, known, tasks, puncher, Life!natVars, doing>>
  BY DEF Life!CloseGate, Life!Cancel, Life!StopPuncher, Life!CloseLocal,
     Life!WaitAndWipe, Life!netVars
<1>2. NetOK' /\ DoingOK' /\ MakersKnow' /\ ReadersListed' /\ Life!SocketsServed'
  <2>1. /\ Life!ctxDone => Life!ctxDone'
        /\ stop' \in {"wait", "stopped"} => stop \in {"wait", "stopped"}
        /\ stop \in {"cancelled", "puncher", "conns"} =>
             stop' \in {"cancelled", "puncher", "conns"}
    BY DEF Life!CloseGate, Life!Cancel, Life!StopPuncher, Life!CloseLocal,
       Life!WaitAndWipe, Life!ctxDone
  <2> QED
    BY <1>1, <2>1, Quiet DEF LifeIInv, NetOK
<1>3. ControlOK' /\ Undone'
  <2> USE <1>1 DEF LifeIInv, ControlOK, Undone, Life!stopping, Life!netVars
  <2>1. CASE Life!CloseGate
    BY <2>1 DEF Life!CloseGate
  <2>2. CASE Life!Cancel
    BY <2>2 DEF Life!Cancel
  <2>3. CASE Life!StopPuncher
    BY <2>3 DEF Life!StopPuncher
  <2>4. CASE Life!CloseLocal
    BY <2>4 DEF Life!CloseLocal
  <2>5. CASE Life!WaitAndWipe
    BY <2>5 DEF Life!WaitAndWipe
  <2> QED
    BY <2>1, <2>2, <2>3, <2>4, <2>5
<1>4. NatOK'
  BY <1>1 DEF LifeIInv, NatOK, Life!natVars
<1> QED
  BY <1>2, <1>3, <1>4 DEF LifeIInv

LEMMA CloseConnsIInv == ASSUME LifeIInv, Life!CloseConns PROVE LifeIInv'
<1>1. /\ stop = "conns" /\ stop' = "wait"
      /\ UNCHANGED <<start, localOpen, known, tasks, puncher, Life!natVars, doing>>
      /\ \A c \in Life!Cands : conn'[c] = IF c \in known THEN "closed" ELSE conn[c]
      /\ conn' = [c \in Life!Cands |-> IF c \in known THEN "closed" ELSE conn[c]]
  BY DEF Life!CloseConns
<1>2. NetOK'
  BY <1>1 DEF LifeIInv, NetOK
<1>3. DoingOK' /\ ControlOK' /\ Undone'
  BY <1>1 DEF LifeIInv, DoingOK, ControlOK, Undone, Life!stopping
<1>4. NatOK'
  BY <1>1 DEF LifeIInv, NatOK, Life!natVars
<1>5. MakersKnow'
  BY <1>1, TheirTasks DEF LifeIInv, MakersKnow, Life!ctxDone
<1>6. ReadersListed'
  BY <1>1 DEF LifeIInv, ReadersListed
<1>7. Life!SocketsServed'
  BY <1>1 DEF LifeIInv, Life!SocketsServed, Life!Alive
<1> QED
  BY <1>2, <1>3, <1>4, <1>5, <1>6, <1>7 DEF LifeIInv

-----------------------------------------------------------------------------
(* A candidate opened with its reader, under one lock.                     *)
LEMMA AddIInv ==
  ASSUME LifeIInv, NEW c \in Life!Cands, Life!AddCandidate(c), UNCHANGED <<start, stop, doing>>
  PROVE  LifeIInv'
<1>1. conn[c] = "none" /\ UNCHANGED <<localOpen, puncher, Life!natVars>>
  BY DEF Life!AddCandidate
<1>2. ControlOK' /\ DoingOK'
  BY <1>1 DEF LifeIInv, ControlOK, DoingOK
<1>3. CASE Life!stopping
  <2>1. conn' = [conn EXCEPT ![c] = "closed"] /\ UNCHANGED <<known, tasks>>
    BY <1>3 DEF Life!AddCandidate
  <2>2. NetOK'
    BY <2>1 DEF LifeIInv, NetOK
  <2>3. \A d \in Life!Cands : conn'[d] = IF d = c THEN "closed" ELSE conn[d]
    BY <2>1 DEF LifeIInv, NetOK
  <2>4. MakersKnow' /\ ReadersListed'
    BY <1>1, <2>1, <2>3, TheirTasks DEF LifeIInv, MakersKnow, ReadersListed,
       Life!ctxDone
  <2>5. Life!SocketsServed'
    BY <2>1, <2>3 DEF LifeIInv, Life!SocketsServed, Life!Alive
  <2>6. NatOK' /\ Undone'
    BY <1>1, <2>1 DEF LifeIInv, NatOK, Life!natVars, Undone, Life!stopping
  <2> QED
    BY <1>2, <2>2, <2>4, <2>5, <2>6 DEF LifeIInv
<1>4. CASE ~Life!stopping
  <2>1. /\ conn' = [conn EXCEPT ![c] = "open"]
        /\ known' = known \cup {c} /\ tasks' = tasks \cup {Life!Reader(c)}
    BY <1>4 DEF Life!AddCandidate
  <2>2. NetOK'
    BY <2>1, TheirTasks DEF LifeIInv, NetOK
  <2>3. \A d \in Life!Cands : conn'[d] = IF d = c THEN "open" ELSE conn[d]
    BY <2>1 DEF LifeIInv, NetOK
  <2>4. MakersKnow'
    BY <1>1, <2>1, <2>3, TheirTasks DEF LifeIInv, MakersKnow, Life!ctxDone
  <2>5. ReadersListed'
    BY <1>1, <1>4, <2>1, <2>3, TasksDiffer DEF LifeIInv, ReadersListed, Life!stopping
  <2>6. Life!SocketsServed'
    BY <2>1, <2>3 DEF LifeIInv, Life!SocketsServed, Life!Alive
  <2>7. NatOK' /\ Undone'
    BY <1>1, <1>4, <2>1 DEF LifeIInv, NatOK, Life!natVars, Undone, Life!stopping
  <2> QED
    BY <1>2, <2>2, <2>4, <2>5, <2>6, <2>7 DEF LifeIInv
<1> QED
  BY <1>3, <1>4

-----------------------------------------------------------------------------
(* A maker goes on with its punch candidate p, from one place to another:  *)
(* what is left to show of each such step.                                 *)
LEMMA MakerStep ==
  ASSUME LifeIInv, NEW m \in Life!Makers,
         doing[m].at # "detect",
         NEW d \in [at : LifePlaces \ {"detect"}, cand : Sockets \cup {Nothing}],
         d.at = "idle" <=> d.cand = Nothing,
         doing' = [doing EXCEPT ![m] = d],
         UNCHANGED <<start, stop, localOpen, puncher, Life!natVars>>,
         tasks \subseteq tasks', stop = "stopped" => tasks' = tasks
  PROVE  /\ ControlOK' /\ NatOK' /\ DoingOK' /\ Undone'
         /\ doing'[m] = d
        /\ \A n \in Life!Makers \ {m} : doing'[n] = doing[n]
<1>1. doing'[m] = d
        /\ \A n \in Life!Makers \ {m} : doing'[n] = doing[n]
  BY DEF LifeIInv, DoingOK
<1>2. ControlOK' /\ Undone'
  BY DEF LifeIInv, ControlOK, Undone, Life!stopping
<1>3. DoingOK'
  <2>1. doing' \in [Life!Makers -> [at : LifePlaces, cand : Sockets \cup {Nothing}]]
    BY DEF LifeIInv, DoingOK
  <2>2. \A n \in Life!Makers : doing'[n].at \in {"idle", "detect"} <=> doing'[n].cand = Nothing
    BY <1>1 DEF LifeIInv, DoingOK
  <2> QED
    BY <2>1, <2>2 DEF DoingOK
<1>4. NatOK'
  <2>1. doing'[Life!Operator].at = "detect" <=> doing[Life!Operator].at = "detect"
    BY <1>1, TasksDiffer
  <2> QED
    BY <2>1 DEF LifeIInv, NatOK, Life!natVars
<1> QED
  BY <1>1, <1>2, <1>3, <1>4

(* The first step and the retirement: the maker takes a candidate.         *)
LEMMA TakeIInv ==
  ASSUME LifeIInv, NEW m \in Life!Makers, NEW p \in Sockets,
         Life!ListenPunch(m, p) \/ Life!Retire(m, p)
  PROVE  LifeIInv'
<1>1. /\ doing[m].at = "idle" /\ Life!Alive(m)
      /\ UNCHANGED <<start, stop, localOpen, known, tasks, puncher, Life!natVars>>
      /\ \/ /\ conn[p] = "none" /\ conn' = [conn EXCEPT ![p] = "open"]
            /\ doing' = [doing EXCEPT ![m] = [at |-> "append", cand |-> p]]
         \/ /\ conn[p] = "open" /\ conn' = conn
            /\ doing' = [doing EXCEPT ![m] = [at |-> "close", cand |-> p]]
  BY DEF Life!ListenPunch, Life!Retire, Life!At, Life!netVars
<1>2. PICK place \in {"append", "close"} :
        doing' = [doing EXCEPT ![m] = [at |-> place, cand |-> p]]
  BY <1>1
<1>3. /\ ControlOK' /\ NatOK' /\ DoingOK' /\ Undone'
      /\ doing'[m] = [at |-> place, cand |-> p]
        /\ \A n \in Life!Makers \ {m} : doing'[n] = doing[n]
  BY <1>1, <1>2, MakerStep, TheirTasks DEF LifePlaces
<1>4. /\ doing[m].cand = Nothing /\ p # Nothing /\ p \in Life!Cands
      /\ \A d \in Life!Cands : conn'[d] = IF d = p THEN "open" ELSE conn[d]
      /\ conn' \in [Life!Cands -> {"none", "open", "closed"}]
  BY <1>1, TheirTasks DEF LifeIInv, DoingOK, NetOK
<1>5. NetOK'
  BY <1>1, <1>4 DEF LifeIInv, NetOK
<1>6. MakersKnow'
  BY <1>1, <1>3, <1>4, TheirTasks DEF LifeIInv, MakersKnow, Life!ctxDone
<1>7. ReadersListed'
  BY <1>1, <1>4 DEF LifeIInv, ReadersListed
<1>8. Life!SocketsServed'
  <2> SUFFICES ASSUME NEW c \in Life!Cands, conn'[c] = "open"
               PROVE  \/ Life!Reader(c) \in tasks'
                      \/ \E n \in Life!Makers : Life!Alive(n)' /\ doing'[n].cand = c
                      \/ c \in known' /\ stop' \in {"cancelled", "puncher", "conns"}
    BY DEF Life!SocketsServed
  <2>1. CASE c = p
    BY <1>1, <1>3, <2>1 DEF Life!Alive
  <2>2. CASE c # p
    <3>1. conn[c] = "open" /\ c # Nothing
      BY <1>4, <2>2, TheirTasks
    <3> QED
      BY <1>1, <1>3, <1>4, <3>1 DEF LifeIInv, Life!SocketsServed, Life!Alive
  <2> QED
    BY <2>1, <2>2
<1> QED
  BY <1>3, <1>5, <1>6, <1>7, <1>8 DEF LifeIInv

(* It goes on.                                                             *)
LEMMA ProceedIInv == ASSUME LifeIInv, NEW m \in Life!Makers, Life!Proceed(m) PROVE LifeIInv'
<1> DEFINE p == doing[m].cand
<1>1. /\ Life!Alive(m) /\ doing[m].at \in {"append", "reader", "prober", "close", "remove"}
      /\ UNCHANGED <<start, stop, localOpen, puncher, Life!natVars>>
  BY DEF Life!Proceed, Life!AppendPunch, Life!AppendRefused,
     Life!StartPunchTasks, Life!StartPunchTask, Life!ClosePunch,
         Life!RemovePunch, Life!At, Life!netVars
<1>2. /\ p \in Sockets /\ p \in Life!Cands /\ p # Nothing
      /\ doing[m] = [at |-> doing[m].at, cand |-> p]
      /\ doing \in [Life!Makers -> [at : LifePlaces, cand : Sockets \cup {Nothing}]]
      /\ conn[p] # "none"
  BY <1>1, TheirTasks DEF LifeIInv, DoingOK, MakersKnow
<1>3. \A place : Life!Go(m, place) => doing' = [doing EXCEPT ![m] = [at |-> place, cand |-> p]]
  BY <1>2 DEF Life!Go
<1>4. Life!Done(m) => doing' = [doing EXCEPT ![m] = [at |-> "idle", cand |-> Nothing]]
  BY DEF Life!Done, Life!Idle
<1>5. ASSUME Life!AppendPunch(m) PROVE LifeIInv'
  <2>1. /\ doing' = [doing EXCEPT ![m] = [at |-> "reader", cand |-> p]]
        /\ known' = known \cup {p} /\ UNCHANGED <<conn, tasks>>
    BY <1>3, <1>5 DEF Life!AppendPunch
  <2>2. /\ ControlOK' /\ NatOK' /\ DoingOK' /\ Undone'
        /\ doing'[m] = [at |-> "reader", cand |-> p]
        /\ \A n \in Life!Makers \ {m} : doing'[n] = doing[n]
    BY <1>1, <1>2, <2>1, MakerStep DEF LifePlaces
  <2>3. NetOK' /\ ReadersListed'
    BY <1>1, <1>2, <2>1 DEF LifeIInv, NetOK, ReadersListed
  <2>4. MakersKnow'
    BY <1>1, <1>2, <2>1, <2>2 DEF LifeIInv, MakersKnow, Life!ctxDone
  <2>5. Life!SocketsServed'
    BY <1>1, <1>2, <2>1, <2>2 DEF LifeIInv, Life!SocketsServed, Life!Alive
  <2> QED
    BY <2>2, <2>3, <2>4, <2>5 DEF LifeIInv
<1>6. ASSUME Life!AppendRefused(m) PROVE LifeIInv'
  <2>1. /\ doing' = [doing EXCEPT ![m] = [at |-> "idle", cand |-> Nothing]]
        /\ conn' = [conn EXCEPT ![p] = "closed"] /\ UNCHANGED <<known, tasks>>
    BY <1>4, <1>6 DEF Life!AppendRefused
  <2>2. /\ ControlOK' /\ NatOK' /\ DoingOK' /\ Undone'
        /\ doing'[m] = [at |-> "idle", cand |-> Nothing]
        /\ \A n \in Life!Makers \ {m} : doing'[n] = doing[n]
    BY <1>1, <1>2, <2>1, MakerStep DEF LifePlaces
  <2>3. \A d \in Life!Cands : conn'[d] = IF d = p THEN "closed" ELSE conn[d]
    BY <2>1 DEF LifeIInv, NetOK
  <2>4. NetOK' /\ ReadersListed'
    BY <1>1, <1>2, <2>1, <2>3 DEF LifeIInv, NetOK, ReadersListed
  <2>5. MakersKnow'
    BY <1>1, <1>2, <2>1, <2>2, <2>3, TheirTasks DEF LifeIInv, MakersKnow,
       Life!ctxDone
  <2>6. Life!SocketsServed'
    BY <1>1, <1>2, <2>1, <2>2, <2>3 DEF LifeIInv, Life!SocketsServed, Life!Alive
  <2> QED
    BY <2>2, <2>4, <2>5, <2>6 DEF LifeIInv
<1>7. ASSUME Life!StartPunchTasks(m), Life!stopping PROVE LifeIInv'
  <2>1. /\ doing' = [doing EXCEPT ![m] = [at |-> "close", cand |-> p]]
        /\ UNCHANGED <<conn, known, tasks>>
    BY <1>3, <1>7 DEF Life!StartPunchTasks, Life!StartPunchTask,
       Life!RefusedRetires, Life!netVars
  <2>2. /\ ControlOK' /\ NatOK' /\ DoingOK' /\ Undone'
        /\ doing'[m] = [at |-> "close", cand |-> p]
        /\ \A n \in Life!Makers \ {m} : doing'[n] = doing[n]
    BY <1>1, <1>2, <2>1, MakerStep DEF LifePlaces
  <2>3. NetOK' /\ ReadersListed'
    BY <1>1, <2>1 DEF LifeIInv, NetOK, ReadersListed
  <2>4. MakersKnow'
    BY <1>1, <1>2, <2>1, <2>2 DEF LifeIInv, MakersKnow, Life!ctxDone
  <2>5. Life!SocketsServed'
    BY <1>1, <1>2, <2>1, <2>2 DEF LifeIInv, Life!SocketsServed, Life!Alive
  <2> QED
    BY <2>2, <2>3, <2>4, <2>5 DEF LifeIInv
<1>8. ASSUME Life!StartPunchTask(m, "reader", Life!Reader(p), "prober"), ~Life!stopping
      PROVE  LifeIInv'
  <2>1. /\ doing[m].at = "reader"
        /\ doing' = [doing EXCEPT ![m] = [at |-> "prober", cand |-> p]]
        /\ tasks' = tasks \cup {Life!Reader(p)} /\ UNCHANGED <<conn, known>>
    BY <1>3, <1>8 DEF Life!StartPunchTask, Life!At, Life!netVars
  <2>2. stop # "stopped" /\ stop \notin {"wait", "stopped"}
    BY <1>8 DEF Life!stopping
  <2>3. /\ ControlOK' /\ NatOK' /\ DoingOK' /\ Undone'
        /\ doing'[m] = [at |-> "prober", cand |-> p]
        /\ \A n \in Life!Makers \ {m} : doing'[n] = doing[n]
    BY <1>1, <1>2, <2>1, <2>2, MakerStep DEF LifePlaces
  <2>4. NetOK'
    BY <1>2, <2>1, TheirTasks DEF LifeIInv, NetOK
  <2>5. p \in known \/ conn[p] = "closed"
    BY <1>2, <2>1 DEF LifeIInv, MakersKnow
  <2>6. ReadersListed'
    BY <1>1, <1>2, <2>1, <2>2, <2>5, TasksDiffer DEF LifeIInv, ReadersListed
  <2>7. MakersKnow'
    BY <1>1, <1>2, <2>1, <2>3 DEF LifeIInv, MakersKnow, Life!ctxDone
  <2>8. Life!SocketsServed'
    BY <1>1, <1>2, <2>1, <2>3 DEF LifeIInv, Life!SocketsServed, Life!Alive
  <2> QED
    BY <2>3, <2>4, <2>6, <2>7, <2>8 DEF LifeIInv
<1>9. ASSUME Life!StartPunchTask(m, "prober", Life!Prober(p), "idle"), ~Life!stopping
      PROVE  LifeIInv'
  <2>1. /\ doing[m].at = "prober"
        /\ doing' = [doing EXCEPT ![m] = [at |-> "idle", cand |-> Nothing]]
        /\ tasks' = tasks \cup {Life!Prober(p)} /\ UNCHANGED <<conn, known>>
    BY <1>4, <1>9 DEF Life!StartPunchTask, Life!At, Life!netVars
  <2>2. stop # "stopped" /\ ~Life!ctxDone
    BY <1>9 DEF Life!stopping, Life!ctxDone
  <2>3. /\ ControlOK' /\ NatOK' /\ DoingOK' /\ Undone'
        /\ doing'[m] = [at |-> "idle", cand |-> Nothing]
        /\ \A n \in Life!Makers \ {m} : doing'[n] = doing[n]
    BY <1>1, <1>2, <2>1, <2>2, MakerStep DEF LifePlaces
  <2>4. NetOK'
    BY <1>2, <2>1, TheirTasks DEF LifeIInv, NetOK
  <2>5. Life!Reader(p) \in tasks \/ conn[p] = "closed"
    BY <1>2, <2>1, <2>2 DEF LifeIInv, MakersKnow
  <2>6. ReadersListed'
    BY <1>1, <2>1, TasksDiffer DEF LifeIInv, ReadersListed
  <2>7. MakersKnow'
    BY <1>1, <1>2, <2>1, <2>3, TheirTasks DEF LifeIInv, MakersKnow, Life!ctxDone
  <2>8. Life!SocketsServed'
    BY <1>1, <1>2, <2>1, <2>3, <2>5 DEF LifeIInv, Life!SocketsServed, Life!Alive
  <2> QED
    BY <2>3, <2>4, <2>6, <2>7, <2>8 DEF LifeIInv
<1>10. ASSUME Life!ClosePunch(m) PROVE LifeIInv'
  <2>1. /\ doing' = [doing EXCEPT ![m] = [at |-> "remove", cand |-> p]]
        /\ conn' = [conn EXCEPT ![p] = "closed"] /\ UNCHANGED <<known, tasks>>
    BY <1>3, <1>10 DEF Life!ClosePunch
  <2>2. /\ ControlOK' /\ NatOK' /\ DoingOK' /\ Undone'
        /\ doing'[m] = [at |-> "remove", cand |-> p]
        /\ \A n \in Life!Makers \ {m} : doing'[n] = doing[n]
    BY <1>1, <1>2, <2>1, MakerStep DEF LifePlaces
  <2>3. \A d \in Life!Cands : conn'[d] = IF d = p THEN "closed" ELSE conn[d]
    BY <2>1 DEF LifeIInv, NetOK
  <2>4. NetOK' /\ ReadersListed'
    BY <1>1, <1>2, <2>1, <2>3 DEF LifeIInv, NetOK, ReadersListed
  <2>5. MakersKnow'
    BY <1>1, <1>2, <2>1, <2>2, <2>3, TheirTasks DEF LifeIInv, MakersKnow,
       Life!ctxDone
  <2>6. Life!SocketsServed'
    BY <1>1, <1>2, <2>1, <2>2, <2>3 DEF LifeIInv, Life!SocketsServed, Life!Alive
  <2> QED
    BY <2>2, <2>4, <2>5, <2>6 DEF LifeIInv
<1>11. ASSUME Life!RemovePunch(m) PROVE LifeIInv'
  <2>1. /\ doing[m].at = "remove"
        /\ doing' = [doing EXCEPT ![m] = [at |-> "idle", cand |-> Nothing]]
        /\ known' = known \ {p} /\ UNCHANGED <<conn, tasks>>
    BY <1>4, <1>11 DEF Life!RemovePunch, Life!At
  <2>2. conn[p] = "closed"
    BY <1>2, <2>1 DEF LifeIInv, MakersKnow
  <2>3. /\ ControlOK' /\ NatOK' /\ DoingOK' /\ Undone'
        /\ doing'[m] = [at |-> "idle", cand |-> Nothing]
        /\ \A n \in Life!Makers \ {m} : doing'[n] = doing[n]
    BY <1>1, <1>2, <2>1, MakerStep DEF LifePlaces
  <2>4. NetOK' /\ ReadersListed'
    BY <1>1, <2>1, <2>2 DEF LifeIInv, NetOK, ReadersListed
  <2>5. MakersKnow'
    BY <1>1, <1>2, <2>1, <2>2, <2>3, TheirTasks DEF LifeIInv, MakersKnow,
       Life!ctxDone
  <2>6. Life!SocketsServed'
    BY <1>1, <1>2, <2>1, <2>2, <2>3 DEF LifeIInv, Life!SocketsServed, Life!Alive
  <2> QED
    BY <2>3, <2>4, <2>5, <2>6 DEF LifeIInv
<1> QED
  BY <1>5, <1>6, <1>7, <1>8, <1>9, <1>10, <1>11 DEF Life!Proceed,
     Life!StartPunchTasks

-----------------------------------------------------------------------------
(* What a prober starts, and NAT detection, one at a time.                 *)
LEMMA FromProberIInv ==
  ASSUME LifeIInv, NEW p \in Sockets, Life!StartFromProber(p)
  PROVE  LifeIInv'
<1>1. PICK t \in {Life!Burst(p), Life!Diagnostic(p)} :
        /\ ~Life!stopping /\ tasks' = tasks \cup {t}
        /\ UNCHANGED <<start, stop, localOpen, conn, known, puncher, Life!natVars, doing>>
  BY DEF Life!StartFromProber, Life!netVars
<1>2. NetOK' /\ DoingOK' /\ MakersKnow' /\ ReadersListed' /\ Life!SocketsServed'
  BY <1>1, Quiet, TasksDiffer, TheirTasks DEF Life!ctxDone, LifeIInv, NetOK
<1>3. ControlOK' /\ Undone' /\ NatOK'
  BY <1>1 DEF LifeIInv, ControlOK, Undone, Life!stopping, NatOK, Life!natVars
<1> QED
  BY <1>2, <1>3 DEF LifeIInv

LEMMA DetectFromStartIInv == ASSUME LifeIInv, Life!DetectFromStart PROVE LifeIInv'
<1>1. /\ Life!DetectLoop \in tasks /\ ~natDetecting
      /\ natDetecting' /\ detecting' = {Life!DetectLoop}
      /\ UNCHANGED <<start, stop, localOpen, conn, known, tasks, puncher, doing>>
  BY DEF Life!DetectFromStart, Life!netVars
<1>2. NetOK' /\ DoingOK' /\ MakersKnow' /\ ReadersListed' /\ Life!SocketsServed'
  BY <1>1, Quiet DEF Life!ctxDone, LifeIInv, NetOK
<1>3. ControlOK' /\ Undone'
  BY <1>1 DEF LifeIInv, ControlOK, Undone, Life!stopping
<1>4. NatOK'
  BY <1>1 DEF LifeIInv, NatOK
<1> QED
  BY <1>2, <1>3, <1>4 DEF LifeIInv

(* The operator's detection: neither step is about a candidate.            *)
LEMMA OperatorDetects ==
  ASSUME LifeIInv, Life!ScheduleNATDetection \/ Life!StartDetection
  PROVE  LifeIInv'
<1>1. /\ Life!Operator \in Life!Makers /\ doing[Life!Operator].at \in {"idle", "detect"}
      /\ UNCHANGED <<start, stop, localOpen, conn, known, puncher>>
  BY TasksDiffer DEF Life!ScheduleNATDetection, Life!StartDetection, Life!At,
     Life!netVars
<1>2. doing[Life!Operator].cand = Nothing
  BY <1>1 DEF LifeIInv, DoingOK
<1>3. PICK place \in {"idle", "detect"} :
        doing' = [doing EXCEPT ![Life!Operator] = [at |-> place, cand |-> Nothing]]
  BY <1>1, <1>2 DEF LifeIInv, DoingOK, Life!ScheduleNATDetection,
     Life!StartDetection, Life!Go, Life!Done, Life!Idle
<1>4. /\ doing'[Life!Operator] = [at |-> place, cand |-> Nothing]
      /\ \A n \in Life!Makers \ {Life!Operator} : doing'[n] = doing[n]
      /\ doing' \in [Life!Makers -> [at : LifePlaces, cand : Sockets \cup {Nothing}]]
  BY <1>1, <1>3 DEF LifeIInv, DoingOK, LifePlaces
<1>5. \A n \in Life!Makers : doing'[n].cand = doing[n].cand
  BY <1>2, <1>4
<1>6. DoingOK'
  BY <1>4 DEF LifeIInv, DoingOK
<1>7. tasks' = tasks \/ (~Life!stopping /\ tasks' = tasks \cup {Life!Detect})
  BY DEF Life!ScheduleNATDetection, Life!StartDetection
<1>8. \A c : Life!Reader(c) \in tasks' <=> Life!Reader(c) \in tasks
  BY <1>7, TasksDiffer
<1>9. NetOK' /\ ReadersListed' /\ ControlOK' /\ Undone'
  BY <1>1, <1>7, <1>8, TasksDiffer
     DEF LifeIInv, NetOK, ReadersListed, ControlOK, Undone, Life!stopping
<1>10. MakersKnow'
  BY <1>1, <1>2, <1>4, <1>8, TheirTasks DEF LifeIInv, MakersKnow, Life!ctxDone
<1>11. Life!SocketsServed'
  BY <1>1, <1>5, <1>7 DEF LifeIInv, Life!SocketsServed, Life!Alive
<1>12. NatOK'
  <2>1. CASE Life!ScheduleNATDetection
    <3>1. doing'[Life!Operator].at = "detect"
      BY <1>1, <1>4, <2>1 DEF Life!ScheduleNATDetection, Life!Go, LifeIInv, DoingOK
    <3> QED
      BY <2>1, <3>1 DEF LifeIInv, NatOK, Life!ScheduleNATDetection
  <2>2. CASE Life!StartDetection
    <3>1. doing'[Life!Operator].at = "idle" /\ doing[Life!Operator].at = "detect"
      BY <1>1, <2>2 DEF Life!StartDetection, Life!Done, Life!Idle, Life!At,
         LifeIInv, DoingOK
    <3>2. detecting = {} /\ natDetecting
      BY <3>1 DEF LifeIInv, NatOK
    <3> QED
      BY <2>2, <3>1, <3>2 DEF NatOK, Life!StartDetection, Life!AfterRefusal
  <2> QED
    BY <2>1, <2>2
<1> QED
  BY <1>6, <1>9, <1>10, <1>11, <1>12 DEF LifeIInv

(* A task ends: a reader only when its socket is closed, or left for Stop  *)
(* to close.                                                               *)
LEMMA FinishIInv == ASSUME LifeIInv, NEW t \in Life!Tasks, Life!Finish(t) PROVE LifeIInv'
<1>1. /\ t \in tasks /\ (t \in Life!Makers => doing[t] = Life!Idle) /\ Life!MayEnd(t)
      /\ tasks' = tasks \ {t} /\ detecting' = detecting \ {t}
      /\ natDetecting' = (natDetecting /\ t \notin detecting)
      /\ UNCHANGED <<start, stop, localOpen, conn, known, puncher, doing>>
  BY DEF Life!Finish, Life!netVars
<1>2. ControlOK' /\ NetOK' /\ DoingOK' /\ Undone' /\ ReadersListed'
  BY <1>1 DEF LifeIInv, ControlOK, NetOK, DoingOK, Undone, Life!stopping,
     ReadersListed
<1>3. NatOK'
  BY <1>1 DEF LifeIInv, NatOK
<1>4. \A c : t = Life!Reader(c) => Life!ctxDone \/ conn[c] = "closed"
  <2> SUFFICES ASSUME NEW c, t = Life!Reader(c) PROVE Life!ctxDone \/ conn[c] = "closed"
    OBVIOUS
  <2>1. t # Life!Loops /\ t[1] = "reader" /\ t[2] = c
    BY TasksDiffer DEF Life!Reader
  <2>2. Life!MayEnd(t)
    BY <1>1
  <2>3. Life!ctxDone \/ conn[t[2]] = "closed"
    BY <2>1, <2>2 DEF Life!MayEnd
  <2> QED
    BY <2>1, <2>3
<1>5. MakersKnow'
  BY <1>1, <1>4 DEF LifeIInv, MakersKnow, Life!ctxDone
<1>6. Life!SocketsServed'
  <2> SUFFICES ASSUME NEW c \in Life!Cands, conn[c] = "open"
               PROVE  \/ Life!Reader(c) \in tasks'
                      \/ \E n \in Life!Makers : Life!Alive(n)' /\ doing'[n].cand = c
                      \/ c \in known' /\ stop' \in {"cancelled", "puncher", "conns"}
    BY <1>1 DEF Life!SocketsServed
  <2>1. CASE Life!Reader(c) \in tasks
    <3>1. CASE t = Life!Reader(c)
      <4>1. Life!ctxDone
        BY <1>4, <3>1
      <4>2. c \in known /\ stop \notin {"wait", "stopped"}
        BY <2>1 DEF LifeIInv, ReadersListed
      <4> QED
        BY <1>1, <4>1, <4>2 DEF Life!ctxDone, LifeIInv, ControlOK
    <3>2. CASE t # Life!Reader(c)
      BY <1>1, <2>1, <3>2
    <3> QED
      BY <3>1, <3>2
  <2>2. ASSUME NEW n \in Life!Makers, Life!Alive(n), doing[n].cand = c
        PROVE  Life!Alive(n)' /\ doing'[n].cand = c
    <3>1. doing[n] # Life!Idle
      BY <2>2, TheirTasks DEF Life!Idle
    <3> QED
      BY <1>1, <2>2, <3>1 DEF Life!Alive
  <2>3. CASE c \in known /\ stop \in {"cancelled", "puncher", "conns"}
    BY <1>1, <2>3
  <2>4. \/ Life!Reader(c) \in tasks
        \/ \E n \in Life!Makers : Life!Alive(n) /\ doing[n].cand = c
        \/ c \in known /\ stop \in {"cancelled", "puncher", "conns"}
    BY DEF LifeIInv, Life!SocketsServed
  <2> QED
    BY <2>1, <2>2, <2>3, <2>4
<1> QED
  BY <1>2, <1>3, <1>5, <1>6 DEF LifeIInv

-----------------------------------------------------------------------------
LEMMA LifeNext == LifeIInv /\ [Life!Next]_(Life!vars) => LifeIInv'
<1> SUFFICES ASSUME LifeIInv, [Life!Next]_(Life!vars) PROVE LifeIInv'
  OBVIOUS
<1>1. ASSUME UNCHANGED Life!vars PROVE LifeIInv'
  <2>1. /\ UNCHANGED <<start, stop, localOpen, conn, known, tasks, puncher, doing>>
        /\ UNCHANGED <<natDetecting, detecting>>
    BY <1>1 DEF Life!vars, Life!netVars, Life!natVars
  <2>2. NetOK' /\ DoingOK' /\ MakersKnow' /\ ReadersListed' /\ Life!SocketsServed'
    BY <2>1, Quiet DEF Life!ctxDone, LifeIInv, NetOK
  <2>3. ControlOK' /\ Undone' /\ NatOK'
    BY <2>1 DEF LifeIInv, ControlOK, Undone, Life!stopping, NatOK
  <2> QED
    BY <2>2, <2>3 DEF LifeIInv
<1>2. ASSUME NEW c \in Configured, Life!AddConfigured(c) PROVE LifeIInv'
  BY <1>2, AddIInv DEF Life!AddConfigured, Life!Cands
<1>3. ASSUME NEW m \in Life!Makers, NEW c \in Advertised, Life!AddAdvertised(m, c)
      PROVE  LifeIInv'
  BY <1>3, AddIInv DEF Life!AddAdvertised, Life!Cands
<1> QED
  BY <1>1, <1>2, <1>3, StartIInv, StopIInv, CloseConnsIInv, TakeIInv,
     ProceedIInv, FromProberIInv,
     DetectFromStartIInv, OperatorDetects, FinishIInv DEF Life!Next, Life!Stop, Life!Stopped

LEMMA LifeTypes == LifeIInv => Life!TypeOK
<1> SUFFICES ASSUME LifeIInv PROVE Life!TypeOK
  OBVIOUS
<1>0. Life!Cardinality(detecting) = Cardinality(detecting)
  BY DEF Life!Cardinality, Cardinality
<1>1. Cardinality(detecting) <= 1
  <2>1. detecting = {} \/ \E t \in detecting : detecting = {t}
    BY DEF LifeIInv, NatOK
  <2> QED
    BY <2>1, FS_EmptySet, FS_Singleton
<1>2. /\ detecting \subseteq tasks \cap {Life!DetectLoop, Life!Detect}
      /\ natDetecting <=> detecting # {} \/ doing[Life!Operator].at = "detect"
  BY DEF LifeIInv, NatOK
<1>3. doing \in [Life!Makers -> [at : {"idle", "append", "reader", "prober", "close", "remove",
                                      "detect"}, cand : Sockets \cup {Nothing}]]
  BY DEF LifeIInv, DoingOK, LifePlaces
<1>4. ControlOK /\ NetOK
  BY DEF LifeIInv
<1> QED
  BY <1>0, <1>1, <1>2, <1>3, <1>4, Zenon DEF Life!TypeOK, ControlOK, NetOK

LEMMA LifeLeavesNothing == LifeIInv => Life!StopLeavesNothing
<1> SUFFICES ASSUME LifeIInv PROVE Life!NothingRemains
  BY DEF LifeIInv, Life!StopLeavesNothing
<1>1. Life!SocketsServed /\ Undone
  BY DEF LifeIInv
<1> QED
  BY <1>1 DEF Undone, Life!SocketsServed, Life!NothingRemains, Life!Alive

-----------------------------------------------------------------------------
(* A step of one part leaves the other's invariant alone.                  *)
PartsIInv == IInv /\ LifeIInv

LEMMA PartsInvariance == PartsSpec => []PartsIInv
<1>1. PartsInit => PartsIInv
  BY InitIInv, LifeInit DEF PartsInit, PartsIInv
<1>2. PartsIInv /\ [PartsNext]_allVars => PartsIInv'
  <2> SUFFICES ASSUME PartsIInv, [PartsNext]_allVars PROVE PartsIInv'
    OBVIOUS
  <2>1. UNCHANGED lifeVars => UNCHANGED Life!vars
    BY DEF lifeVars, Life!vars, Life!netVars, Life!natVars
  <2>2. [Next]_vars /\ [Life!Next]_(Life!vars)
    BY <2>1 DEF PartsNext, allVars
  <2> QED
    BY <2>2, NextIInv, LifeNext DEF PartsIInv
<1> QED
  BY <1>1, <1>2, PTL DEF PartsSpec

(* Every variable of the two parts keeps its type; a candidate that is not *)
(* retired is listed, and a NAT detection is one task's at a time.         *)
THEOREM PartsTypeCorrect == PartsSpec => []PartsTypeOK
<1>1. IInv => TypeOK
  BY Zenon DEF IInv, TypeOK, ModeOK, MadeOK, ListOK, DataOK, FlagsOK,
     UnretiredListed,
               RouteOK, GoOK, LockOK, Unmade
<1>2. PartsIInv => PartsTypeOK
  BY <1>1, LifeTypes DEF PartsIInv, PartsTypeOK
<1> QED
  BY <1>2, PartsInvariance, PTL

(* The route never names a candidate that was removed, and a retired one   *)
(* only while it is being removed (client.go:964-989).                     *)
THEOREM RouteIsListed == PartsSpec => []RouteListed
<1>1. PartsIInv => RouteListed
  BY Numbers DEF PartsIInv, IInv, InList, BeingRemoved, RouteListed
<1> QED
  BY <1>1, PartsInvariance, PTL

(* Once SetMode("relay-only") has returned every punch candidate listed is *)
(* retired, whatever offers were under way (client.go:2345-2369).          *)
THEOREM NoPunchUnderRelayOnly == PartsSpec => []RelayOnlyClean
<1>1. PartsIInv => RelayOnlyClean
  BY DEF PartsIInv, IInv, YetToRetire, Retiring, RelayOnlyClean
<1> QED
  BY <1>1, PartsInvariance, PTL

(* A route the mode forbids is never left standing: a goroutine is on its  *)
(* way to select again (client.go:1198-1202, 2345-2369).                   *)
THEOREM ForbiddenRouteEnds == PartsSpec => []ForbiddenRouteIsFixed
<1>1. PartsIInv => ForbiddenRouteIsFixed
  BY DEF PartsIInv, IInv, RouteFixed, OnItsWay, ForbiddenRouteIsFixed
<1> QED
  BY <1>1, PartsInvariance, PTL

(* Whatever is being created or ends when Stop comes, every open socket    *)
(* has a reader or someone about to close it, and once the keys are wiped  *)
(* no task, probe or socket is left to use them (client.go:223-225,        *)
(* 1953-1970).                                                             *)
THEOREM NothingForgotten == PartsSpec => []StopLeavesNothing
<1>1. PartsIInv => StopLeavesNothing
  BY LifeLeavesNothing DEF PartsIInv, StopLeavesNothing
<1> QED
  BY <1>1, PartsInvariance, PTL
=============================================================================
