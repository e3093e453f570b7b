---------------------------- MODULE ClientRoute ----------------------------
(***************************************************************************)
(* The client's list of candidates and the route chosen from it            *)
(* (pkg/client/client.go), while the operator switches modes, offers of    *)
(* punch endpoints arrive and punch candidates come and go.                *)
(*                                                                         *)
(* Goroutines: SetMode's caller; a read loop per candidate; the            *)
(* establishing goroutine of each punch candidate; and the pinger.  Each   *)
(* action is one critical section of candidateMu, of a candidate's mu, or  *)
(* a load or store of the atomic mode.  selectBestCandidate takes          *)
(* candidateMu but loads the mode once per candidate, so that it may see   *)
(* two modes.                                                              *)
(*                                                                         *)
(* One configured candidate, Relay, is always listed; its path may be      *)
(* classified anew by each Pong.  Punch candidates are numbered in the     *)
(* order they are made and never reused.                                   *)
(***************************************************************************)
EXTENDS Naturals, FiniteSets

CONSTANTS
  InitMode,     \* the configured mode
  Endpoints,    \* server endpoints that may be offered for punching
  NoEndpoint,
  MaxPunches,   \* bound on the punch candidates made
  MaxListed,    \* maxPunchCandidates (8 in the code)
  MaxSwitches   \* bound on calls of SetMode

Modes == {"auto", "direct-only", "relay-only"}

ASSUME ClientRouteAssumption ==
  /\ InitMode \in Modes
  /\ NoEndpoint \notin Endpoints
  /\ MaxPunches \in Nat /\ MaxListed \in Nat /\ MaxSwitches \in Nat

Relay == 0
Punches == 1..MaxPunches
Cands == {Relay} \cup Punches
None == MaxPunches + 1

Setter == <<"setter", Relay>>
Pinger == <<"pinger", Relay>>
Reader(c) == <<"reader", c>>
Prober(p) == <<"prober", p>>
Goroutines == {Setter, Pinger} \cup {Reader(c) : c \in Cands} \cup {Prober(p) : p \in Punches}

VARIABLES
  mode, switches,
  left,       \* the mode SetMode was called in
  relayClass, \* pathClass of Relay, "" until a PathHint or Pong
  listed,     \* Client.candidates
  made,       \* punch candidates made so far
  endpoint,   \* what each of them punches to
  retired, online,
  best, prev, \* bestCandidate, prevCandidate
  pc,         \* where each goroutine is
  then,       \* where it goes on after selecting
  target,     \* the candidate it retires
  offer,      \* the endpoint it was offered
  toRetire,   \* SetMode's list
  holder,     \* who holds candidateMu in selectBestCandidate, or Nobody
  modeSeen    \* the mode when it began

Nobody == <<"nobody", Relay>>

candVars == <<relayClass, listed, made, endpoint, retired, online>>
routeVars == <<best, prev>>
goVars == <<pc, then, target, offer, toRetire>>
lockVars == <<holder, modeSeen>>
modeVars == <<mode, switches, left>>
vars == <<modeVars, candVars, routeVars, goVars, lockVars>>

Places == {"idle", "clear", "retire", "remove", "select", "selecting", "packet",
           "append", "offer", "probing", "done"}

TypeOK ==
  /\ mode \in Modes /\ left \in Modes /\ modeSeen \in Modes
  /\ switches \in 0..MaxSwitches
  /\ relayClass \in {"", "relay", "direct"}
  /\ made \in 0..MaxPunches
  /\ listed \subseteq {Relay} \cup 1..made /\ Relay \in listed
  /\ endpoint \in [Punches -> Endpoints \cup {NoEndpoint}]
  /\ retired \in [Punches -> BOOLEAN]
  /\ \A p \in 1..made : ~retired[p] => p \in listed
  /\ online \in [Cands -> BOOLEAN]
  /\ best \in Cands \cup {None} /\ prev \in Cands \cup {None}
  /\ pc \in [Goroutines -> Places] /\ then \in [Goroutines -> Places]
  /\ target \in [Goroutines -> Cands]
  /\ offer \in [Goroutines -> Endpoints \cup {NoEndpoint}]
  /\ toRetire \subseteq Punches
  /\ holder \in Goroutines \cup {Nobody}
  /\ \A g \in Goroutines : pc[g] = "selecting" <=> holder = g

Init ==
  /\ mode = InitMode /\ left = "auto" /\ switches = 0
  /\ relayClass = "" /\ listed = {Relay} /\ made = 0
  /\ endpoint = [p \in Punches |-> NoEndpoint]
  /\ retired = [p \in Punches |-> FALSE]
  /\ online = [c \in Cands |-> FALSE]
  /\ best = None /\ prev = None
  /\ pc = [g \in Goroutines |-> "idle"] /\ then = pc
  /\ target = [g \in Goroutines |-> Relay]
  /\ offer = [g \in Goroutines |-> NoEndpoint]
  /\ toRetire = {}
  /\ holder = Nobody /\ modeSeen = "auto"

-----------------------------------------------------------------------------
(* candidateAllowedValues: a punch candidate is classified from the start, *)
(* Relay as its last Pong said.                                            *)
AllowedIn(m, c) ==
  CASE m = "relay-only"  -> c = Relay /\ relayClass = "relay"
    [] m = "direct-only" -> c # Relay \/ relayClass = "direct"
    [] OTHER             -> c # Relay \/ relayClass # ""

Allowed(c) == AllowedIn(mode, c)

Go(g, place) == pc' = [pc EXCEPT ![g] = place]

(* go on to selectBestCandidate, and from there to place *)
SelectThen(g, place) ==
  Go(g, "select") /\ then' = [then EXCEPT ![g] = place]

CandidateMuFree == holder = Nobody

SelectBegin(g) ==
  /\ pc[g] = "select" /\ CandidateMuFree
  /\ holder' = g /\ modeSeen' = mode
  /\ Go(g, "selecting")
  /\ UNCHANGED <<modeVars, candVars, routeVars, then, target, offer, toRetire>>

(* Round-trip times are abstracted: any candidate found allowed and online *)
(* may be best, and a live route may be kept.  online is read once:        *)
(* whoever puts a candidate offline selects next.                          *)
SelectEnd(g) ==
  /\ pc[g] = "selecting"
  /\ \E seen \in [Cands -> {modeSeen, mode}] :
       LET eligible == {c \in listed : online[c] /\ AllowedIn(seen[c], c)} IN
       IF eligible = {} THEN best' = None /\ prev' = None
       ELSE \E c \in eligible \cup (IF best # None /\ online[best] /\ Allowed(best)
                                      THEN {best} ELSE {}) :
              /\ best' = c
              /\ prev' = IF c # best /\ best # None /\ online[best]
                              /\ Allowed(best) /\ Allowed(c)
                           THEN best ELSE prev
  /\ holder' = Nobody /\ modeSeen' = "auto"
  /\ Go(g, then[g]) /\ then' = [then EXCEPT ![g] = "idle"]
  /\ UNCHANGED <<modeVars, candVars, target, offer, toRetire>>

-----------------------------------------------------------------------------
(* retirePunchCandidate: mark and close under the candidate's mu, then     *)
(* removeCandidate under candidateMu, then select.                         *)

MarkRetiredNot(g, p, otherwise) ==   \* mutant: forgets to mark it
  IF retired[p]
    THEN Go(g, otherwise) /\ UNCHANGED <<retired, online, then, target>>
    ELSE /\ target' = [target EXCEPT ![g] = p]
         /\ then' = [then EXCEPT ![g] = otherwise]
         /\ Go(g, "remove") /\ UNCHANGED <<retired, online>>

MarkRetired(g, p, otherwise) ==
  IF retired[p]
    THEN Go(g, otherwise) /\ UNCHANGED <<retired, online, then, target>>
    ELSE /\ retired' = [retired EXCEPT ![p] = TRUE]
         /\ online' = [online EXCEPT ![p] = FALSE]
         /\ target' = [target EXCEPT ![g] = p]
         /\ then' = [then EXCEPT ![g] = otherwise]
         /\ Go(g, "remove")

KeepPrev(p) == prev   \* mutant
PrevWithout(p) == IF prev = p THEN None ELSE prev
KeepBest(p) == best   \* mutant
BestWithout(p) == IF best = p THEN None ELSE best

Remove(g) ==
  /\ pc[g] = "remove" /\ CandidateMuFree
  /\ listed' = listed \ {target[g]}
  /\ best' = BestWithout(target[g])
  /\ prev' = PrevWithout(target[g])
  /\ Go(g, "select") /\ target' = [target EXCEPT ![g] = Relay]
  /\ UNCHANGED <<modeVars, relayClass, made, endpoint, retired, online, then,
                 offer, toRetire, lockVars>>

-----------------------------------------------------------------------------
(* SetMode. *)

AfterStoreReturns(m) == "idle"   \* mutant: waits for the pinger to select
AfterStore(m) == IF m = "relay-only" THEN "clear" ELSE "select"

StoreMode(m) ==
  /\ pc[Setter] = "idle" /\ m # mode /\ switches < MaxSwitches
  /\ mode' = m /\ left' = mode /\ switches' = switches + 1
  /\ Go(Setter, AfterStore(m))
  /\ then' = [then EXCEPT ![Setter] = "offer"]
  /\ UNCHANGED <<candVars, routeVars, target, offer, toRetire, lockVars>>

ClearRoute ==
  /\ pc[Setter] = "clear" /\ CandidateMuFree
  /\ best' = IF best # None /\ ~Allowed(best) THEN None ELSE best
  /\ prev' = None
  /\ toRetire' = listed \ {Relay}
  /\ Go(Setter, "retire")
  /\ UNCHANGED <<modeVars, candVars, then, target, offer, lockVars>>

RetirePunch(p) ==
  /\ pc[Setter] = "retire" /\ p \in toRetire
  /\ toRetire' = toRetire \ {p}
  /\ MarkRetired(Setter, p, "retire")
  /\ UNCHANGED <<modeVars, relayClass, listed, made, endpoint, routeVars, offer, lockVars>>

RetiredAll ==
  /\ pc[Setter] = "retire" /\ toRetire = {}
  /\ SelectThen(Setter, "offer")
  /\ UNCHANGED <<modeVars, candVars, routeVars, target, offer, toRetire, lockVars>>

-----------------------------------------------------------------------------
(* maybeCreatePunchCandidate checks that punching makes sense ... *)
Offered(e) ==
  /\ mode # "relay-only"
  /\ ~\E p \in listed \ {Relay} : endpoint[p] = e
  /\ \E c \in listed : c = Relay /\ online[c]

(* Leaving relay-only, SetMode offers again the endpoint an online         *)
(* candidate has cached.                                                   *)
Reoffer ==
  /\ pc[Setter] = "offer"
  /\ \/ /\ left = "relay-only"
        /\ \E e \in Endpoints : Offered(e) /\ offer' = [offer EXCEPT ![Setter] = e]
        /\ Go(Setter, "append") /\ then' = [then EXCEPT ![Setter] = "idle"]
     \/ /\ ~(left = "relay-only" /\ \E e \in Endpoints : Offered(e))
        /\ Go(Setter, "idle") /\ UNCHANGED <<then, offer>>
  /\ left' = "auto"
  /\ UNCHANGED <<mode, switches, candVars, routeVars, target, toRetire, lockVars>>

(* ... and addPunchCandidate checks it again under candidateMu.  Making    *)
(* the socket may fail.                                                    *)
Duplicate(e) == \E p \in listed \ {Relay} : endpoint[p] = e
MayAppendUnchecked(e) == ~Duplicate(e)   \* mutant: relies on the first check
MayAppend(e) ==
  /\ mode # "relay-only"
  /\ ~Duplicate(e)
  /\ Cardinality(listed \ {Relay}) < MaxListed

(* The goroutine goes on where it would have without the offer. *)
AppendDone(g) ==
  /\ offer' = [offer EXCEPT ![g] = NoEndpoint]
  /\ then' = [then EXCEPT ![g] = "idle"]

Append(g) ==
  /\ pc[g] = "append" /\ CandidateMuFree
  /\ MayAppend(offer[g]) /\ made < MaxPunches
  /\ made' = made + 1
  /\ listed' = listed \cup {made + 1}
  /\ endpoint' = [endpoint EXCEPT ![made + 1] = offer[g]]
  /\ pc' = [pc EXCEPT ![g] = then[g], ![Prober(made + 1)] = "probing"]
  /\ AppendDone(g)
  /\ UNCHANGED <<modeVars, relayClass, retired, online, routeVars, target, toRetire,
                 lockVars>>

AppendRefused(g) ==
  /\ pc[g] = "append" /\ CandidateMuFree
  /\ Go(g, then[g]) /\ AppendDone(g)
  /\ UNCHANGED <<modeVars, candVars, routeVars, target, toRetire, lockVars>>

-----------------------------------------------------------------------------
(* candidateReadLoop of candidate c: a packet is read while the socket is  *)
(* open, and processed even if the candidate is retired meanwhile (Relay   *)
(* never is: for it both are one step).                                    *)

Receive(p) ==
  /\ pc[Reader(p)] = "idle"
  /\ p <= made /\ ~retired[p]
  /\ Go(Reader(p), "packet")
  /\ UNCHANGED <<modeVars, candVars, routeVars, then, target, offer, toRetire, lockVars>>

(* Any packet puts the candidate online.  A Pong or PathHint classifies    *)
(* Relay and selects, others may not; a PunchOffer, or a Pong with an      *)
(* endpoint, offers one first.                                             *)
Process(c) ==
  LET r == Reader(c) IN
  /\ pc[r] = IF c = Relay THEN "idle" ELSE "packet"
  /\ online' = [online EXCEPT ![c] = TRUE]
  /\ \E next \in {"idle", "select"} :
       /\ relayClass' \in IF c = Relay /\ next = "select"
                            THEN {"relay", "direct"} ELSE {relayClass}
       /\ \/ Go(r, next) /\ UNCHANGED <<then, offer>>
          \/ \E e \in Endpoints :
               /\ Offered(e)
               /\ offer' = [offer EXCEPT ![r] = e]
               /\ Go(r, "append") /\ then' = [then EXCEPT ![r] = next]
  /\ UNCHANGED <<modeVars, listed, made, endpoint, retired, routeVars, target,
                 toRetire, lockVars>>

(* establishPunch: gives up under relay-only or at its deadline, is done   *)
(* once the candidate is retired or online.                                *)
GiveUp(p) ==
  /\ pc[Prober(p)] = "probing"
  /\ MarkRetired(Prober(p), p, "done")
  /\ UNCHANGED <<modeVars, relayClass, listed, made, endpoint, routeVars, offer,
                 toRetire, lockVars>>

Confirm(p) ==
  /\ pc[Prober(p)] = "probing" /\ mode # "relay-only"
  /\ ~retired[p] /\ online[p]
  /\ SelectThen(Prober(p), "done")
  /\ UNCHANGED <<modeVars, candVars, routeVars, target, offer, toRetire, lockVars>>

(* pingProbeLoop may find a candidate silent, and selects.  One it finds   *)
(* heard lately is online as after a packet.                               *)
Round(c) ==
  /\ pc[Pinger] = "idle" /\ c \in listed
  /\ \E silent \in BOOLEAN : online' = [online EXCEPT ![c] = @ /\ ~silent]
  /\ SelectThen(Pinger, "idle")
  /\ UNCHANGED <<modeVars, relayClass, listed, made, endpoint, retired, routeVars,
                 target, offer, toRetire, lockVars>>

Next ==
  \/ \E m \in Modes : StoreMode(m)
  \/ ClearRoute \/ RetiredAll \/ Reoffer
  \/ \E g \in Goroutines :
       SelectBegin(g) \/ SelectEnd(g) \/ Remove(g) \/ Append(g) \/ AppendRefused(g)
  \/ \E c \in Cands : Process(c) \/ Round(c)
  \/ \E p \in Punches : Receive(p) \/ RetirePunch(p) \/ GiveUp(p) \/ Confirm(p)

Spec == Init /\ [][Next]_vars

-----------------------------------------------------------------------------
(* Once SetMode("relay-only") has returned, no punch socket is in use, nor *)
(* will an offer that was under way bring one back.                        *)
RelayOnlyClean ==
  mode = "relay-only" /\ pc[Setter] = "idle" =>
    \A p \in listed \ {Relay} : retired[p]

(* The route never points at a candidate that was removed, and at a        *)
(* retired one only until its removal, which is under way.                 *)
RouteListed ==
  /\ {best, prev} \subseteq listed \cup {None}
  /\ \A p \in Punches : retired[p] /\ p \in {best, prev} =>
       \E g \in Goroutines : pc[g] = "remove" /\ target[g] = p

(* A route the mode forbids is never left standing: a goroutine is on its  *)
(* way to select again (client.go:1198-1202, 2345-2369).                   *)
ForbiddenRouteIsFixed ==
  best # None /\ ~Allowed(best) =>
    \E g \in Goroutines :
      pc[g] \in {"clear", "retire", "remove", "append", "select", "selecting"}
=============================================================================
