------------------------ MODULE SecretAndRouteProofs ------------------------
(***************************************************************************)
(* Proofs about SecretAndRoute: for any processes, keys, kills and power   *)
(* failures, all that run with a key run with the one in the file; for any *)
(* candidates, times and margin, no path carries a datagram of the game    *)
(* twice, and a selection nothing disturbs leaves no worthwhile            *)
(* improvement behind.                                                     *)
(*                                                                         *)
(* OneKey is not inductive: what is linked might not be on the disk, and   *)
(* what a process is about to return might have been read from another     *)
(* file.  IInv adds that only synced data is linked, so that a file's data *)
(* is always on the disk, and that whoever has read a file finds the same  *)
(* one when it checks it: a name, once taken, is never linked over.        *)
(*                                                                         *)
(* Nor are the two about the route.  RouteIInv adds what the reader and    *)
(* the selector know half-way: which of the two paths the datagram has     *)
(* been sent over (SentSoFar), and that the candidate the selector holds   *)
(* is the best of those it has read, unless what it reads has changed      *)
(* (FoundBest).                                                            *)
(***************************************************************************)
EXTENDS SecretAndRoute, TLAPS


SyncedBeforeLink == \A p \in Procs : step[p] = "link" => synced[p]
OnDisk == flushed /\ file.kind # "torn"
ReadIsCurrent ==
  \A p \in Procs : step[p] \in {"check", "loaded"} =>
    /\ data[p] = file
    /\ file.kind # "missing"
LoadedIsKey == \A p \in Procs : step[p] = "loaded" => file.kind = "key"

IInv == TypeOK /\ SyncedBeforeLink /\ OnDisk /\ ReadIsCurrent /\ LoadedIsKey

(* The initial states satisfy the inductive invariant.                     *)
LEMMA InitIInv == Init => IInv
BY DEF Init, IInv, TypeOK, Files, Kinds, Steps, File, SyncedBeforeLink, OnDisk,
       ReadIsCurrent, LoadedIsKey

(* A step of one process preserves it.                                     *)
LEMMA LoadIInv ==
  ASSUME IInv, NEW p \in Procs, LoadSecret(p)
  PROVE  IInv'
<1> USE DEF IInv, TypeOK, SyncedBeforeLink, OnDisk, ReadIsCurrent, LoadedIsKey,
            diskVars, Go, Steps
<1>1. CASE Read(p)
  <2>1. PICK s \in {"check", "create", "failed"} :
          step' = [step EXCEPT ![p] = s] /\ (s = "check" => file.kind # "missing")
    BY <1>1 DEF Read
  <2>2. /\ data' = [data EXCEPT ![p] = file]
        /\ UNCHANGED <<diskVars, own, synced, crashes>>
    BY <1>1 DEF Read
  <2> QED
    BY <2>1, <2>2
<1>2. CASE Generate(p)
  BY <1>2 DEF Generate
<1>3. CASE Write(p)
  BY <1>3 DEF Write, SyncAfterWrite
<1>4. CASE Sync(p)
  BY <1>4 DEF Sync
<1>5. CASE Fail(p)
  BY <1>5 DEF Fail
<1>6. CASE Link(p)
  <2>1. CASE LinkTakesName
    <3>1. file' = [kind |-> "key", key |-> own[p]] /\ flushed'
      BY <1>6, <2>1 DEF Link, File
    <3>2. \A q \in Procs : step[q] \notin {"check", "loaded"}
      BY <2>1 DEF LinkTakesName
    <3>3. file' \in Files
      BY <3>1 DEF Files, Kinds
    <3>4. private' \in BOOLEAN /\ named' \in BOOLEAN
      BY <1>6, <2>1 DEF Link
    <3> QED
      BY <1>6, <3>1, <3>2, <3>3, <3>4 DEF Link
  <2>2. CASE ~LinkTakesName
    BY <1>6, <2>2 DEF Link
  <2> QED
    BY <2>1, <2>2
<1>7. CASE Check(p)
  <2>1. PICK s \in {"loaded", "failed"} :
          step' = [step EXCEPT ![p] = s] /\ (s = "loaded" => data[p].kind = "key")
    BY <1>7 DEF Check, PermissionsPass
  <2>2. step[p] = "check" /\ UNCHANGED <<diskVars, own, synced, data, crashes>>
    BY <1>7 DEF Check, PermissionsPass
  <2> QED
    BY <2>1, <2>2
<1> QED
  BY <1>1, <1>2, <1>3, <1>4, <1>5, <1>6, <1>7 DEF LoadSecret

(* Every step of the specification preserves it.                           *)
LEMMA NextIInv == IInv /\ [Next]_vars => IInv'
<1> SUFFICES ASSUME IInv, [Next]_vars PROVE IInv'
  OBVIOUS
<1> USE DEF IInv, TypeOK, SyncedBeforeLink, OnDisk, ReadIsCurrent, LoadedIsKey,
            diskVars, procVars, Steps
<1>1. ASSUME NEW p \in Procs, LoadSecret(p) PROVE IInv'
  BY <1>1, LoadIInv
<1>2. ASSUME NEW p \in Procs, Restart(p) PROVE IInv'
  BY <1>2 DEF Restart
<1>3. CASE Flush
  BY <1>3 DEF Flush
<1>4. CASE PowerLoss
  <2>1. PICK kind \in Kinds : kind # "torn" /\ file' = [file EXCEPT !.kind = kind]
    BY <1>4 DEF PowerLoss
  <2>2. file' \in Files /\ file'.kind # "torn"
    BY <2>1 DEF Files
  <2> QED
    BY <1>4, <2>2 DEF PowerLoss
<1>5. CASE Ended
  BY <1>5 DEF Ended, vars
<1>6. CASE UNCHANGED vars
  BY <1>6 DEF vars
<1> QED
  BY <1>1, <1>2, <1>3, <1>4, <1>5, <1>6 DEF Next

(* IInv holds in every reachable state.                                    *)
LEMMA Invariance == Spec => []IInv
BY InitIInv, NextIInv, PTL DEF Spec

-----------------------------------------------------------------------------
(* The choice of a route.  TypeOK by the variables that change together.   *)
CandOK ==
  /\ class \in [Route!Cands -> Route!Classes] /\ rtt \in [Route!Cands -> Rtts]
  /\ online \in [Route!Cands -> BOOLEAN] /\ recent \in [Route!Cands -> BOOLEAN]
ModeOK == mode \in Route!Modes /\ setter \in {"idle", "clear"}
RouteOK ==
  /\ best \in Route!Cands \cup {Route!None} /\ prev \in Route!Cands \cup {Route!None}
  /\ dual \in BOOLEAN
  /\ (dual <=> prev # Route!None) /\ (dual => best # Route!None)
ScanOK ==
  /\ scan \in [at : {"idle", "scan", "judge", "install"}, next : Route!Cands,
               pick : Route!Cands \cup {Route!None}, eff : Nat]
  /\ settled \in BOOLEAN
GameOK ==
  /\ game \in [at : {"idle", "active", "other"}, active : Route!Cands \cup {Route!None},
               other : Route!Cands \cup {Route!None}]
  /\ sent \in [Route!Cands -> 0..2] /\ strict \in BOOLEAN

(* A datagram copied is unsent, and over the former route only once it was *)
(* sent over the current one.                                              *)
SentSoFar ==
  /\ game.at = "active" => \A c \in Route!Cands : sent[c] = 0
  /\ game.at = "other" => \A c \in Route!Cands \ {game.active} : sent[c] = 0

(* What the selector found is the best it has read so far, unless what it  *)
(* read has changed.                                                       *)
Eligible(c) == Route!Allowed(c) /\ Route!Live(c)
BeenRead(c) == scan.at = "scan" => c < scan.next
FoundBest ==
  settled /\ scan.at # "idle" =>
    /\ scan.pick # Route!None => Eligible(scan.pick)
    /\ scan.pick # Route!None /\ scan.at = "scan" => scan.eff = Route!Effective(scan.pick)
    /\ \A c \in Route!Cands : BeenRead(c) /\ Eligible(c) =>
         scan.pick # Route!None /\ Route!Effective(scan.pick) <= Route!Effective(c)
InstallsSome == scan.at = "install" => scan.pick # Route!None

RouteIInv ==
  /\ CandOK /\ ModeOK /\ RouteOK /\ ScanOK /\ GameOK
  /\ SentSoFar /\ Route!GameSentRight /\ FoundBest /\ InstallsSome /\ Route!NearBest

(* What the selector compares are numbers.                                 *)
LEMMA EffectiveNat ==
  ASSUME CandOK, NEW c \in Route!Cands
  PROVE  Route!Effective(c) \in Nat /\ rtt[c] \in Nat
<1>1. rtt[c] \in Nat
  BY RouteAssumption DEF CandOK
<1>2. rtt[c] \div 10 \in Nat
  BY <1>1
<1> QED
  BY <1>1, <1>2 DEF Route!Effective

(* Who may carry the game depends on classes and the mode only.            *)
LEMMA SameAllowed ==
  ASSUME UNCHANGED <<class, mode>>, NEW c PROVE Route!Allowed(c)' <=> Route!Allowed(c)
BY DEF Route!Allowed

LEMMA SameEligible ==
  ASSUME UNCHANGED <<Route!candVars, mode>>, NEW c
  PROVE  (Eligible(c)' <=> Eligible(c)) /\ Route!Effective(c)' = Route!Effective(c)
BY SameAllowed DEF Eligible, Route!Live, Route!Effective, Route!candVars

LEMMA RouteInit == Route!Init => RouteIInv
<1> SUFFICES ASSUME Route!Init PROVE RouteIInv
  OBVIOUS
<1> USE RouteAssumption
<1>1. CandOK /\ ModeOK /\ RouteOK
  BY DEF Route!Init, CandOK, ModeOK, RouteOK, Route!Cands, Route!Classes,
     Route!Modes, Route!None
<1>2. ScanOK /\ GameOK
  <2>1. 1 \in Route!Cands
    BY DEF Route!Cands
  <2>2. ScanOK
    BY <2>1 DEF Route!Init, ScanOK, Route!NotScanning, Route!None
  <2>3. sent \in [Route!Cands -> 0..2]
    <3>1. 0 \in 0..2
      OBVIOUS
    <3> QED
      BY <3>1 DEF Route!Init
  <2> QED
    BY <2>2, <2>3 DEF Route!Init, GameOK, Route!NotSending, Route!None
<1>3. SentSoFar /\ FoundBest /\ InstallsSome /\ Route!NearBest
  BY DEF Route!Init, SentSoFar, FoundBest, InstallsSome, Route!NearBest,
     Route!NotScanning, Route!NotSending
<1>4. Route!GameSentRight
  BY DEF Route!Init, Route!GameSentRight
<1> QED
  BY <1>1, <1>2, <1>3, <1>4 DEF RouteIInv

(* The selector's and the reader's parts when neither acts: what changes   *)
(* around them unsettles the selection.                                    *)
LEMMA Undisturbed ==
  ASSUME RouteIInv, UNCHANGED <<scan, Route!gameVars, class, mode>>,
         CandOK', ModeOK', RouteOK', settled' = FALSE
  PROVE  RouteIInv'
<1>1. ScanOK' /\ InstallsSome' /\ FoundBest' /\ Route!NearBest'
  BY DEF RouteIInv, ScanOK, InstallsSome, FoundBest, Route!NearBest
<1>2. GameOK' /\ SentSoFar'
  BY DEF RouteIInv, GameOK, SentSoFar, Route!gameVars
<1>3. Route!GameSentRight'
  BY SameAllowed DEF RouteIInv, Route!GameSentRight, Route!gameVars
<1> QED
  BY <1>1, <1>2, <1>3 DEF RouteIInv

Around(c) ==
  Route!GrowStale(c) \/ Route!GoOffline(c) \/ \E r \in Rtts : Route!Measure(c, r)

(* Measurements, silence and the operator's switches.                      *)
LEMMA AroundIInv ==
  ASSUME RouteIInv,
         \/ \E c \in Route!Cands : Around(c)
         \/ Route!ClearRoute
  PROVE  RouteIInv'
<1>1. CASE \E c \in Route!Cands : Around(c)
  <2>1. /\ UNCHANGED <<scan, Route!gameVars, Route!modeVars, Route!routeVars>>
        /\ class' = class /\ settled' = FALSE
    BY <1>1 DEF Around, Route!GrowStale, Route!GoOffline, Route!Measure
  <2>2. CandOK'
    BY <1>1 DEF Around, Route!GrowStale, Route!GoOffline, Route!Measure,
       RouteIInv, CandOK
  <2>3. ModeOK' /\ RouteOK'
    BY <2>1 DEF RouteIInv, ModeOK, RouteOK, Route!modeVars, Route!routeVars
  <2> QED
    BY <2>1, <2>2, <2>3, Undisturbed DEF Route!modeVars
<1>2. CASE Route!ClearRoute
  <2>1. UNCHANGED <<scan, Route!gameVars, Route!candVars, mode>>
        /\ settled' = FALSE /\ setter' = "idle"
    BY <1>2 DEF Route!ClearRoute
  <2>2. CandOK' /\ ModeOK'
    BY <2>1 DEF RouteIInv, CandOK, ModeOK, Route!candVars
  <2>3. RouteOK'
    BY <1>2 DEF Route!ClearRoute, RouteIInv, RouteOK
  <2> QED
    BY <2>1, <2>2, <2>3, Undisturbed DEF Route!candVars
<1> QED
  BY <1>1, <1>2

LEMMA StoreModeIInv ==
  ASSUME RouteIInv, NEW m \in Route!Modes, Route!StoreMode(m)
  PROVE  RouteIInv'
<1>1. /\ UNCHANGED <<Route!candVars, Route!routeVars, scan, game, sent>>
      /\ mode' = m /\ strict' = FALSE /\ settled' = FALSE /\ setter' \in {"idle", "clear"}
  BY DEF Route!StoreMode
<1>2. CandOK' /\ ModeOK' /\ RouteOK'
  BY <1>1 DEF RouteIInv, CandOK, ModeOK, RouteOK, Route!candVars, Route!routeVars
<1>3. ScanOK' /\ InstallsSome' /\ FoundBest' /\ Route!NearBest'
  BY <1>1 DEF RouteIInv, ScanOK, InstallsSome, FoundBest, Route!NearBest
<1>4. GameOK' /\ SentSoFar' /\ Route!GameSentRight'
  BY <1>1 DEF RouteIInv, GameOK, SentSoFar, Route!GameSentRight
<1> QED
  BY <1>2, <1>3, <1>4 DEF RouteIInv

(* The game's reader leaves the selector alone, and sends over what is     *)
(* allowed.                                                                *)
LEMMA ReaderIInv ==
  ASSUME RouteIInv, Route!CopyRoute \/ Route!SendActive \/ Route!SendOther
  PROVE  RouteIInv'
<1>1. UNCHANGED <<Route!candVars, Route!modeVars, Route!routeVars, scan, settled>>
  BY DEF Route!CopyRoute, Route!SendActive, Route!SendOther
<1>2. CandOK' /\ ModeOK' /\ RouteOK' /\ ScanOK' /\ InstallsSome'
  BY <1>1 DEF RouteIInv, CandOK, ModeOK, RouteOK, ScanOK, InstallsSome,
     Route!candVars, Route!modeVars, Route!routeVars
<1>3. \A c : (Eligible(c)' <=> Eligible(c)) /\ Route!Effective(c)' = Route!Effective(c)
             /\ (Route!Allowed(c)' <=> Route!Allowed(c))
  BY <1>1, SameEligible, SameAllowed DEF Route!candVars, Route!modeVars
<1>4. FoundBest'
  BY <1>1, <1>3 DEF RouteIInv, FoundBest, BeenRead
<1>5. Route!NearBest'
  BY <1>1, <1>3 DEF RouteIInv, Route!NearBest, Eligible, Route!candVars,
     Route!routeVars, Route!CandidateMuFree
<1>6. GameOK' /\ SentSoFar' /\ Route!GameSentRight'
  <2>1. CASE Route!CopyRoute
    BY <2>1 DEF Route!CopyRoute, RouteIInv, GameOK, SentSoFar,
       Route!GameSentRight, RouteOK
  <2>2. CASE Route!SendActive
    <3>1. CASE Route!MaySend(game.active)
      <4>1. /\ game.at = "active" /\ sent' = [sent EXCEPT ![game.active] = @ + 1]
            /\ game' = [game EXCEPT !.at = "other"] /\ strict' = strict
        BY <2>2, <3>1 DEF Route!SendActive
      <4>2. game.active \in Route!Cands /\ Route!Allowed(game.active)
        BY <3>1 DEF Route!MaySend, RouteIInv, GameOK, Route!None
      <4>3. \A c \in Route!Cands : sent'[c] = IF c = game.active THEN 1 ELSE 0
        BY <4>1, <4>2 DEF RouteIInv, GameOK, SentSoFar
      <4>4. GameOK'
        BY <4>1, <4>2, <4>3 DEF RouteIInv, GameOK
      <4>5. SentSoFar'
        BY <4>1, <4>3 DEF RouteIInv, GameOK, SentSoFar
      <4>6. Route!GameSentRight'
        BY <4>2, <4>3, <1>3 DEF Route!GameSentRight
      <4> QED
        BY <4>4, <4>5, <4>6
    <3>2. CASE ~Route!MaySend(game.active)
      <4>1. UNCHANGED sent /\ game' = Route!NotSending /\ strict' = strict
        BY <2>2, <3>2 DEF Route!SendActive
      <4> QED
        BY <1>3, <4>1 DEF RouteIInv, GameOK, SentSoFar, Route!GameSentRight,
           Route!NotSending
    <3> QED
      BY <3>1, <3>2
  <2>3. CASE Route!SendOther
    <3>1. /\ game.at = "other" /\ game' = Route!NotSending /\ strict' = strict
      BY <2>3 DEF Route!SendOther
    <3>2. CASE UNCHANGED sent
      BY <1>3, <3>1, <3>2 DEF RouteIInv, GameOK, SentSoFar, Route!GameSentRight,
         Route!NotSending
    <3>3. CASE /\ Route!MayRepeat(game.other)
               /\ sent' = [sent EXCEPT ![game.other] = @ + 1]
      <4>1. /\ game.other \in Route!Cands /\ game.other # game.active
            /\ Route!Allowed(game.other)
        BY <3>3 DEF Route!MayRepeat, Route!MaySend, RouteIInv, GameOK, Route!None
      <4>2. \A c \in Route!Cands : sent'[c] = IF c = game.other THEN 1 ELSE sent[c]
        BY <3>1, <3>3, <4>1 DEF RouteIInv, GameOK, SentSoFar
      <4>3. GameOK'
        BY <3>1, <3>3, <4>1, <4>2 DEF RouteIInv, GameOK, Route!NotSending
      <4>4. SentSoFar'
        BY <3>1 DEF SentSoFar, Route!NotSending
      <4>5. Route!GameSentRight'
        BY <1>3, <3>1, <4>1, <4>2 DEF RouteIInv, Route!GameSentRight
      <4> QED
        BY <4>3, <4>4, <4>5
    <3> QED
      BY <2>3, <3>2, <3>3 DEF Route!SendOther
  <2> QED
    BY <2>1, <2>2, <2>3
<1> QED
  BY <1>2, <1>4, <1>5, <1>6 DEF RouteIInv

(* The selector reads one candidate after the other: what it holds is the  *)
(* best of those it has read.                                              *)
LEMMA ExamineIInv ==
  ASSUME RouteIInv, Route!Examine
  PROVE  FoundBest' /\ ScanOK' /\ InstallsSome'
<1> DEFINE c == scan.next
           found == IF Route!Better(c)
                      THEN [scan EXCEPT !.pick = c, !.eff = Route!Effective(c)] ELSE scan
<1>1. /\ scan.at = "scan" /\ UNCHANGED <<Route!candVars, mode, settled>>
      /\ scan' = IF c < N THEN [found EXCEPT !.next = c + 1]
                 ELSE [Route!NotScanning EXCEPT !.at = "judge", !.pick = found.pick]
  BY DEF Route!Examine, Route!modeVars
<1>2. c \in Route!Cands /\ c \in Nat /\ c >= 1 /\ c <= N /\ N \in Nat
  BY RouteAssumption DEF RouteIInv, ScanOK, Route!Cands
<1>3. found \in [at : {"scan"}, next : {c}, pick : Route!Cands \cup {Route!None}, eff : Nat]
  BY <1>1, <1>2, EffectiveNat DEF RouteIInv, ScanOK
<1>4. ScanOK' /\ InstallsSome'
  <2>1. CASE c < N
    <3>1. scan' = [found EXCEPT !.next = c + 1]
      BY <1>1, <2>1
    <3>2. c + 1 \in Route!Cands
      BY <1>2, <2>1 DEF Route!Cands
    <3>3. settled' \in BOOLEAN
      BY <1>1 DEF RouteIInv, ScanOK
    <3> HIDE DEF found
    <3> QED
      BY <1>3, <3>1, <3>2, <3>3 DEF ScanOK, InstallsSome
  <2>2. CASE ~(c < N)
    <3>1. scan' = [at |-> "judge", next |-> 1, pick |-> found.pick, eff |-> 0]
      BY <1>1, <2>2 DEF Route!NotScanning
    <3>2. 1 \in Route!Cands /\ 0 \in Nat /\ settled' \in BOOLEAN
      BY <1>1, RouteAssumption DEF Route!Cands, RouteIInv, ScanOK
    <3> HIDE DEF found
    <3>3. found.pick \in Route!Cands \cup {Route!None}
      BY <1>3
    <3> QED
      BY <3>1, <3>2, <3>3 DEF ScanOK, InstallsSome
  <2> QED
    BY <2>1, <2>2
<1>5. FoundBest'
  <2> SUFFICES ASSUME settled
               PROVE  FoundBest'
    BY <1>1 DEF FoundBest
  <2>1. /\ scan.pick # Route!None =>
             Eligible(scan.pick) /\ scan.eff = Route!Effective(scan.pick)
        /\ \A d \in Route!Cands : d < c /\ Eligible(d) =>
             scan.pick # Route!None /\ Route!Effective(scan.pick) <= Route!Effective(d)
    BY <1>1 DEF RouteIInv, FoundBest, BeenRead
  <2>2. Route!Better(c) <=>
          Eligible(c) /\ (scan.pick = Route!None \/ Route!Effective(c) < scan.eff)
    BY DEF Route!Better, Eligible
  <2>3. /\ found.pick # Route!None =>
             Eligible(found.pick) /\ found.eff = Route!Effective(found.pick)
        /\ \A d \in Route!Cands : d <= c /\ Eligible(d) =>
             found.pick # Route!None /\ Route!Effective(found.pick) <= Route!Effective(d)
    <3>1. \A d \in Route!Cands : Route!Effective(d) \in Nat
      BY EffectiveNat DEF RouteIInv
    <3>2. \A d \in Route!Cands : d <= c => d < c \/ d = c
      BY <1>2 DEF Route!Cands
    <3>3. c # Route!None /\ scan.pick \in Route!Cands \cup {Route!None}
      BY <1>2 DEF Route!None, RouteIInv, ScanOK
    <3>4. CASE Route!Better(c)
      <4>1. found.pick = c /\ found.eff = Route!Effective(c)
        BY <3>4 DEF RouteIInv, ScanOK
      <4> HIDE DEF found
      <4> QED
        BY <2>1, <2>2, <3>1, <3>2, <3>3, <3>4, <4>1, <1>2
    <3>5. CASE ~Route!Better(c)
      <4>1. found = scan
        BY <3>5
      <4> HIDE DEF found
      <4> QED
        BY <2>1, <2>2, <3>1, <3>2, <3>3, <3>5, <4>1, <1>2
    <3> QED
      BY <3>4, <3>5
  <2>4. /\ scan'.pick = found.pick
        /\ scan'.at = "scan" => scan'.eff = found.eff /\ scan'.next = c + 1
        /\ scan'.at # "scan" => c = N
    <3>1. CASE c < N
      <4>1. scan' = [found EXCEPT !.next = c + 1]
        BY <1>1, <3>1
      <4> HIDE DEF found
      <4> QED
        BY <1>3, <4>1
    <3>2. CASE ~(c < N)
      <4>1. scan' = [at |-> "judge", next |-> 1, pick |-> found.pick, eff |-> 0]
        BY <1>1, <3>2 DEF Route!NotScanning
      <4>2. c = N
        BY <1>2, <3>2
      <4> HIDE DEF found
      <4> QED
        BY <4>1, <4>2
    <3> QED
      BY <3>1, <3>2
  <2>5. \A d \in Route!Cands : BeenRead(d)' => d <= c
    BY <1>2, <2>4 DEF BeenRead, Route!Cands
  <2>6. \A d : (Eligible(d)' <=> Eligible(d)) /\ Route!Effective(d)' = Route!Effective(d)
    BY <1>1, SameEligible
  <2> HIDE DEF found
  <2> QED
    BY <2>3, <2>4, <2>5, <2>6 DEF FoundBest
<1> QED
  BY <1>4, <1>5

(* A selection that ends leaves the best, or what is little worse.         *)
LEMMA EndsNearBest ==
  ASSUME RouteIInv, settled, scan.at \in {"judge", "install"},
         UNCHANGED <<Route!candVars, mode>>,
         IF scan.pick = Route!None THEN best' = Route!None
         ELSE best' = scan.pick \/ (best' = best /\ Route!Keeps(scan.pick))
  PROVE  Route!NearBest'
<1> DEFINE eligible == {c \in Route!Cands : Route!Allowed(c) /\ Route!Live(c)}
<1>1. /\ scan.pick # Route!None => Eligible(scan.pick) /\ scan.pick \in Route!Cands
      /\ \A c \in Route!Cands : Eligible(c) =>
           scan.pick # Route!None /\ Route!Effective(scan.pick) <= Route!Effective(c)
  BY DEF RouteIInv, FoundBest, BeenRead, ScanOK
<1>2. /\ class' = class /\ rtt' = rtt
      /\ \A c : /\ Route!Allowed(c)' <=> Route!Allowed(c)
                /\ Route!Live(c)' <=> Route!Live(c)
                /\ Route!Effective(c)' = Route!Effective(c)
  BY SameAllowed DEF Route!candVars, Route!Live, Route!Effective
<1>3. eligible' = eligible
  BY <1>2
<1>4. \A c \in Route!Cands : Route!Effective(c) \in Nat /\ rtt[c] \in Nat
  BY EffectiveNat DEF RouteIInv
<1>5. CASE scan.pick = Route!None
  <2>1. best' = Route!None /\ eligible = {}
    BY <1>1, <1>5 DEF Eligible
  <2> QED
    BY <1>3, <2>1 DEF Route!NearBest
<1>6. CASE scan.pick # Route!None
  <2>1. best' \in Route!Cands /\ best' \in eligible
    <3>1. CASE best' = scan.pick
      BY <1>1, <1>6, <3>1 DEF Eligible
    <3>2. CASE best' = best /\ Route!Keeps(scan.pick)
      BY <3>2 DEF Route!Keeps, RouteIInv, RouteOK
    <3> QED
      BY <1>6, <3>1, <3>2
  <2>2. ASSUME class[best'] # "lan", NEW c \in eligible
        PROVE  ~Route!Worthwhile(rtt[best'], Route!Effective(c))
    <3>1. /\ scan.pick \in Route!Cands /\ Route!Effective(scan.pick) <= Route!Effective(c)
      BY <1>1, <1>6, <2>2 DEF Eligible
    <3>2. CASE best' = scan.pick
      <4>1. Route!Effective(scan.pick) = rtt[best']
        BY <2>2, <3>2 DEF Route!Effective
      <4> QED
        BY <1>4, <2>1, <3>1, <4>1 DEF Route!Worthwhile
    <3>3. CASE best' = best /\ Route!Keeps(scan.pick)
      <4>1. /\ Route!Effective(scan.pick) = rtt[scan.pick]
            /\ Route!Small(rtt[best'], rtt[scan.pick])
        BY <2>2, <3>3 DEF Route!Effective, Route!Keeps
      <4>2. Margin \in Nat /\ rtt[best'] \in Nat /\ rtt[best'] \div 7 \in Nat
        BY RouteAssumption, <1>4, <2>1
      <4> QED
        BY <1>4, <2>1, <3>1, <4>1, <4>2 DEF Route!Worthwhile, Route!Small
    <3> QED
      BY <1>6, <3>2, <3>3
  <2> QED
    BY <1>2, <1>3, <2>1, <2>2 DEF Route!NearBest
<1> QED
  BY <1>5, <1>6

(* The selector's steps.                                                   *)
LEMMA SelectIInv ==
  ASSUME RouteIInv, Route!SelectBegin \/ Route!Examine \/ Route!Judge \/ Route!Install
  PROVE  RouteIInv'
<1>1. UNCHANGED <<Route!candVars, Route!modeVars, Route!gameVars>>
  BY DEF Route!SelectBegin, Route!Examine, Route!Judge, Route!Install
<1>2. CandOK' /\ ModeOK' /\ GameOK' /\ SentSoFar'
  BY <1>1 DEF RouteIInv, CandOK, ModeOK, GameOK, SentSoFar, Route!candVars,
     Route!modeVars, Route!gameVars
<1>3. Route!GameSentRight'
  BY <1>1, SameAllowed DEF RouteIInv, Route!GameSentRight, Route!gameVars,
     Route!candVars, Route!modeVars
<1>4. 1 \in Route!Cands
  BY RouteAssumption DEF Route!Cands
<1>5. CASE Route!SelectBegin
  <2>1. /\ UNCHANGED Route!routeVars /\ settled' = TRUE
        /\ scan' = [at |-> "scan", next |-> 1, pick |-> Route!None, eff |-> 0]
    BY <1>5 DEF Route!SelectBegin, Route!NotScanning
  <2>2. RouteOK' /\ ScanOK' /\ InstallsSome' /\ Route!NearBest'
    BY <1>4, <2>1 DEF RouteIInv, RouteOK, ScanOK, InstallsSome, Route!NearBest,
       Route!CandidateMuFree, Route!routeVars
  <2>3. FoundBest'
    BY <2>1 DEF FoundBest, BeenRead, Route!Cands
  <2> QED
    BY <1>2, <1>3, <2>2, <2>3 DEF RouteIInv
<1>6. CASE Route!Examine
  <2>1. UNCHANGED Route!routeVars /\ scan'.at # "idle"
    BY <1>6 DEF Route!Examine, RouteIInv, ScanOK, Route!NotScanning
  <2>2. RouteOK' /\ Route!NearBest'
    BY <2>1 DEF RouteIInv, RouteOK, Route!routeVars, Route!NearBest,
       Route!CandidateMuFree
  <2> QED
    BY <1>2, <1>3, <1>6, <2>2, ExamineIInv DEF RouteIInv
<1>7. CASE Route!Judge
  <2>1. /\ scan.at = "judge" /\ settled' = settled
        /\ IF scan.pick = Route!None
             THEN best' = Route!None /\ prev' = Route!None /\ dual' = FALSE
           ELSE UNCHANGED Route!routeVars
        /\ scan' = IF scan.pick \in {Route!None, best} \/ Route!Keeps(scan.pick)
                     THEN Route!NotScanning ELSE [scan EXCEPT !.at = "install"]
    BY <1>7 DEF Route!Judge, Route!WindowWithoutRoute
  <2>2. RouteOK'
    BY <2>1 DEF RouteIInv, RouteOK, Route!routeVars
  <2>5. ScanOK' /\ InstallsSome'
    BY <1>4, <2>1 DEF RouteIInv, ScanOK, InstallsSome, Route!NotScanning, Route!None
  <2>3. FoundBest'
    <3>1. \A d : (Eligible(d)' <=> Eligible(d)) /\ Route!Effective(d)' = Route!Effective(d)
      BY <1>1, SameEligible DEF Route!modeVars
    <3>2. scan'.at # "idle" => scan'.at = "install" /\ scan'.pick = scan.pick
      BY <2>1 DEF Route!NotScanning, RouteIInv, ScanOK
    <3> QED
      BY <2>1, <3>1, <3>2 DEF RouteIInv, FoundBest, BeenRead
  <2>4. Route!NearBest'
    <3> SUFFICES ASSUME scan'.at = "idle", settled PROVE Route!NearBest'
      BY <2>1 DEF Route!NearBest, Route!CandidateMuFree
    <3>1. scan.pick \in {Route!None, best} \/ Route!Keeps(scan.pick)
      BY <2>1 DEF RouteIInv, ScanOK
    <3> QED
      BY <1>1, <2>1, <3>1, EndsNearBest DEF Route!routeVars, Route!modeVars
  <2> QED
    BY <1>2, <1>3, <2>2, <2>3, <2>4, <2>5 DEF RouteIInv
<1>8. CASE Route!Install
  <2>1. /\ scan.at = "install" /\ best' = scan.pick /\ settled' = settled
        /\ scan' = Route!NotScanning
        /\ \/ prev' = best /\ best # Route!None /\ dual' = TRUE
           \/ UNCHANGED <<prev, dual>>
    BY <1>8 DEF Route!Install
  <2>2. ScanOK' /\ InstallsSome'
    BY <1>4, <2>1 DEF RouteIInv, ScanOK, InstallsSome, Route!NotScanning, Route!None
  <2>5. RouteOK'
    <3>1. scan.pick \in Route!Cands /\ scan.pick # Route!None
      BY <2>1 DEF RouteIInv, ScanOK, InstallsSome
    <3>2. RouteOK /\ best' = scan.pick
      BY <2>1 DEF RouteIInv
    <3>3. CASE prev' = best /\ best # Route!None /\ dual' = TRUE
      BY <3>1, <3>2, <3>3 DEF RouteOK
    <3>4. CASE UNCHANGED <<prev, dual>>
      BY <3>1, <3>2, <3>4 DEF RouteOK
    <3> QED
      BY <2>1, <3>3, <3>4
  <2>3. FoundBest'
    BY <2>1 DEF FoundBest, Route!NotScanning
  <2>4. Route!NearBest'
    <3> SUFFICES ASSUME settled PROVE Route!NearBest'
      BY <2>1 DEF Route!NearBest
    <3> QED
      BY <1>1, <2>1, EndsNearBest DEF RouteIInv, InstallsSome, Route!modeVars
  <2> QED
    BY <1>2, <1>3, <2>2, <2>3, <2>4, <2>5 DEF RouteIInv
<1> QED
  BY <1>5, <1>6, <1>7, <1>8

LEMMA RouteNext == RouteIInv /\ [Route!Next]_(Route!vars) => RouteIInv'
<1> SUFFICES ASSUME RouteIInv, [Route!Next]_(Route!vars) PROVE RouteIInv'
  OBVIOUS
<1>1. CASE UNCHANGED Route!vars
  <2>1. UNCHANGED <<Route!candVars, Route!modeVars, Route!routeVars, scan, settled,
                    game, sent, strict>>
    BY <1>1 DEF Route!vars, Route!gameVars
  <2>2. /\ CandOK' /\ ModeOK' /\ RouteOK' /\ ScanOK' /\ GameOK' /\ SentSoFar'
        /\ InstallsSome'
    BY <2>1 DEF RouteIInv, CandOK, ModeOK, RouteOK, ScanOK, GameOK, SentSoFar,
       InstallsSome,
                Route!candVars, Route!modeVars, Route!routeVars
  <2>3. \A c : (Eligible(c)' <=> Eligible(c)) /\ Route!Effective(c)' = Route!Effective(c)
               /\ (Route!Allowed(c)' <=> Route!Allowed(c))
    BY <2>1, SameEligible, SameAllowed DEF Route!candVars, Route!modeVars
  <2>4. FoundBest' /\ Route!GameSentRight'
    BY <2>1, <2>3 DEF RouteIInv, FoundBest, BeenRead, Route!GameSentRight
  <2>5. Route!NearBest'
    BY <2>1, <2>3 DEF RouteIInv, Route!NearBest, Eligible, Route!candVars,
       Route!routeVars, Route!CandidateMuFree
  <2> QED
    BY <2>2, <2>4, <2>5 DEF RouteIInv
<1>2. ASSUME NEW m \in Route!Modes, Route!StoreMode(m) PROVE RouteIInv'
  BY <1>2, StoreModeIInv
<1> QED
  BY <1>1, <1>2, AroundIInv, ReaderIInv, SelectIInv DEF Route!Next, Around

-----------------------------------------------------------------------------
(* A step of one part leaves the other's invariant alone.                  *)
BothIInv == IInv /\ RouteIInv

LEMMA BothInvariance == BothSpec => []BothIInv
<1>1. BothInit => BothIInv
  BY InitIInv, RouteInit DEF BothInit, BothIInv
<1>2. BothIInv /\ [BothNext]_allVars => BothIInv'
  <2> SUFFICES ASSUME BothIInv, [BothNext]_allVars PROVE BothIInv'
    OBVIOUS
  <2>1. UNCHANGED routeVars => UNCHANGED Route!vars
    BY DEF routeVars, Route!vars, Route!candVars, Route!routeVars,
       Route!modeVars, Route!gameVars
  <2>2. [Next]_vars /\ [Route!Next]_(Route!vars)
    BY <2>1 DEF BothNext, allVars
  <2> QED
    BY <2>2, NextIInv, RouteNext DEF BothIInv
<1> QED
  BY <1>1, <1>2, PTL DEF BothSpec

(* Whoever runs with a key shares it with all that do and with the file,   *)
(* and no part of a key is installed (secret.go:39-44, 108-113).           *)
THEOREM AllShareOneKey == BothSpec => []OneKey
<1>1. BothIInv => OneKey
  BY DEF BothIInv, IInv, OneKey, OnDisk, ReadIsCurrent, LoadedIsKey
<1> QED
  BY <1>1, BothInvariance, PTL

(* However switches follow one another, no path carries a datagram of the  *)
(* game twice, nor one the mode forbids (client.go:1353-1356).             *)
THEOREM SentOnceAndAllowed == BothSpec => []GameSentRight
<1>1. BothIInv => GameSentRight
  BY DEF BothIInv, RouteIInv, GameSentRight
<1> QED
  BY <1>1, BothInvariance, PTL

(* A selection nothing disturbed leaves a live, allowed route that no      *)
(* other is better than by the margins (client.go:1194-1277).              *)
THEOREM SelectionNearBest == BothSpec => []NearBest
<1>1. BothIInv => NearBest
  BY DEF BothIInv, RouteIInv, NearBest
<1> QED
  BY <1>1, BothInvariance, PTL

(* Every variable of the two parts keeps its type, and a window in which   *)
(* the game is sent twice has a route and a former one.                    *)
THEOREM BothTypeCorrect == BothSpec => []BothTypeOK
<1>1. BothIInv => BothTypeOK
  BY DEF BothIInv, IInv, RouteIInv, BothTypeOK, Route!TypeOK, CandOK, ModeOK,
     RouteOK,
         ScanOK, GameOK
<1> QED
  BY <1>1, BothInvariance, PTL
=============================================================================
