----------------------------- MODULE Lifecycle -----------------------------
(***************************************************************************)
(* Starting and stopping the client (pkg/client/client.go, and the hole    *)
(* puncher of pkg/stun/holepunch.go): the goroutines and sockets it has,   *)
(* while Stop comes at any point.                                          *)
(*                                                                         *)
(* Start opens the game's socket and the configured candidates and starts  *)
(* the loops.  A candidate has a reader; a handshake response it reads may *)
(* bring an advertised candidate, an offer a punch candidate, which has a  *)
(* prober too.  The operator's goroutine may do the same by switching      *)
(* modes, and is not among those Stop waits for.  Tasks are registered     *)
(* under lifecycleMu, which refuses them once Stop has closed the gate.    *)
(***************************************************************************)
EXTENDS Naturals, FiniteSets

CONSTANTS
  Configured,  \* candidates of the configuration
  Advertised,  \* candidates a handshake response may bring
  Punches,     \* punch candidates that may be offered; none is made twice
  Nothing      \* no candidate

Cands == Configured \cup Advertised \cup Punches

Reader(c) == <<"reader", c>>
Prober(p) == <<"prober", p>>
Burst(p) == <<"burst", p>>
Diagnostic(p) == <<"diagnostic", p>>
Loops == <<"loops", Nothing>>             \* localReadLoop and pingProbeLoop
DetectLoop == <<"detectLoop", Nothing>>   \* detectNATLoop
Detect == <<"detect", Nothing>>           \* a detection Probe asked for

Operator == <<"operator", Nothing>>

Makers == {Operator} \cup {Reader(c) : c \in Cands} \cup {Prober(p) : p \in Punches}
Tasks ==
  {Loops, DetectLoop, Detect} \cup {Reader(c) : c \in Cands}
    \cup {Prober(p) : p \in Punches} \cup {Burst(p) : p \in Punches}
    \cup {Diagnostic(p) : p \in Punches}

VARIABLES
  start,      \* where Start is
  stop,       \* where Stop is
  localOpen,  \* the game's socket is open
  conn,       \* the candidates' sockets
  listed,     \* Client.candidates
  tasks,      \* the tasks registered in wg
  puncher,    \* the hole puncher's goroutine
  natDetecting,
  detecting,  \* the tasks that detect the NAT
  doing       \* what a task is at with a punch candidate, or the operator

netVars == <<localOpen, conn, listed>>
natVars == <<natDetecting, detecting>>
vars == <<start, stop, netVars, tasks, puncher, natVars, doing>>

Idle == [at |-> "idle", cand |-> Nothing]

TypeOK ==
  /\ start \in {"new", "candidates", "started"}
  /\ stop \in {"running", "gate", "cancelled", "puncher", "conns", "wait", "stopped"}
  /\ localOpen \in BOOLEAN
  /\ conn \in [Cands -> {"none", "open", "closed"}]
  /\ listed \subseteq Cands /\ tasks \subseteq Tasks
  /\ puncher \in {"none", "probing", "exited"}
  /\ detecting \subseteq tasks \cap {DetectLoop, Detect} /\ Cardinality(detecting) <= 1
  /\ natDetecting <=> detecting # {} \/ doing[Operator].at = "detect"
  /\ doing \in [Makers -> [at : {"idle", "append", "reader", "prober", "close", "remove",
                                 "detect"}, cand : Punches \cup {Nothing}]]

Init ==
  /\ start = "new" /\ stop = "running" /\ localOpen = FALSE
  /\ conn = [c \in Cands |-> "none"] /\ listed = {} /\ tasks = {}
  /\ puncher = "none" /\ natDetecting = FALSE /\ detecting = {}
  /\ doing = [m \in Makers |-> Idle]

stopping == stop # "running"
NeverDone == FALSE   \* mutant: Stop does not cancel
ctxDone == stop \notin {"running", "gate"}
stopChClosed == stop \notin {"running", "gate", "cancelled"}

-----------------------------------------------------------------------------
(* Start, which Stop waits for.  It fails if the socket is in use, or no   *)
(* address leads to a candidate, and may be called again.                  *)
Bind ==
  /\ start = "new" /\ ~stopping
  /\ start' = "candidates" /\ localOpen' = TRUE
  /\ UNCHANGED <<stop, conn, listed, tasks, puncher, natVars, doing>>

(* addCandidate, all of it under candidateMu: the socket, the entry and    *)
(* the reader, or nothing if startTask refuses.                            *)
AddCandidate(c) ==
  /\ conn[c] = "none"
  /\ IF stopping THEN conn' = [conn EXCEPT ![c] = "closed"] /\ UNCHANGED <<listed, tasks>>
     ELSE /\ conn' = [conn EXCEPT ![c] = "open"]
          /\ listed' = listed \cup {c} /\ tasks' = tasks \cup {Reader(c)}
  /\ UNCHANGED <<localOpen, puncher, natVars>>

AddConfigured(c) ==
  /\ start = "candidates" /\ AddCandidate(c) /\ UNCHANGED <<start, stop, doing>>

NoCandidates ==
  /\ start = "candidates" /\ listed = {}
  /\ start' = "new" /\ localOpen' = FALSE
  /\ UNCHANGED <<stop, conn, listed, tasks, puncher, natVars, doing>>

(* The loops, and the hole puncher unless punching is off.                 *)
StartLoops ==
  /\ start = "candidates" /\ listed # {} /\ start' = "started"
  /\ puncher' \in {"none", "probing"}
  /\ tasks' = tasks \cup {Loops, DetectLoop}
  /\ UNCHANGED <<stop, netVars, natVars, doing>>

-----------------------------------------------------------------------------
(* What makers do: a reader with an advertised candidate ...               *)
Alive(m) == m = Operator \/ m \in tasks
At(m, place) == Alive(m) /\ doing[m].at = place
Go(m, place) == doing' = [doing EXCEPT ![m].at = place]
Done(m) == doing' = [doing EXCEPT ![m] = Idle]

AddAdvertised(m, c) ==
  /\ At(m, "idle") /\ m[1] = "reader" /\ c \in Advertised
  /\ AddCandidate(c)
  /\ UNCHANGED <<start, stop, doing>>

(* ... or, as the operator, with a punch candidate, step by step: the      *)
(* socket; the entry, unless relay-only was switched to or the list is     *)
(* full; the reader; the prober.                                           *)
ListenPunch(m, p) ==
  /\ At(m, "idle") /\ conn[p] = "none"
  /\ m[1] = "reader" \/ (m = Operator /\ start = "started")
  /\ conn' = [conn EXCEPT ![p] = "open"]
  /\ doing' = [doing EXCEPT ![m] = [at |-> "append", cand |-> p]]
  /\ UNCHANGED <<start, stop, localOpen, listed, tasks, puncher, natVars>>

AppendPunch(m) ==
  /\ At(m, "append")
  /\ listed' = listed \cup {doing[m].cand}
  /\ Go(m, "reader")
  /\ UNCHANGED <<start, stop, localOpen, conn, tasks, puncher, natVars>>

AppendRefused(m) ==
  /\ At(m, "append")
  /\ conn' = [conn EXCEPT ![doing[m].cand] = "closed"]
  /\ Done(m)
  /\ UNCHANGED <<start, stop, localOpen, listed, tasks, puncher, natVars>>

RefusedLeaves == "idle"   \* mutant: leaves the candidate behind
RefusedRetires == "close"

StartPunchTask(m, place, task, then) ==
  /\ At(m, place)
  /\ IF stopping THEN Go(m, RefusedRetires) /\ UNCHANGED tasks
     ELSE /\ tasks' = tasks \cup {task}
          /\ IF then = "idle" THEN Done(m) ELSE Go(m, then)
  /\ UNCHANGED <<start, stop, netVars, puncher, natVars>>

StartPunchTasks(m) ==
  \/ StartPunchTask(m, "reader", Reader(doing[m].cand), "prober")
  \/ StartPunchTask(m, "prober", Prober(doing[m].cand), "idle")

(* retirePunchCandidate, by SetMode, by the prober that gives up, and when *)
(* a task is refused; whoever comes second finds it retired.               *)
Retire(m, p) ==
  /\ At(m, "idle") /\ m \in {Operator, Prober(p)} /\ p \in listed /\ conn[p] = "open"
  /\ doing' = [doing EXCEPT ![m] = [at |-> "close", cand |-> p]]
  /\ UNCHANGED <<start, stop, netVars, tasks, puncher, natVars>>

ClosePunch(m) ==
  /\ At(m, "close")
  /\ conn' = [conn EXCEPT ![doing[m].cand] = "closed"]
  /\ Go(m, "remove")
  /\ UNCHANGED <<start, stop, localOpen, listed, tasks, puncher, natVars>>

RemovePunch(m) ==
  /\ At(m, "remove")
  /\ listed' = listed \ {doing[m].cand}
  /\ Done(m)
  /\ UNCHANGED <<start, stop, localOpen, conn, tasks, puncher, natVars>>

Proceed(m) ==
  \/ AppendPunch(m) \/ AppendRefused(m) \/ StartPunchTasks(m)
  \/ ClosePunch(m) \/ RemovePunch(m)

-----------------------------------------------------------------------------
(* Tasks.  A prober starts a burst once it knows its endpoint, and before  *)
(* it returns, its path confirmed, a task that reports on it; if either is *)
(* refused, it returns.                                                    *)
StartFromProber(p) ==
  /\ At(Prober(p), "idle") /\ ~stopping
  /\ \E t \in {Burst(p), Diagnostic(p)} : tasks' = tasks \cup {t}
  /\ UNCHANGED <<start, stop, netVars, puncher, natVars, doing>>

(* NAT detection is one at a time, whoever asks for it.                    *)
DetectFromStart ==
  /\ DetectLoop \in tasks /\ ~natDetecting
  /\ natDetecting' = TRUE /\ detecting' = {DetectLoop}
  /\ UNCHANGED <<start, stop, netVars, tasks, puncher, doing>>

ScheduleNATDetection ==
  /\ At(Operator, "idle") /\ start = "started" /\ ~natDetecting
  /\ natDetecting' = TRUE /\ Go(Operator, "detect")
  /\ UNCHANGED <<start, stop, netVars, tasks, puncher, detecting>>

AfterRefusalStays == TRUE   \* mutant: the flag is not taken back
AfterRefusal == FALSE

StartDetection ==
  /\ At(Operator, "detect") /\ Done(Operator)
  /\ IF stopping THEN natDetecting' = AfterRefusal /\ UNCHANGED <<tasks, detecting>>
     ELSE tasks' = tasks \cup {Detect} /\ detecting' = {Detect} /\ UNCHANGED natDetecting
  /\ UNCHANGED <<start, stop, netVars, puncher>>

(* The loops and a reader end when ctx is done, a reader also when its     *)
(* socket is closed; the others after a bounded number of rounds.          *)
MayEnd(t) ==
  CASE t = Loops       -> ctxDone
    [] t[1] = "reader" -> ctxDone \/ conn[t[2]] = "closed"
    [] OTHER           -> TRUE

Finish(t) ==
  /\ t \in tasks /\ (t \in Makers => doing[t] = Idle) /\ MayEnd(t)
  /\ tasks' = tasks \ {t} /\ detecting' = detecting \ {t}
  /\ natDetecting' = (natDetecting /\ t \notin detecting)
  /\ UNCHANGED <<start, stop, netVars, puncher, doing>>

PuncherEnds ==
  /\ puncher = "probing" /\ stopChClosed /\ puncher' = "exited"
  /\ UNCHANGED <<start, stop, netVars, tasks, natVars, doing>>

-----------------------------------------------------------------------------
(* Stop: close the gate, cancel, stop the puncher and wait for it, close   *)
(* the game's socket, close the candidates' under candidateMu, wait for    *)
(* the tasks, and wipe the keys.                                           *)
CloseGate ==
  /\ stop = "running" /\ start \in {"new", "started"} /\ stop' = "gate"
  /\ UNCHANGED <<start, netVars, tasks, puncher, natVars, doing>>

Cancel ==
  /\ stop = "gate" /\ stop' = "cancelled"
  /\ UNCHANGED <<start, netVars, tasks, puncher, natVars, doing>>

StopPuncher ==
  /\ stop = "cancelled" /\ stop' = "puncher"
  /\ UNCHANGED <<start, netVars, tasks, puncher, natVars, doing>>

CloseLocal ==
  /\ stop = "puncher" /\ puncher # "probing"
  /\ stop' = "conns" /\ localOpen' = FALSE
  /\ UNCHANGED <<start, conn, listed, tasks, puncher, natVars, doing>>

CloseConns ==
  /\ stop = "conns" /\ stop' = "wait"
  /\ conn' = [c \in Cands |-> IF c \in listed THEN "closed" ELSE conn[c]]
  /\ UNCHANGED <<start, localOpen, listed, tasks, puncher, natVars, doing>>

WaitAndWipe ==
  /\ stop = "wait" /\ tasks = {} /\ stop' = "stopped"
  /\ UNCHANGED <<start, netVars, tasks, puncher, natVars, doing>>

Stop == CloseGate \/ Cancel \/ StopPuncher \/ CloseLocal \/ CloseConns \/ WaitAndWipe

Stopped == stop = "stopped" /\ doing[Operator] = Idle /\ UNCHANGED vars

Next ==
  \/ Bind \/ NoCandidates \/ StartLoops
  \/ \E c \in Configured : AddConfigured(c)
  \/ \E m \in Makers :
       \/ Proceed(m)
       \/ \E c \in Advertised : AddAdvertised(m, c)
       \/ \E p \in Punches : ListenPunch(m, p) \/ Retire(m, p)
  \/ \E p \in Punches : StartFromProber(p)
  \/ DetectFromStart \/ ScheduleNATDetection \/ StartDetection
  \/ \E t \in Tasks : Finish(t)
  \/ PuncherEnds \/ Stop \/ Stopped

(* Once Stop has closed the gate, some goroutine that can run does: the    *)
(* weakest fairness there is, since what is left to do is bounded.         *)
Progress ==
  \/ \E m \in Makers : Proceed(m)
  \/ \E t \in Tasks : Finish(t)
  \/ PuncherEnds \/ Stop

Fairness == WF_vars(stopping /\ Progress)

Spec == Init /\ [][Next]_vars
FairSpec == Spec /\ Fairness

-----------------------------------------------------------------------------
(* Every open socket of a candidate has a reader, or someone who is about  *)
(* to start one or to close it, which is Stop until it has closed those    *)
(* listed.                                                                 *)
SocketsServed ==
  \A c \in Cands : conn[c] = "open" =>
    \/ Reader(c) \in tasks
    \/ \E m \in Makers : Alive(m) /\ doing[m].cand = c
    \/ c \in listed /\ stop \in {"cancelled", "puncher", "conns"}

(* Once Stop wipes the keys no task and no probe is left to use them, and  *)
(* of the sockets at most the one the operator's goroutine is about to     *)
(* close is open (client.go:223-225, 1953-1970, holepunch.go:124-127).     *)
NothingRemains ==
  stop = "stopped" =>
    /\ tasks = {} /\ puncher # "probing" /\ ~localOpen
    /\ \A c \in Cands : conn[c] = "open" => doing[Operator].cand = c

(* No socket and no task is ever forgotten, at Stop least of all.          *)
StopLeavesNothing == SocketsServed /\ NothingRemains

(* Stop returns, whatever was being created when it began. *)
StopReturns == stopping ~> stop = "stopped"
=============================================================================
