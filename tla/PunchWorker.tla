---------------------------- MODULE PunchWorker ----------------------------
(***************************************************************************)
(* The server's hole punching for one session (pkg/server/server.go).      *)
(*                                                                         *)
(* A client sends PunchInit with the public endpoint of its punch socket,  *)
(* and sends it again when that endpoint changes.  The read loop, handler  *)
(* below, stores it as the session's punchTarget and sees to it that one   *)
(* worker goroutine (punchProbeLoop) probes it: a burst at once, and a     *)
(* probe a second while the migration window is open.  Handler and worker  *)
(* meet in the flag punchWorker, guarded by the session's mu, and in the   *)
(* one-slot channel punchWake.  The window closes after 30 s or when game  *)
(* data arrives from the target; the session may be closed and the server  *)
(* be stopped at any point.                                                *)
(***************************************************************************)
EXTENDS Naturals, FiniteSets

CONSTANTS
  Targets,   \* endpoints a client asks to be probed
  NoTarget,
  Workers,   \* goroutines that may run punchProbeLoop
  Burst,     \* probes in a burst (5 in the code)
  MaxInits   \* bound on the PunchInit packets of a client

ASSUME PunchWorkerAssumption ==
  /\ NoTarget \notin Targets
  /\ Burst \in Nat \ {0} /\ MaxInits \in Nat

VARIABLES
  handler,     \* where the read loop is in CmdPunchInit
  startWorker, \* its local variable
  inits,       \* PunchInit packets handled
  punchTarget, expired, punchWorker,
  wake,        \* punchWake holds a token
  closed,      \* the session's keys were closed
  stopping, ctxDone,
  worker,      \* where each worker is
  left,        \* probes left of its burst
  target,      \* its copy of the target
  probed       \* history: a burst has reached the target of the last PunchInit

sessVars == <<punchTarget, expired, punchWorker, wake>>
handlerVars == <<handler, startWorker, inits>>
endVars == <<closed, stopping, ctxDone>>
workerVars == <<worker, left, target>>
vars == <<handlerVars, sessVars, endVars, workerVars, probed>>

Running == {k \in Workers : worker[k] # "none"}

TypeOK ==
  /\ handler \in {"idle", "opened", "signal", "start"}
  /\ startWorker \in BOOLEAN /\ (startWorker => handler \in {"signal", "start"})
  /\ inits \in 0..MaxInits
  /\ punchTarget \in Targets \cup {NoTarget}
  /\ expired \in BOOLEAN /\ wake \in BOOLEAN
  /\ punchWorker <=> startWorker \/ Running # {}
  /\ closed \in BOOLEAN /\ stopping \in BOOLEAN
  /\ ctxDone \in BOOLEAN /\ (ctxDone => stopping)
  /\ worker \in [Workers -> {"none", "select", "burst", "sendBurst", "sendTick"}]
  /\ left \in [Workers -> 0..Burst]
  /\ \A k \in Workers : left[k] # 0 <=> worker[k] \in {"burst", "sendBurst"}
  /\ target \in [Workers -> Targets \cup {NoTarget}]
  /\ \A k \in Workers : target[k] # NoTarget <=> worker[k] \in {"sendBurst", "sendTick"}
  /\ probed \in BOOLEAN

Init ==
  /\ handler = "idle" /\ startWorker = FALSE /\ inits = 0
  /\ punchTarget = NoTarget /\ expired = TRUE
  /\ punchWorker = FALSE /\ wake = FALSE
  /\ closed = FALSE /\ stopping = FALSE /\ ctxDone = FALSE
  /\ worker = [k \in Workers |-> "none"]
  /\ left = [k \in Workers |-> 0]
  /\ target = [k \in Workers |-> NoTarget]
  /\ probed = FALSE

-----------------------------------------------------------------------------
(* The read loop opens the packet, which a closed session does not ...     *)
Open ==
  /\ handler = "idle" /\ ~closed /\ ~ctxDone /\ inits < MaxInits
  /\ handler' = "opened" /\ inits' = inits + 1
  /\ UNCHANGED <<startWorker, sessVars, endVars, workerVars, probed>>

(* ... publishes the target under mu ...                                   *)
NeedsWorkerAlways == TRUE   \* mutant: a worker per PunchInit
NeedsWorker == ~punchWorker

FlagAsStarted == NeedsWorker   \* mutant: the flag copies startWorker
FlagAfterInit == TRUE

PunchInit(t) ==
  /\ handler = "opened"
  /\ punchTarget' = t /\ expired' = FALSE /\ probed' = FALSE
  /\ startWorker' = NeedsWorker
  /\ punchWorker' = FlagAfterInit
  /\ handler' = "signal"
  /\ UNCHANGED <<inits, wake, endVars, workerVars>>

(* ... signals the worker without waiting for it ...                       *)
SignalIfReceived ==   \* mutant: a channel without a buffer
  wake' = (\E k \in Workers : worker[k] = "select")
SignalOnce == wake' = TRUE

Signal ==
  /\ handler = "signal"
  /\ SignalOnce
  /\ handler' = "start"
  /\ UNCHANGED <<startWorker, inits, punchTarget, expired, punchWorker, endVars,
                 workerVars, probed>>

(* ... and starts one if there was none; startTask refuses during Stop.    *)
Start ==
  /\ handler = "start" /\ startWorker /\ ~stopping
  /\ handler' = "idle" /\ startWorker' = FALSE
  /\ \E k \in Workers \ Running : worker' = [worker EXCEPT ![k] = "select"]
  /\ UNCHANGED <<inits, sessVars, endVars, left, target, probed>>

StartRefused ==
  /\ handler = "start" /\ startWorker /\ stopping
  /\ handler' = "idle" /\ startWorker' = FALSE
  /\ punchWorker' = FALSE
  /\ UNCHANGED <<inits, punchTarget, expired, wake, endVars, workerVars, probed>>

NoStart ==
  /\ handler = "start" /\ ~startWorker
  /\ handler' = "idle"
  /\ UNCHANGED <<startWorker, inits, sessVars, endVars, workerVars, probed>>

-----------------------------------------------------------------------------
(* The worker. *)
Active == punchTarget # NoTarget /\ ~expired /\ ~closed

(* It leaves and clears the flag in one critical section of mu.            *)
Exit(k) ==
  /\ worker' = [worker EXCEPT ![k] = "none"]
  /\ punchWorker' = FALSE
  /\ UNCHANGED <<handlerVars, punchTarget, expired, wake, endVars, left, target, probed>>

SeesDone(k) == worker[k] = "select" /\ ctxDone /\ Exit(k)

ActiveIfOpen == punchTarget # NoTarget /\ ~expired   \* mutant: keys not looked at
TickActive == Active

TickInactive(k) == worker[k] = "select" /\ ~TickActive /\ Exit(k)

Tick(k) ==
  /\ worker[k] = "select" /\ TickActive
  /\ worker' = [worker EXCEPT ![k] = "sendTick"]
  /\ target' = [target EXCEPT ![k] = punchTarget]
  /\ UNCHANGED <<handlerVars, sessVars, endVars, left, probed>>

TickSend(k) ==
  /\ worker[k] = "sendTick"
  /\ worker' = [worker EXCEPT ![k] = "select"]
  /\ target' = [target EXCEPT ![k] = NoTarget]
  /\ UNCHANGED <<handlerVars, sessVars, endVars, left, probed>>

Woken(k) ==
  /\ worker[k] = "select" /\ wake
  /\ wake' = FALSE
  /\ worker' = [worker EXCEPT ![k] = "burst"]
  /\ left' = [left EXCEPT ![k] = Burst]
  /\ UNCHANGED <<handlerVars, punchTarget, expired, punchWorker, endVars, target, probed>>

(* sendCurrentPunchBurst copies the target anew before each probe.         *)
BurstCopy(k) ==
  /\ worker[k] = "burst" /\ Active
  /\ worker' = [worker EXCEPT ![k] = "sendBurst"]
  /\ target' = [target EXCEPT ![k] = punchTarget]
  /\ UNCHANGED <<handlerVars, sessVars, endVars, left, probed>>

(* It ends once nothing is active, or between two probes once ctx is done. *)
BurstEnds(k) ==
  /\ worker[k] = "burst"
  /\ ~Active \/ (ctxDone /\ left[k] < Burst)
  /\ worker' = [worker EXCEPT ![k] = "select"]
  /\ left' = [left EXCEPT ![k] = 0]
  /\ UNCHANGED <<handlerVars, sessVars, endVars, target, probed>>

BurstSend(k) ==
  /\ worker[k] = "sendBurst"
  /\ left' = [left EXCEPT ![k] = @ - 1]
  /\ worker' = [worker EXCEPT ![k] = IF left'[k] = 0 THEN "select" ELSE "burst"]
  /\ target' = [target EXCEPT ![k] = NoTarget]
  /\ probed' = (probed \/ target[k] = punchTarget)
  /\ UNCHANGED <<handlerVars, sessVars, endVars>>

-----------------------------------------------------------------------------
(* The window closes: 30 s have passed, or, read by the same loop, data    *)
(* came from the target.                                                   *)
WindowCloses ==
  /\ ~expired
  /\ expired' = TRUE
  /\ UNCHANGED <<handlerVars, punchTarget, punchWorker, wake, endVars, workerVars, probed>>

CloseSession ==
  /\ ~closed
  /\ closed' = TRUE
  /\ UNCHANGED <<handlerVars, sessVars, stopping, ctxDone, workerVars, probed>>

(* Stop: refuse tasks, then cancel the context. *)
CloseGate ==
  /\ ~stopping
  /\ stopping' = TRUE
  /\ UNCHANGED <<handlerVars, sessVars, closed, ctxDone, workerVars, probed>>

Cancel ==
  /\ stopping /\ ~ctxDone
  /\ ctxDone' = TRUE
  /\ UNCHANGED <<handlerVars, sessVars, closed, stopping, workerVars, probed>>

Ended == ctxDone /\ closed /\ Running = {} /\ handler = "idle" /\ UNCHANGED vars

Handle == (\E t \in Targets : PunchInit(t)) \/ Signal \/ Start \/ StartRefused \/ NoStart
Work(k) ==
  \/ SeesDone(k) \/ TickInactive(k) \/ Tick(k) \/ TickSend(k)
  \/ Woken(k) \/ BurstCopy(k) \/ BurstEnds(k) \/ BurstSend(k)

Next ==
  \/ Open \/ Handle
  \/ \E k \in Workers : Work(k)
  \/ WindowCloses \/ CloseSession \/ CloseGate \/ Cancel \/ Ended

(* Goroutines run; among the ready branches of a select Go chooses at      *)
(* random, so that none that stays ready is passed over for ever.          *)
Fairness ==
  /\ WF_vars(Handle) /\ WF_vars(Cancel)
  /\ \A k \in Workers : WF_vars(Work(k)) /\ SF_vars(Woken(k)) /\ SF_vars(SeesDone(k))

Spec == Init /\ [][Next]_vars
FairSpec == Spec /\ Fairness

-----------------------------------------------------------------------------
(* However PunchInit packets, the worker's exit and Stop interleave, a     *)
(* session has at most one worker (server.go:911-915).                     *)
OneWorker == Cardinality(Running) <= 1

(* No PunchInit is lost to a worker that is about to exit or is busy with  *)
(* a burst (server.go:785-787): its target gets a burst of its own, unless *)
(* the window closes or the session ends first.                            *)
Probed == Active /\ ~probed ~> probed \/ ~Active \/ ctxDone

(* A worker outlives neither its session nor Stop, which waits for it,     *)
(* whether or not the window closes.                                       *)
WorkersEnd == closed \/ ctxDone ~> [](Running = {})
=============================================================================
