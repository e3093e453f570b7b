--------------------------- MODULE ServerSession ---------------------------
(***************************************************************************)
(* The life of one session on the server (pkg/server/server.go), from the  *)
(* handshake that created it to the end of every goroutine that holds it.  *)
(*                                                                         *)
(* Four kinds of goroutine touch it: the read loop, which handles one      *)
(* packet at a time in several critical sections; a reader per upstream    *)
(* socket, which carries the game server's replies back; the cleaner; and  *)
(* the caller of Stop.  Every action is one critical section, or one call  *)
(* on a socket.                                                            *)
(*                                                                         *)
(* Only packets that pass AEAD matter here (SecureSession models Open), so *)
(* a packet is its command and source: "ping", "punch" (a PunchInit with a *)
(* good target), "data" (a game packet) or "other".  Upstream sockets are  *)
(* numbered in the order they are dialled.                                 *)
(***************************************************************************)
EXTENDS Naturals, FiniteSets

CONSTANTS
  Addrs,       \* UDP sources
  Home,        \* the source of the handshake
  NoAddr,      \* nil
  MaxSockets   \* bound on the upstream sockets dialled

ASSUME ServerSessionAssumption ==
  Home \in Addrs /\ NoAddr \notin Addrs /\ MaxSockets \in Nat \ {0}

Cmds == {"ping", "punch", "data", "other"}
Packets == [cmd : Cmds, src : Addrs]
Sockets == 1..MaxSockets
NoPacket == [cmd |-> "none", src |-> NoAddr]

VARIABLES
  loop,        \* the read loop: where it is in handlePacket, or "exited"
  pkt,         \* the packet it handles
  present,     \* the session is in Server.sessions
  secureOpen,  \* ~secure.IsClosed()
  allowed,     \* allowedSenders
  returnPath,  \* rawSenderAddr
  window,      \* punchTarget # nil and punchExpiry lies ahead
  idle,        \* lastActive is more than 60 s ago
  upstream,    \* the published upstream socket, 0 for nil
  sockets,     \* state of each upstream socket
  reader,      \* state of the reader of each socket
  replyTo,     \* return path a reader has read for the reply it holds
  sessionMu,   \* who holds Server.sessionMu for writing
  purge,       \* how far its holder is in tearing the session down
  cleaner,     \* "running" or "exited"
  stop,        \* progress of Stop
  lastGame     \* history: source of the last game packet let through

loopVars == <<loop, pkt>>
sessionVars == <<present, secureOpen, allowed, returnPath, window, idle, lastGame>>
upstreamVars == <<upstream, sockets, reader, replyTo>>
purgeVars == <<sessionMu, purge, cleaner, stop>>
vars == <<loopVars, sessionVars, upstreamVars, purgeVars>>

stopping == stop # "none"                        \* Server.stopping
ctxDone == stop \notin {"none", "gate"}          \* cancelled, listener closed

TypeOK ==
  /\ loop \in {"idle", "read", "open", "authorize", "return", "forward", "exited"}
  /\ pkt \in Packets \cup {NoPacket}
  /\ pkt = NoPacket <=> loop \in {"idle", "read", "exited"}
  /\ present \in BOOLEAN /\ secureOpen \in BOOLEAN
  /\ window \in BOOLEAN /\ idle \in BOOLEAN
  /\ allowed \subseteq Addrs /\ returnPath \in Addrs /\ lastGame \in allowed
  /\ upstream \in {0} \cup {k \in Sockets : sockets[k] # "unused"}
  /\ sockets \in [Sockets -> {"unused", "open", "closed"}]
  /\ reader \in [Sockets -> {"none", "reading", "leaving", "exited"}]
  /\ \A k \in Sockets : reader[k] = "none" => sockets[k] # "open"
  /\ replyTo \in [Sockets -> Addrs \cup {NoAddr}]
  /\ sessionMu \in {"free", "loop", "cleaner", "stop"}
  /\ purge \in {"none", "upstream", "secure", "delete"}
  /\ purge = "none" <=> sessionMu = "free"
  /\ cleaner \in {"running", "exited"}
  /\ stop \in {"none", "gate", "cancelled", "purging", "wait", "stopped"}

Init ==
  /\ loop = "idle" /\ pkt = NoPacket
  /\ present = TRUE /\ secureOpen = TRUE /\ idle = FALSE /\ window = FALSE
  /\ allowed = {Home} /\ returnPath = Home /\ lastGame = Home
  /\ upstream = 0
  /\ sockets = [k \in Sockets |-> "unused"]
  /\ reader = [k \in Sockets |-> "none"]
  /\ replyTo = [k \in Sockets |-> NoAddr]
  /\ sessionMu = "free" /\ purge = "none" /\ cleaner = "running" /\ stop = "none"

-----------------------------------------------------------------------------
(* The read loop: handlePacket. *)

Return == loop' = "idle" /\ pkt' = NoPacket

(* A source is heard if it is authorized, if it pings (that is how a       *)
(* candidate joins a session), or while a migration window is open.        *)
MayPass(p) == p.src \in allowed \cup {returnPath} \/ p.cmd = "ping" \/ window

(* A datagram; the context may be done before it is handled. *)
ReadDatagram ==
  /\ loop = "idle" /\ ~ctxDone
  /\ loop' = "read"
  /\ UNCHANGED <<pkt, sessionVars, upstreamVars, purgeVars>>

(* It is no packet of a session in the table, or refused. *)
Discard ==
  /\ loop = "read" /\ sessionMu = "free"
  /\ Return
  /\ UNCHANGED <<sessionVars, upstreamVars, purgeVars>>

(* Looking the session up, under sessionMu, and the first check. *)
Receive(p) ==
  /\ loop = "read"
  /\ sessionMu = "free" /\ present
  /\ MayPass(p)
  /\ loop' = "open" /\ pkt' = p
  /\ UNCHANGED <<sessionVars, upstreamVars, purgeVars>>

OpenPacket ==
  /\ loop = "open"
  /\ IF secureOpen THEN loop' = "authorize" /\ UNCHANGED pkt ELSE Return
  /\ UNCHANGED <<sessionVars, upstreamVars, purgeVars>>

(* The second check, authorizeSessionSource and the dispatch.  Pings and   *)
(* other control packets are answered at their own source and leave the    *)
(* return path alone.                                                      *)
ReturnPathFollowsControl == pkt.src   \* mutant
ReturnPathAfterControl == returnPath

Authorize ==
  /\ loop = "authorize"
  /\ IF MayPass(pkt)
       THEN /\ allowed' = allowed \cup {pkt.src}
            /\ idle' = FALSE
            /\ returnPath' = ReturnPathAfterControl
            /\ window' = (window \/ pkt.cmd = "punch")
            /\ IF pkt.cmd = "data"
                 THEN loop' = "return" /\ lastGame' = pkt.src /\ UNCHANGED pkt
                 ELSE Return /\ UNCHANGED lastGame
       ELSE Return /\ UNCHANGED <<allowed, idle, returnPath, window, lastGame>>
  /\ UNCHANGED <<present, secureOpen, upstreamVars, purgeVars>>

(* Game data: setSessionReturnPath.  Data from the punched socket closes   *)
(* the migration window.                                                   *)
SetReturnPath ==
  /\ loop = "return"
  /\ returnPath' = pkt.src
  /\ allowed' = allowed \cup {pkt.src}
  /\ idle' = FALSE
  /\ window' \in {window, FALSE}
  /\ loop' = "forward"
  /\ UNCHANGED <<pkt, present, secureOpen, lastGame, upstreamVars, purgeVars>>

(* forwardToUpstream, under upstreamMu.  Without a socket it dials one and *)
(* starts its reader, unless Stop has closed the gate; the write may fail  *)
(* and then the socket is closed and forgotten.                            *)
Unused == {k \in Sockets : sockets[k] = "unused"}
MayStartTask == ~stopping
RefusedSocketLeftOpen == "open"   \* mutant
RefusedSocket == "closed"

Dial(k) ==
  /\ loop = "forward" /\ upstream = 0
  /\ k \in Unused /\ \A j \in Unused : k <= j
  /\ IF MayStartTask
       THEN /\ reader' = [reader EXCEPT ![k] = "reading"]
            /\ \/ upstream' = k /\ sockets' = [sockets EXCEPT ![k] = "open"]
               \/ upstream' = 0 /\ sockets' = [sockets EXCEPT ![k] = "closed"]
       ELSE /\ sockets' = [sockets EXCEPT ![k] = RefusedSocket]
            /\ UNCHANGED <<upstream, reader>>
  /\ Return
  /\ UNCHANGED <<replyTo, sessionVars, purgeVars>>

(* The address does not resolve or the socket cannot be made. *)
DialFails ==
  /\ loop = "forward" /\ upstream = 0
  /\ Return
  /\ UNCHANGED <<sessionVars, upstreamVars, purgeVars>>

Write ==
  /\ loop = "forward" /\ upstream # 0 /\ sockets[upstream] = "open"
  /\ Return
  /\ UNCHANGED <<sessionVars, upstreamVars, purgeVars>>

WriteFails ==
  /\ loop = "forward" /\ upstream # 0
  /\ sockets' = [sockets EXCEPT ![upstream] = "closed"]
  /\ upstream' = 0
  /\ Return
  /\ UNCHANGED <<reader, replyTo, sessionVars, purgeVars>>

(* The loop ends at its first read after the listener was closed. *)
LoopExits ==
  /\ loop = "idle" /\ ctxDone
  /\ loop' = "exited"
  /\ UNCHANGED <<pkt, sessionVars, upstreamVars, purgeVars>>

-----------------------------------------------------------------------------
(* readUpstreamLoop of socket k. *)

ReadReply(k) ==
  /\ reader[k] = "reading" /\ replyTo[k] = NoAddr
  /\ sockets[k] = "open"
  /\ replyTo' = [replyTo EXCEPT ![k] = returnPath]
  /\ UNCHANGED <<upstream, sockets, reader, loopVars, sessionVars, purgeVars>>

(* sendSessionPacket: nothing is sent once the session's keys are gone. *)
SendReply(k) ==
  /\ reader[k] = "reading" /\ replyTo[k] # NoAddr
  /\ replyTo' = [replyTo EXCEPT ![k] = NoAddr]
  /\ UNCHANGED <<upstream, sockets, reader, loopVars, sessionVars, purgeVars>>

(* A transient error (the game server is down) must not end the reader. *)
LeaveOnError == "leaving"   \* mutant
AfterReadError == "reading"

ReadError(k) ==
  /\ reader[k] = "reading" /\ replyTo[k] = NoAddr
  /\ sockets[k] = "open"
  /\ reader' = [reader EXCEPT ![k] = AfterReadError]
  /\ UNCHANGED <<upstream, sockets, replyTo, loopVars, sessionVars, purgeVars>>

LeavesIfClosed(k) == sockets[k] = "closed"   \* mutant: ignores the context
MustLeave(k) == sockets[k] = "closed" \/ ctxDone

SeeClosed(k) ==
  /\ reader[k] = "reading" /\ replyTo[k] = NoAddr
  /\ MustLeave(k)
  /\ reader' = [reader EXCEPT ![k] = "leaving"]
  /\ UNCHANGED <<upstream, sockets, replyTo, loopVars, sessionVars, purgeVars>>

(* On its way out it unpublishes its own socket only. *)
UnpublishAny(k) == 0   \* mutant: whatever socket is published
UpstreamAfter(k) == IF upstream = k THEN 0 ELSE upstream

Leave(k) ==
  /\ reader[k] = "leaving"
  /\ upstream' = UpstreamAfter(k)
  /\ reader' = [reader EXCEPT ![k] = "exited"]
  /\ UNCHANGED <<sockets, replyTo, loopVars, sessionVars, purgeVars>>

-----------------------------------------------------------------------------
(* Tearing the session down, under sessionMu: the upstream socket, the     *)
(* keys, the table entry.                                                  *)

StartPurge(who) ==
  /\ sessionMu = "free"
  /\ sessionMu' = who /\ purge' = "upstream"

(* cleanupSessionsLoop, which has read that the session is idle. *)
PurgeIdle ==
  /\ cleaner = "running" /\ present /\ idle
  /\ StartPurge("cleaner")
  /\ UNCHANGED <<loopVars, sessionVars, upstreamVars, cleaner, stop>>

(* evictOldestSessionLocked: the read loop handles a handshake that finds  *)
(* the table full and this session the longest inactive.                   *)
Evict ==
  /\ loop = "read" /\ present
  /\ StartPurge("loop")
  /\ UNCHANGED <<loopVars, sessionVars, upstreamVars, cleaner, stop>>

CloseUpstream ==
  /\ purge = "upstream"
  /\ sockets' = IF upstream # 0 THEN [sockets EXCEPT ![upstream] = "closed"] ELSE sockets
  /\ purge' = "secure"
  /\ UNCHANGED <<upstream, reader, replyTo, loopVars, sessionVars, sessionMu, cleaner, stop>>

CloseSecure ==
  /\ purge = "secure"
  /\ secureOpen' = FALSE
  /\ purge' = "delete"
  /\ UNCHANGED <<present, allowed, returnPath, window, idle, lastGame, loopVars,
                 upstreamVars, sessionMu, cleaner, stop>>

(* Stop leaves the sessions in the table. *)
EndPurge ==
  /\ purge = "delete"
  /\ present' = (present /\ sessionMu = "stop")
  /\ stop' = IF sessionMu = "stop" THEN "wait" ELSE stop
  /\ sessionMu' = "free" /\ purge' = "none"
  /\ UNCHANGED <<secureOpen, allowed, returnPath, window, idle, lastGame, loopVars,
                 upstreamVars, cleaner>>

CleanerExits ==
  /\ cleaner = "running" /\ ctxDone /\ sessionMu # "cleaner"
  /\ cleaner' = "exited"
  /\ UNCHANGED <<loopVars, sessionVars, upstreamVars, sessionMu, purge, stop>>

-----------------------------------------------------------------------------
(* Stop: close the gate for new goroutines, cancel, tear down, wait. *)

CloseGate ==
  /\ stop = "none" /\ stop' = "gate"
  /\ UNCHANGED <<loopVars, sessionVars, upstreamVars, sessionMu, purge, cleaner>>

Cancel ==
  /\ stop = "gate" /\ stop' = "cancelled"
  /\ UNCHANGED <<loopVars, sessionVars, upstreamVars, sessionMu, purge, cleaner>>

StopSession ==
  /\ stop = "cancelled"
  /\ IF present
       THEN StartPurge("stop") /\ stop' = "purging"
       ELSE sessionMu = "free" /\ stop' = "wait" /\ UNCHANGED <<sessionMu, purge>>
  /\ UNCHANGED <<loopVars, sessionVars, upstreamVars, cleaner>>

(* wg.Wait: every goroutine has ended. *)
Ended ==
  /\ loop = "exited" /\ cleaner = "exited"
  /\ \A k \in Sockets : reader[k] \in {"none", "exited"}

WaitReturns ==
  /\ stop = "wait" /\ Ended
  /\ stop' = "stopped"
  /\ UNCHANGED <<loopVars, sessionVars, upstreamVars, sessionMu, purge, cleaner>>

-----------------------------------------------------------------------------
(* Time: a minute without a valid packet; the end of the migration window. *)

BecomeIdle ==
  /\ ~idle /\ idle' = TRUE
  /\ UNCHANGED <<present, secureOpen, allowed, returnPath, window, lastGame,
                 loopVars, upstreamVars, purgeVars>>

WindowExpires ==
  /\ window /\ window' = FALSE
  /\ UNCHANGED <<present, secureOpen, allowed, returnPath, idle, lastGame,
                 loopVars, upstreamVars, purgeVars>>

Stopped == stop = "stopped" /\ UNCHANGED vars

LoopStep ==
  \/ Discard \/ OpenPacket \/ Authorize \/ SetReturnPath
  \/ \E k \in Sockets : Dial(k)
  \/ DialFails \/ Write \/ WriteFails \/ LoopExits

Purge == CloseUpstream \/ CloseSecure \/ EndPurge

Next ==
  \/ ReadDatagram \/ \E p \in Packets : Receive(p)
  \/ LoopStep
  \/ \E k \in Sockets :
       ReadReply(k) \/ SendReply(k) \/ ReadError(k) \/ SeeClosed(k) \/ Leave(k)
  \/ PurgeIdle \/ Evict \/ Purge \/ CleanerExits
  \/ CloseGate \/ Cancel \/ StopSession \/ WaitReturns
  \/ BecomeIdle \/ WindowExpires \/ Stopped

(* Goroutines that can run do run; no packet need ever arrive.  A reader   *)
(* looks at the context between any two reads, which time out after 1 s.   *)
Fairness ==
  /\ WF_vars(LoopStep) /\ WF_vars(Purge) /\ WF_vars(CleanerExits)
  /\ WF_vars(\E k \in Sockets : SendReply(k) \/ Leave(k))
  /\ SF_vars(\E k \in Sockets : SeeClosed(k))
  /\ SF_vars(Cancel \/ StopSession \/ WaitReturns)

Spec == Init /\ [][Next]_vars
FairSpec == Spec /\ Fairness

-----------------------------------------------------------------------------
OpenSockets == {k \in Sockets : sockets[k] = "open"}

(* The game server sees one source port for a session: whatever writers,   *)
(* readers and the cleaner do, two sockets are never open at once, and an  *)
(* open one is the published one while its server runs.                    *)
OneUpstream ==
  /\ Cardinality(OpenSockets) <= 1
  /\ ~ctxDone => OpenSockets \subseteq {upstream}

(* The session never loses the direction from the game server to the       *)
(* client (server.go:1344-1354): an open socket has its reader.            *)
UpstreamIsRead == ~ctxDone => \A k \in OpenSockets : reader[k] = "reading"

(* A reader addresses a reply to where the last game packet came from      *)
(* (before the first, to the handshake's source), whatever candidates have *)
(* sent control packets since (server.go:871-874, 1244-1246); only while   *)
(* the read loop is between letting a game packet through and taking its   *)
(* source over may it still be the source before.                          *)
RepliesFollowGame ==
  [][\A k \in Sockets :
       replyTo[k] = NoAddr /\ replyTo'[k] # NoAddr /\ loop # "return"
         => replyTo'[k] = lastGame]_vars

(* Stop returns. *)
StopReturns == stop = "gate" ~> stop = "stopped"

(* A purged session holds no upstream socket for ever (the purge closes    *)
(* the one it finds, server.go:1434-1445).                                 *)
PurgedHoldsNoSocket == ~present ~> OpenSockets = {}
=============================================================================
