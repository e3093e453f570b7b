------------------------- MODULE ServerSessionProofs -------------------------
(***************************************************************************)
(* Proofs about ServerSession: for any sources and any number of upstream  *)
(* sockets dialled, a session has one source port towards the game server, *)
(* an open socket has its reader, and replies follow the last game data.   *)
(*                                                                         *)
(* None of the three is inductive.  A reader on its way out unpublishes    *)
(* its socket in a later step, so IInv says that it leaves a closed one,   *)
(* or that the server stops; a reply is addressed to the return path, which *)
(* is the source of the last game packet except between two steps of the   *)
(* read loop, and in between the packet it handles has that source; and    *)
(* after the context is done an open socket need not be published any      *)
(* more, so that there is only one of them must hold by itself.            *)
(***************************************************************************)
EXTENDS ServerSession, FiniteSetTheorems, TLAPS

Published == ~ctxDone => \A k \in Sockets : sockets[k] = "open" => k = upstream
OneOpen == \A j, k \in Sockets : sockets[j] = "open" /\ sockets[k] = "open" => j = k
LeavesClosed ==
  ~ctxDone => \A k \in Sockets : reader[k] = "leaving" => sockets[k] = "closed"
Read == ~ctxDone => \A k \in Sockets : sockets[k] = "open" => reader[k] = "reading"
PathFollowsGame ==
  /\ loop # "return" => returnPath = lastGame
  /\ loop = "return" => pkt.src = lastGame

(* TypeOK by the variables that change together. *)
LoopOK ==
  /\ loop \in {"idle", "read", "open", "authorize", "return", "forward", "exited"}
  /\ pkt \in Packets \cup {NoPacket}
  /\ pkt = NoPacket <=> loop \in {"idle", "read", "exited"}
FlagsOK ==
  /\ present \in BOOLEAN /\ secureOpen \in BOOLEAN
  /\ window \in BOOLEAN /\ idle \in BOOLEAN
SourcesOK == allowed \subseteq Addrs /\ returnPath \in Addrs /\ lastGame \in allowed
UpstreamOK ==
  /\ upstream \in {0} \cup {k \in Sockets : sockets[k] # "unused"}
  /\ sockets \in [Sockets -> {"unused", "open", "closed"}]
  /\ reader \in [Sockets -> {"none", "reading", "leaving", "exited"}]
  /\ \A k \in Sockets : reader[k] = "none" => sockets[k] # "open"
  /\ replyTo \in [Sockets -> Addrs \cup {NoAddr}]
PurgeOK ==
  /\ sessionMu \in {"free", "loop", "cleaner", "stop"}
  /\ purge \in {"none", "upstream", "secure", "delete"}
  /\ purge = "none" <=> sessionMu = "free"
  /\ cleaner \in {"running", "exited"}
  /\ stop \in {"none", "gate", "cancelled", "purging", "wait", "stopped"}

IInv ==
  TypeOK /\ Published /\ OneOpen /\ LeavesClosed /\ Read /\ PathFollowsGame

(* What IInv says of sockets and readers. *)
SocketInv == Published /\ OneOpen /\ LeavesClosed /\ Read

(* TypeOK is the conjunction of its parts. *)
LEMMA TypeParts == TypeOK <=> LoopOK /\ FlagsOK /\ SourcesOK /\ UpstreamOK /\ PurgeOK
BY Zenon DEF TypeOK, LoopOK, FlagsOK, SourcesOK, UpstreamOK, PurgeOK

(* The initial state satisfies the inductive invariant. *)
LEMMA InitIInv == Init => IInv
<1> SUFFICES ASSUME Init PROVE IInv
  OBVIOUS
<1>1. TypeOK
  BY ServerSessionAssumption DEF Init, TypeOK, NoPacket
<1>2. Published /\ OneOpen /\ LeavesClosed /\ Read
  BY DEF Init, Published, OneOpen, LeavesClosed, Read
<1>3. PathFollowsGame
  BY DEF Init, PathFollowsGame
<1> QED
  BY <1>1, <1>2, <1>3 DEF IInv

(* The read loop's handling of a packet preserves it, short of forwarding. *)
LEMMA HandleIInv ==
  ASSUME IInv,
         \/ ReadDatagram \/ Discard \/ (\E p \in Packets : Receive(p))
         \/ OpenPacket \/ Authorize \/ SetReturnPath \/ LoopExits
  PROVE  IInv'
<1> USE DEF IInv, upstreamVars, purgeVars
<1>1. TypeOK'
  <2> USE DEF LoopOK, FlagsOK, SourcesOK, Return
  <2>1. LoopOK /\ FlagsOK /\ SourcesOK /\ UpstreamOK /\ PurgeOK
    BY TypeParts
  <2>2. UNCHANGED <<upstreamVars, purgeVars>>
    BY DEF ReadDatagram, Discard, Receive, OpenPacket, Authorize, SetReturnPath, LoopExits
  <2>3. UpstreamOK' /\ PurgeOK'
    BY <2>1, <2>2 DEF UpstreamOK, PurgeOK
  <2>4. loop \notin {"idle", "read", "exited"} => pkt \in Packets /\ pkt.src \in Addrs
    BY <2>1 DEF Packets
  <2>5. CASE \E p \in Packets : Receive(p)
    <3>1. \A p \in Packets : p # NoPacket
      BY DEF Packets, NoPacket, Cmds
    <3>2. LoopOK'
      BY <2>5, <3>1 DEF Receive
    <3>3. FlagsOK' /\ SourcesOK'
      BY <2>1, <2>5 DEF Receive, sessionVars
    <3> QED
      BY <2>3, <3>2, <3>3, TypeParts, PTL
  <2>6. CASE OpenPacket
    <3>1. LoopOK' /\ UNCHANGED sessionVars
      BY <2>1, <2>6 DEF OpenPacket
    <3>2. FlagsOK' /\ SourcesOK'
      BY <2>1, <3>1 DEF sessionVars
    <3> QED
      BY <2>3, <3>1, <3>2, TypeParts, PTL
  <2>7. CASE Authorize
    <3>1. LoopOK'
      BY <2>1, <2>7 DEF Authorize
    <3>2. window' \in BOOLEAN /\ idle' \in BOOLEAN
      <4>1. CASE MayPass(pkt)
        BY <2>7, <4>1, Zenon DEF Authorize
      <4>2. CASE ~MayPass(pkt)
        BY <2>1, <2>7, <4>2 DEF Authorize
      <4> QED
        BY <4>1, <4>2
    <3>3. FlagsOK'
      BY <2>1, <2>7, <3>2 DEF Authorize
    <3>4. SourcesOK'
      BY <2>1, <2>4, <2>7 DEF Authorize, ReturnPathAfterControl
    <3> QED
      BY <2>3, <3>1, <3>3, <3>4, TypeParts, PTL
  <2>8. CASE SetReturnPath
    <3>1. LoopOK'
      BY <2>1, <2>8 DEF SetReturnPath
    <3>2. FlagsOK'
      BY <2>1, <2>8 DEF SetReturnPath
    <3>3. SourcesOK'
      BY <2>1, <2>4, <2>8 DEF SetReturnPath
    <3> QED
      BY <2>3, <3>1, <3>2, <3>3, TypeParts, PTL
  <2>9. CASE ReadDatagram \/ Discard \/ LoopExits
    <3>1. LoopOK' /\ UNCHANGED sessionVars
      BY <2>1, <2>9 DEF ReadDatagram, Discard, LoopExits
    <3>2. FlagsOK' /\ SourcesOK'
      BY <2>1, <3>1 DEF sessionVars
    <3> QED
      BY <2>3, <3>1, <3>2, TypeParts, PTL
  <2> QED
    BY <2>5, <2>6, <2>7, <2>8, <2>9
<1>2. UNCHANGED <<upstreamVars, stop>>
  BY DEF ReadDatagram, Discard, Receive, OpenPacket, Authorize, SetReturnPath, LoopExits
<1>3. (Published /\ OneOpen /\ LeavesClosed /\ Read)'
  BY <1>2 DEF Published, OneOpen, LeavesClosed, Read, ctxDone
<1>4. PathFollowsGame'
  <2>1. CASE ReadDatagram \/ Discard \/ (\E p \in Packets : Receive(p)) \/ OpenPacket \/ LoopExits
    <3>1. loop # "return" /\ loop' # "return" /\ UNCHANGED <<returnPath, lastGame>>
      BY <2>1 DEF ReadDatagram, Discard, Receive, OpenPacket, LoopExits, Return, sessionVars
    <3> QED
      BY <3>1 DEF PathFollowsGame
  <2>2. CASE Authorize
    BY <2>2 DEF Authorize, Return, PathFollowsGame, ReturnPathAfterControl
  <2>3. CASE SetReturnPath
    BY <2>3 DEF SetReturnPath, PathFollowsGame
  <2> QED
    BY <2>1, <2>2, <2>3
<1> QED
  BY <1>1, <1>3, <1>4

(* Forwarding to the game server preserves it: a socket is dialled only    *)
(* when none is published, and so none is open, and not any more once Stop *)
(* has begun.                                                              *)
LEMMA ForwardIInv ==
  ASSUME IInv, (\E k \in Sockets : Dial(k)) \/ DialFails \/ Write \/ WriteFails
  PROVE  IInv'
<1> USE DEF IInv
<1>1. UNCHANGED <<replyTo, sessionVars, purgeVars>>
  BY DEF Dial, DialFails, Write, WriteFails, upstreamVars
<1>2. PathFollowsGame'
  BY <1>1 DEF PathFollowsGame, sessionVars, Dial, DialFails, Write, WriteFails, Return
<1>3. ASSUME NEW k \in Sockets, Dial(k) PROVE IInv'
  <2>1. loop' = "idle" /\ pkt' = NoPacket
    BY <1>3 DEF Dial, Return
  <2>2. CASE ~stopping
    <3>1. sockets[k] = "unused" /\ \A j \in Sockets : sockets[j] # "open"
      BY <1>3, <2>2 DEF Dial, Unused, Published, ctxDone, stopping, Sockets
    <3>2. /\ reader' = [reader EXCEPT ![k] = "reading"]
          /\ \/ upstream' = k /\ sockets' = [sockets EXCEPT ![k] = "open"]
             \/ upstream' = 0 /\ sockets' = [sockets EXCEPT ![k] = "closed"]
      BY <1>3, <2>2 DEF Dial, MayStartTask
    <3>3. TypeOK'
      BY <1>1, <2>1, <3>1, <3>2 DEF TypeOK, sessionVars, purgeVars
    <3>4. SocketInv'
      BY <1>1, <3>1, <3>2 DEF TypeOK, SocketInv, Published, OneOpen, LeavesClosed, Read,
                              ctxDone, purgeVars
    <3> QED
      BY <1>2, <3>3, <3>4 DEF SocketInv
  <2>3. CASE stopping
    <3>1. /\ sockets' = [sockets EXCEPT ![k] = "closed"]
          /\ UNCHANGED <<upstream, reader>>
      BY <1>3, <2>3 DEF Dial, MayStartTask, RefusedSocket
    <3>2. TypeOK'
      BY <1>1, <2>1, <3>1 DEF TypeOK, sessionVars, purgeVars
    <3>3. SocketInv'
      BY <1>1, <3>1 DEF TypeOK, SocketInv, Published, OneOpen, LeavesClosed, Read,
                        ctxDone, purgeVars
    <3> QED
      BY <1>2, <3>2, <3>3 DEF SocketInv
  <2> QED
    BY <2>2, <2>3
<1>4. CASE DialFails \/ Write
  <2>1. loop' = "idle" /\ pkt' = NoPacket /\ UNCHANGED upstreamVars
    BY <1>4 DEF DialFails, Write, Return
  <2>2. TypeOK'
    BY <1>1, <2>1 DEF TypeOK, sessionVars, upstreamVars, purgeVars
  <2>3. SocketInv'
    BY <1>1, <2>1 DEF SocketInv, Published, OneOpen, LeavesClosed, Read, ctxDone,
                      upstreamVars, purgeVars
  <2> QED
    BY <1>2, <2>2, <2>3 DEF SocketInv
<1>5. CASE WriteFails
  <2>1. /\ loop' = "idle" /\ pkt' = NoPacket
        /\ sockets' = [sockets EXCEPT ![upstream] = "closed"]
        /\ upstream' = 0 /\ UNCHANGED reader
    BY <1>5 DEF WriteFails, Return
  <2>2. TypeOK'
    BY <1>1, <2>1 DEF TypeOK, sessionVars, purgeVars
  <2>3. SocketInv'
    BY <1>1, <2>1 DEF TypeOK, SocketInv, Published, OneOpen, LeavesClosed, Read,
                      ctxDone, purgeVars
  <2> QED
    BY <1>2, <2>2, <2>3 DEF SocketInv
<1> QED
  BY <1>3, <1>4, <1>5

(* The readers preserve it: one that leaves does so because its socket is  *)
(* closed or the context is done.                                          *)
LEMMA ReaderIInv ==
  ASSUME IInv, NEW k \in Sockets,
         ReadReply(k) \/ SendReply(k) \/ ReadError(k) \/ SeeClosed(k) \/ Leave(k)
  PROVE  IInv'
<1> USE DEF IInv
<1>1. UNCHANGED <<sockets, loopVars, sessionVars, purgeVars>>
  BY DEF ReadReply, SendReply, ReadError, SeeClosed, Leave
<1>2. /\ upstream' \in {0, upstream}
      /\ reader' = reader \/ \E r \in {"reading", "leaving", "exited"} :
                               reader[k] # "none" /\ reader' = [reader EXCEPT ![k] = r]
      /\ replyTo' = replyTo \/ \E a \in {returnPath, NoAddr} : replyTo' = [replyTo EXCEPT ![k] = a]
  BY DEF ReadReply, SendReply, ReadError, SeeClosed, Leave, AfterReadError, UpstreamAfter
<1>3. TypeOK'
  BY <1>1, <1>2 DEF TypeOK, loopVars, sessionVars, purgeVars
<1>4. SocketInv'
  <2>1. CASE ReadReply(k) \/ SendReply(k) \/ ReadError(k)
    <3>1. UNCHANGED <<upstream, reader>>
      BY <2>1 DEF ReadReply, SendReply, ReadError, AfterReadError, TypeOK
    <3> QED
      BY <1>1, <3>1 DEF SocketInv, Published, OneOpen, LeavesClosed, Read, ctxDone,
                        purgeVars
  <2>2. CASE SeeClosed(k)
    BY <1>1, <2>2 DEF SeeClosed, MustLeave, TypeOK, SocketInv, Published, OneOpen,
                      LeavesClosed, Read, ctxDone, purgeVars
  <2>3. CASE Leave(k)
    BY <1>1, <2>3 DEF Leave, UpstreamAfter, TypeOK, SocketInv, Published, OneOpen,
                      LeavesClosed, Read, ctxDone, purgeVars
  <2> QED
    BY <2>1, <2>2, <2>3
<1>5. PathFollowsGame'
  BY <1>1 DEF PathFollowsGame, sessionVars, loopVars
<1> QED
  BY <1>3, <1>4, <1>5 DEF SocketInv

(* The purge preserves it: it closes the published socket. *)
LEMMA PurgeIInv ==
  ASSUME IInv, PurgeIdle \/ Evict \/ Purge \/ CleanerExits
  PROVE  IInv'
<1> USE DEF IInv
<1>1. UNCHANGED <<upstream, reader, replyTo, loopVars, returnPath, lastGame>>
  BY DEF PurgeIdle, Evict, Purge, CloseUpstream, CloseSecure, EndPurge, CleanerExits,
         upstreamVars, sessionVars
<1>2. ctxDone => ctxDone'
  <2>1. stop' \in {stop, "wait"}
    BY DEF PurgeIdle, Evict, Purge, CloseUpstream, CloseSecure, EndPurge, CleanerExits
  <2> QED
    BY <2>1 DEF ctxDone
<1>3. sockets' = sockets \/ CloseUpstream
  BY DEF PurgeIdle, Evict, Purge, CloseSecure, EndPurge, CleanerExits, upstreamVars
<1>4. TypeOK'
  <2> USE DEF StartPurge, loopVars, sessionVars, upstreamVars
  <2>1. LoopOK /\ FlagsOK /\ SourcesOK /\ UpstreamOK /\ PurgeOK
    BY TypeParts
  <2>2. UpstreamOK'
    BY <1>1, <1>3, <2>1 DEF UpstreamOK, CloseUpstream
  <2>3. PurgeOK'
    BY <2>1 DEF PurgeOK, PurgeIdle, Evict, Purge, CloseUpstream, CloseSecure, EndPurge,
                CleanerExits
  <2>4. /\ UNCHANGED <<loopVars, allowed, returnPath, lastGame, window, idle>>
        /\ secureOpen' \in {secureOpen, FALSE}
    BY DEF PurgeIdle, Evict, Purge, CloseUpstream, CloseSecure, EndPurge, CleanerExits
  <2>5. present' \in BOOLEAN
    <3>1. CASE EndPurge
      BY <3>1, Zenon DEF EndPurge
    <3>2. CASE UNCHANGED present
      BY <2>1, <3>2 DEF FlagsOK
    <3> QED
      BY <3>1, <3>2 DEF PurgeIdle, Evict, Purge, CloseUpstream, CloseSecure, CleanerExits
  <2>6. LoopOK' /\ FlagsOK' /\ SourcesOK'
    BY <2>1, <2>4, <2>5 DEF LoopOK, FlagsOK, SourcesOK
  <2> QED
    BY <2>2, <2>3, <2>6, TypeParts, PTL
<1>5. SocketInv'
  <2> USE DEF TypeOK, SocketInv, Published, OneOpen, LeavesClosed, Read
  <2>1. CASE sockets' = sockets
    BY <1>1, <1>2, <2>1
  <2>2. CASE CloseUpstream
    BY <1>1, <1>2, <2>2 DEF CloseUpstream
  <2> QED
    BY <1>3, <2>1, <2>2
<1>6. PathFollowsGame'
  BY <1>1 DEF PathFollowsGame, loopVars
<1> QED
  BY <1>4, <1>5, <1>6 DEF SocketInv

(* Stop and the passing of time preserve it: the context, once done, stays *)
(* so.                                                                     *)
LEMMA StopIInv ==
  ASSUME IInv,
         CloseGate \/ Cancel \/ StopSession \/ WaitReturns \/ BecomeIdle \/ WindowExpires
           \/ UNCHANGED vars
  PROVE  IInv'
<1> USE DEF IInv
<1>1. UNCHANGED <<loopVars, upstreamVars, returnPath, lastGame>> /\ (ctxDone => ctxDone')
  BY DEF CloseGate, Cancel, StopSession, WaitReturns, BecomeIdle, WindowExpires, vars,
         sessionVars, purgeVars, ctxDone
<1>2. TypeOK'
  <2> USE DEF sessionVars, purgeVars, loopVars, upstreamVars
  <2>1. LoopOK /\ FlagsOK /\ SourcesOK /\ UpstreamOK /\ PurgeOK
    BY TypeParts
  <2>2. LoopOK' /\ UpstreamOK'
    BY <1>1, <2>1 DEF LoopOK, UpstreamOK
  <2>3. /\ UNCHANGED <<present, secureOpen, allowed, returnPath, lastGame>>
        /\ window' \in {window, FALSE} /\ idle' \in {idle, TRUE}
    BY DEF CloseGate, Cancel, StopSession, WaitReturns, BecomeIdle, WindowExpires, vars
  <2>4. FlagsOK' /\ SourcesOK'
    BY <2>1, <2>3 DEF FlagsOK, SourcesOK
  <2>5. PurgeOK'
    BY <2>1 DEF CloseGate, Cancel, StopSession, StartPurge, WaitReturns, BecomeIdle,
                WindowExpires, vars, PurgeOK
  <2> QED
    BY <2>2, <2>4, <2>5, TypeParts, PTL
<1>3. SocketInv'
  BY <1>1 DEF SocketInv, Published, OneOpen, LeavesClosed, Read, upstreamVars
<1>4. PathFollowsGame'
  BY <1>1 DEF PathFollowsGame, loopVars
<1> QED
  BY <1>2, <1>3, <1>4 DEF SocketInv

(* IInv holds in every reachable state. *)
LEMMA Invariance == Spec => []IInv
<1>1. IInv /\ [Next]_vars => IInv'
  BY HandleIInv, ForwardIInv, ReaderIInv, PurgeIInv, StopIInv
     DEF Next, LoopStep, Stopped
<1> QED
  BY <1>1, InitIInv, PTL DEF Spec

(* Every variable keeps its type, and a published socket has been dialled. *)
THEOREM TypeCorrect == Spec => []TypeOK
<1>1. IInv => TypeOK
  BY DEF IInv
<1> QED
  BY <1>1, Invariance, PTL

(* Two upstream sockets of a session are never open at once, and the open  *)
(* one is the published one while the server runs (server.go:1282-1315).   *)
THEOREM OneSourcePort == Spec => []OneUpstream
<1>1. IInv => OneUpstream
  <2> SUFFICES ASSUME IInv PROVE OneUpstream
    OBVIOUS
  <2>1. Cardinality(OpenSockets) <= 1
    <3>1. CASE OpenSockets = {}
      BY <3>1, FS_EmptySet
    <3>2. CASE OpenSockets # {}
      <4>1. PICK k \in Sockets : OpenSockets = {k}
        BY <3>2 DEF IInv, OneOpen, OpenSockets
      <4>2. Cardinality(OpenSockets) = 1
        BY <4>1, FS_Singleton, Zenon
      <4> QED
        BY <4>2
    <3> QED
      BY <3>1, <3>2
  <2>2. ~ctxDone => OpenSockets \subseteq {upstream}
    BY DEF IInv, Published, OpenSockets
  <2> QED
    BY <2>1, <2>2 DEF OneUpstream
<1> QED
  BY <1>1, Invariance, PTL

(* An open upstream socket has its reader (server.go:1344-1354). *)
THEOREM BothDirectionsLive == Spec => []UpstreamIsRead
<1>1. IInv => UpstreamIsRead
  BY DEF IInv, Read, UpstreamIsRead, OpenSockets
<1> QED
  BY <1>1, Invariance, PTL

(* A reply is addressed to where the last game packet came from, never to  *)
(* a candidate that only sent control packets (server.go:871-874, 1244).   *)
THEOREM RepliesGoToGame == Spec => RepliesFollowGame
<1>1. IInv /\ [Next]_vars
        => [\A k \in Sockets :
              replyTo[k] = NoAddr /\ replyTo'[k] # NoAddr /\ loop # "return"
                => replyTo'[k] = lastGame]_vars
  <2> SUFFICES ASSUME IInv, Next, NEW k \in Sockets,
                      replyTo[k] = NoAddr, replyTo'[k] # NoAddr, loop # "return"
               PROVE  replyTo'[k] = lastGame
    OBVIOUS
  <2>1. PICK j \in Sockets : ReadReply(j) \/ SendReply(j)
    BY DEF Next, LoopStep, Purge, ReadDatagram, Discard, Receive, OpenPacket, Authorize,
           SetReturnPath, Dial, DialFails, Write, WriteFails, LoopExits, ReadError, SeeClosed,
           Leave, PurgeIdle, Evict, CloseUpstream, CloseSecure, EndPurge, CleanerExits,
           CloseGate, Cancel, StopSession, WaitReturns, BecomeIdle, WindowExpires, Stopped,
           upstreamVars, vars
  <2>2. ReadReply(j) /\ j = k
    BY <2>1 DEF ReadReply, SendReply, IInv, TypeOK
  <2>3. replyTo'[k] = returnPath
    BY <2>2 DEF ReadReply, IInv, TypeOK
  <2> QED
    BY <2>3 DEF IInv, PathFollowsGame
<1> QED
  BY <1>1, Invariance, PTL DEF Spec, RepliesFollowGame
=============================================================================
