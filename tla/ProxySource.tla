---------------------------- MODULE ProxySource ----------------------------
(***************************************************************************)
(* How the server tells relayed from direct paths, and whose address it    *)
(* reflects (pkg/server/server.go, pkg/proxyproto/header.go).              *)
(*                                                                         *)
(* A relay (frp) forwards a client's datagrams from a source of its own    *)
(* and puts a PROXY header in front of the first.  The read loop remembers *)
(* each source it has seen, in a table that is bounded and pruned, and     *)
(* looks for a header only in what it takes for a source's first datagram. *)
(* Headers are lost and overtaken, relays use a source again for another   *)
(* client, the table forgets, and the server restarts in the middle of a   *)
(* flow; what a session learned when it was made must not depend on it.    *)
(*                                                                         *)
(* The read loop is one goroutine, so a datagram is one action; the        *)
(* cleaner takes the table's mutex.  Addresses are those of sources and    *)
(* clients themselves.                                                     *)
(***************************************************************************)
EXTENDS Naturals, Sequences, SequencesExt

CONSTANTS
  Sources,   \* socket addresses datagrams come from
  Trusted,   \* those in proxy_protocol_trusted_addrs, none if headers are off
  Clients,
  Nobody,
  Cap,       \* maxTrackedProbeSenders (4096 in the code)
  MaxFlows   \* bound on the flows relays and clients open

(* A header that names the client, one that names nobody (LOCAL, UNKNOWN,  *)
(* UNSPEC), one that does not parse, or none.                              *)
Headers == {"proxy", "local", "invalid", "none"}

VARIABLES
  style,     \* the kind of header a source's relay sends, if there is a relay
  flow,      \* the client whose datagrams come from a source now
  header,    \* the header that is still to be sent, or on its way, there
  flows,
  sole,      \* history: a source was used by one client only
  recent,    \* proxySenderStates, longest unseen first
  proxied, real,   \* what the table says of the sources in it
  session,   \* per client: [exists, sender (proxySenderAddr), addr (realClientAddr)]
  vouched    \* history: the source and header a client's session was made under

tableVars == <<recent, proxied, real>>
flowVars == <<style, flow, header, flows, sole>>
sessionVars == <<session, vouched>>
vars == <<flowVars, tableVars, sessionVars>>

Addresses == Sources \cup Clients
NoSession == [exists |-> FALSE, sender |-> Nobody, addr |-> Nobody]
NoVoucher == [source |-> Nobody, header |-> "none"]
Known == Range(recent)

TypeOK ==
  /\ flow \in [Sources -> Clients \cup {Nobody}]
  /\ style \in [Sources -> Headers] /\ sole \in [Sources -> BOOLEAN]
  /\ header \in [Sources -> Headers] /\ flows \in 0..MaxFlows
  /\ recent \in Seq(Sources) /\ Len(recent) <= Cap /\ IsInjective(recent)
  /\ proxied \in [Sources -> BOOLEAN]
  /\ real \in [Sources -> Addresses \cup {Nobody}]
  /\ session \in [Clients -> [exists : BOOLEAN, sender : Sources \cup {Nobody},
                              addr : Addresses \cup {Nobody}]]
  /\ vouched \in [Clients -> [source : Sources \cup {Nobody}, header : Headers]]

Init ==
  /\ style \in [Sources -> Headers] /\ sole = [s \in Sources |-> TRUE]
  /\ flow = [s \in Sources |-> Nobody]
  /\ header = [s \in Sources |-> "none"] /\ flows = 0
  /\ recent = <<>>
  /\ proxied = [s \in Sources |-> FALSE] /\ real = [s \in Sources |-> Nobody]
  /\ session = [c \in Clients |-> NoSession]
  /\ vouched = [c \in Clients |-> NoVoucher]

-----------------------------------------------------------------------------
(* A relay, or a client without one, starts to use a source.               *)
OpenFlow(s, c) ==
  /\ flows < MaxFlows /\ flows' = flows + 1
  /\ flow' = [flow EXCEPT ![s] = c]
  /\ header' = [header EXCEPT ![s] = style[s]]
  /\ sole' = [sole EXCEPT ![s] = @ /\ flow[s] \in {Nobody, c}]
  /\ UNCHANGED <<style, tableVars, sessionVars>>

LoseHeader(s) ==
  /\ header[s] # "none"
  /\ header' = [header EXCEPT ![s] = "none"]
  /\ UNCHANGED <<style, flow, flows, sole, tableVars, sessionVars>>

-----------------------------------------------------------------------------
(* observeProxySender: a source not in the table is seen for the first     *)
(* time; the one unseen for longest makes room for it.                     *)
First(s) == s \notin Known

(* Nothing is kept of a source that leaves the table.                      *)
Keep(p, r) ==
  /\ proxied' = [s \in Sources |-> s \in Range(recent') /\ p[s]]
  /\ real' = [s \in Sources |-> IF s \in Range(recent') THEN r[s] ELSE Nobody]

Others(s) ==
  IF First(s) THEN recent
  ELSE RemoveAt(recent, CHOOSE i \in DOMAIN recent : recent[i] = s)

Observed(s) ==
  LET seen == Append(Others(s), s) IN
    IF Len(seen) > Cap THEN Tail(seen) ELSE seen

TrustsAll(s) == TRUE   \* mutant
ProxySourceTrusted(s) == s \in Trusted

(* What the datagram is taken for: one that begins with a header is        *)
(* dropped unless it is a source's first, trusted and well formed.         *)
Accepted(s, h) ==
  \/ h = "none"
  \/ First(s) /\ ProxySourceTrusted(s) /\ h # "invalid"

(* setProxySenderAddress, on an entry that observeProxySender has made.    *)
EntryProxied(s, h) == IF First(s) THEN Accepted(s, h) /\ h # "none" ELSE proxied[s]
EntryReal(s, h) ==
  IF ~First(s) THEN real[s]
  ELSE IF Accepted(s, h) /\ h = "proxy" THEN flow[s] ELSE Nobody

(* realClientAddr, as readUDPDataLoop passes it on.                        *)
Reported(s, h) == IF EntryReal(s, h) # Nobody THEN EntryReal(s, h) ELSE s

ByEnvelopeOnly(c, s, h) ==   \* mutant: trusts the table alone
  IF EntryProxied(s, h) THEN "relay" ELSE "direct"
ClassifyPacketPath(c, s, h) ==
  IF EntryProxied(s, h) \/ session[c].sender = s THEN "relay" ELSE "direct"

EffectiveClientAddress(c, s, h) ==
  IF EntryProxied(s, h) THEN Reported(s, h)
  ELSE IF session[c].sender = s THEN session[c].addr
  ELSE s

(* handleHandshake: a new session remembers source and address; a client   *)
(* that has one gets the answer it had.                                    *)
SenderNotKept(s, h) == Nobody   \* mutant
SenderKept(s, h) == IF EntryProxied(s, h) THEN s ELSE Nobody

HandleHandshake(c, s, h) ==
  IF session[c].exists THEN UNCHANGED sessionVars
  ELSE /\ session' = [session EXCEPT ![c] =
            [exists |-> TRUE, sender |-> SenderKept(s, h), addr |-> Reported(s, h)]]
       /\ vouched' = [vouched EXCEPT ![c] =
            IF EntryProxied(s, h) THEN [source |-> s, header |-> style[s]] ELSE NoVoucher]

(* A datagram arrives: with the header, or before it, or long after it.    *)
(* Nothing follows a header that came alone.                               *)
Receive(s, h, cmd) ==
  LET c == flow[s] IN
  /\ c # Nobody /\ h \in {"none", header[s]}
  /\ header' = [header EXCEPT ![s] = IF h = "none" THEN @ ELSE "none"]
  /\ recent' = Observed(s)
  /\ Keep([proxied EXCEPT ![s] = EntryProxied(s, h)], [real EXCEPT ![s] = EntryReal(s, h)])
  /\ IF cmd = "handshake" /\ Accepted(s, h) THEN HandleHandshake(c, s, h)
     ELSE UNCHANGED sessionVars
  /\ UNCHANGED <<style, flow, flows, sole>>

-----------------------------------------------------------------------------
(* pruneProxySenderStates drops what was unseen for two minutes: the n     *)
(* sources unseen for longest.                                             *)
Prune(n) ==
  /\ n <= Len(recent)
  /\ recent' = SubSeq(recent, n + 1, Len(recent))
  /\ Keep(proxied, real)
  /\ UNCHANGED <<flowVars, sessionVars>>

EndSession(c) ==
  /\ session[c].exists
  /\ session' = [session EXCEPT ![c] = NoSession]
  /\ vouched' = [vouched EXCEPT ![c] = NoVoucher]
  /\ UNCHANGED <<flowVars, tableVars>>

(* Nothing of this is kept over a restart; flows are.                      *)
Restart ==
  /\ recent' = <<>> /\ Keep(proxied, real)
  /\ session' = [c \in Clients |-> NoSession]
  /\ vouched' = [c \in Clients |-> NoVoucher]
  /\ UNCHANGED flowVars

Next ==
  \/ \E s \in Sources :
       \/ LoseHeader(s)
       \/ \E c \in Clients : OpenFlow(s, c)
       \/ \E h \in Headers, cmd \in {"header", "handshake", "ping"} : Receive(s, h, cmd)
  \/ \E n \in 1..Cap : Prune(n)
  \/ \E c \in Clients : EndSession(c)
  \/ Restart

Spec == Init /\ [][Next]_vars

-----------------------------------------------------------------------------
(* What the answer to a Ping or StunProbe rests on, whatever header is yet *)
(* to come over the source of client c.                                    *)
Answerable(c, s, h) ==
  /\ session[c].exists /\ flow[s] = c
  /\ h \in {"none", header[s]} /\ Accepted(s, h)

(* A client whose handshake came under an accepted header is told Relay    *)
(* over that source as long as its session lives, whatever the table has   *)
(* forgotten since, and has the address of that header reflected to it, as *)
(* long as the source was not used for another (server.go:1206-1212).      *)
RelayStaysRelay ==
  \A c \in Clients, s \in Sources, h \in Headers :
    Answerable(c, s, h) /\ vouched[c].source = s =>
      /\ ClassifyPacketPath(c, s, h) = "relay"
      /\ sole[s] /\ vouched[c].header = "proxy" => EffectiveClientAddress(c, s, h) = c

(* Who is not trusted to relay is never taken for a relay, nor reflected   *)
(* an address but the one it was seen at.                                  *)
DirectStaysDirect ==
  \A c \in Clients, s \in Sources \ Trusted, h \in Headers :
    Answerable(c, s, h) =>
      ClassifyPacketPath(c, s, h) = "direct" /\ EffectiveClientAddress(c, s, h) = s

(* What a session is told of its path does not depend on what the table    *)
(* remembers by now, nor on who is not trusted.                            *)
PathToldRight == RelayStaysRelay /\ DirectStaysDirect
=============================================================================
