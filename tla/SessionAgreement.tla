-------------------------- MODULE SessionAgreement --------------------------
(***************************************************************************)
(* What the handshake promises to both ends, whatever becomes of           *)
(* datagrams, of the server and of the sessions.  The server issues        *)
(* sessions, each under an ID of its own, and while a request's session    *)
(* lives it issues no other.  The client holds sessions that were issued   *)
(* and no others; it goes from one to another only by giving the first up, *)
(* or for another request of its own.  A session may end unnoticed.        *)
(***************************************************************************)
CONSTANTS Requests, IDs, None

VARIABLES
  issued,   \* every session the server ever issued
  live,     \* those it still knows
  held      \* the client's session, or None

Sessions == [req : Requests, id : IDs]

Init == issued = {} /\ live = {} /\ held = None

(* Others may have to make room for it. *)
Issue(s) ==
  /\ \A t \in issued : t.id # s.id
  /\ \A t \in live : t.req # s.req
  /\ issued' = issued \cup {s}
  /\ s \in live' /\ live' \subseteq live \cup {s}
  /\ UNCHANGED held

End == live' \subseteq live /\ UNCHANGED <<issued, held>>

Adopt(s) ==
  /\ s \in issued
  /\ held = None \/ held.req # s.req
  /\ held' = s
  /\ UNCHANGED <<issued, live>>

GiveUp == held' = None /\ UNCHANGED <<issued, live>>

Next == (\E s \in Sessions : Issue(s) \/ Adopt(s)) \/ End \/ GiveUp

Spec == Init /\ [][Next]_<<issued, live, held>>
=============================================================================
