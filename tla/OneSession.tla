----------------------------- MODULE OneSession -----------------------------
(***************************************************************************)
(* What the relay's session registry promises: a user is served by at most *)
(* one connection.  A login makes its connection the one that serves the   *)
(* user and, in the same step, ends the service of any other connection of *)
(* that user ("Logged in from another location").  Which handler removes   *)
(* which map entry, and when, is the business of NexusSessions.            *)
(***************************************************************************)
CONSTANTS Users,   \* account names
          Conns,   \* WebSocket connections
          None,    \* "serves nobody"
          Again    \* may a connection log in when it serves somebody?

VARIABLE serving   \* serving[c]: the user connection c serves, or None

TypeOK == serving \in [Conns -> Users \cup {None}]

Init == serving = [c \in Conns |-> None]

(* The connection u was registered with is kicked.  Where connections log  *)
(* in again, it may be serving somebody else by now.                       *)
Begin(c, u) ==
    \E kicked \in (Conns \ {c}) \cup {None} :
       /\ \/ Again
          \/ serving[c] = None /\ (kicked # None => serving[kicked] \in {u, None})
       /\ serving' = [d \in Conns |-> IF d = c THEN u
                                      ELSE IF d = kicked \/ serving[d] = u THEN None
                                      ELSE serving[d]]

End(c) ==
    /\ serving[c] # None
    /\ serving' = [serving EXCEPT ![c] = None]

Next == \E c \in Conns : End(c) \/ \E u \in Users : Begin(c, u)

Spec == Init /\ [][Next]_serving

(* Two connections never serve the same user: the point of the "kicked"    *)
(* message and Conn.Close() in every login handler.                        *)
AtMostOne ==
    \A c, d \in Conns : (c # d /\ serving[c] # None) => serving[c] # serving[d]
=============================================================================
