---------------------------- MODULE NexusSessions ----------------------------
(***************************************************************************)
(* The relay's session registry: the map s.Clients of nexus_server/main.go *)
(* and everything that reads or writes it around a login, a disconnect, a  *)
(* ban and an account deletion.                                            *)
(*                                                                         *)
(* Every WebSocket connection is one goroutine running handleConnections,  *)
(* a sequential loop "read a frame, handle it".  A step of the model is    *)
(* one critical section of s.Mu or one database statement of a handler, so *)
(* handlers of different connections, and the admin's HTTP handler,        *)
(* interleave exactly where the code releases the lock or returns from     *)
(* SQLite.  Replies that only the requester sees are left out, as are      *)
(* requests that are refused without touching state.                       *)
(***************************************************************************)

CONSTANTS
    Users,        \* account names
    Conns,        \* connections; each is accepted at most once
    None,         \* no user, no connection
    LoginKinds,   \* the login requests clients use
    Statuses,     \* presence strings clients choose for themselves
    Friends0,     \* accepted rows of the friends table at the start
    Tokens0,      \* users with a session token from before the relay started
    Expiring,     \* users whose tokens expire or are revoked by themselves
    Bannable,     \* users the administrators ban and unban
    Deletable,    \* users that delete their account and sign up again
    Relogin       \* may a connection log in again after it has logged in?

ASSUME ConstAssumption ==
    /\ None \notin Users \cup Conns
    /\ LoginKinds \subseteq {"auth", "session_auth", "qr_login_check"}
    /\ Friends0 \subseteq Users \X Users
    /\ Tokens0 \subseteq Users /\ Expiring \subseteq Users
    /\ Bannable \subseteq Users /\ Deletable \subseteq Users
    /\ Relogin \in BOOLEAN

VARIABLES
    clients,    \* s.Clients: the connection registered for each user
    status,     \* Client.Status of each connection
    sock,       \* is the connection's socket open?
    pc,         \* where the connection's handler is
    user,       \* the handler's local variable username
    req,        \* the request the handler is working on
    tgt,        \* the user a login in progress is for
    say,        \* the status the handler is about to broadcast
    todo,       \* friends whose status the login has yet to report
    seen,       \* the friend and status just read from the registry
    shown,      \* shown[c][u]: what connection c was last told about u
    accounts,   \* verified rows of users
    banned,     \* users with is_banned = 1
    tokens,     \* users with an unrevoked, unexpired session token
    qr,         \* users with an approved, unexpired QR login row
    friends,    \* accepted rows of friends
    banning,    \* progress of adminBanHandler for each user
    logged      \* history: the users each connection has logged in as

handlerVars == <<pc, user, req, tgt, say, todo, seen>>
dbVars      == <<accounts, banned, tokens, qr, friends>>
vars == <<clients, status, sock, handlerVars, shown, dbVars, banning, logged>>
------------------------------------------------------------------------------
PCs == {"unused", "idle", "issue", "register", "announce", "drain",
        "roster", "rosterSend", "unregister", "exit"}
Requests == {"none", "auth", "session_auth", "qr_login_check", "presence",
             "leave", "delete_account"}
Status == Statuses \cup {"Online", "Offline"}
NothingShown == [src |-> "none", st |-> "Offline"]
NothingSeen == [who |-> None, st |-> "Offline"]
Seen == [who : Users \cup {None}, st : Status]
Shown == [src : {"none", "presence", "friend_status"}, st : Status]

(* Types of the registry, of the handlers' locals and of the tables.  The  *)
(* interesting part is seen: a login reads Clients[f].Status of friends    *)
(* that may have gone, and must then report "Offline".                     *)
TypeOK ==
    /\ clients \in [Users -> Conns \cup {None}]
    /\ status \in [Conns -> Status]
    /\ sock \in [Conns -> {"open", "closed"}]
    /\ pc \in [Conns -> PCs]
    /\ user \in [Conns -> Users \cup {None}]
    /\ req \in [Conns -> Requests]
    /\ tgt \in [Conns -> Users \cup {None}]
    /\ say \in [Conns -> Status]
    /\ todo \in [Conns -> SUBSET Users]
    /\ seen \in [Conns -> Seen]
    /\ shown \in [Conns -> [Users -> Shown]]
    /\ accounts \subseteq Users /\ banned \subseteq Users
    /\ tokens \subseteq Users /\ qr \subseteq Users
    /\ friends \subseteq Users \X Users
    /\ banning \in [Users -> {"idle", "flagged", "revoked"}]
    /\ logged \in [Conns -> SUBSET Users]

Init ==
    /\ clients = [u \in Users |-> None]
    /\ status = [c \in Conns |-> "Offline"]
    /\ sock = [c \in Conns |-> "closed"]
    /\ pc = [c \in Conns |-> "unused"]
    /\ user = [c \in Conns |-> None]
    /\ req = [c \in Conns |-> "none"]
    /\ tgt = [c \in Conns |-> None]
    /\ say = [c \in Conns |-> "Offline"]
    /\ todo = [c \in Conns |-> {}]
    /\ seen = [c \in Conns |-> NothingSeen]
    /\ shown = [c \in Conns |-> [u \in Users |-> NothingShown]]
    /\ accounts = Users /\ banned = {} /\ tokens = Tokens0 /\ qr = {}
    /\ friends = Friends0
    /\ banning = [u \in Users |-> "idle"]
    /\ logged = [c \in Conns |-> {}]
------------------------------------------------------------------------------
(* getFriends: the other side of every accepted row, either direction.     *)
FriendsOf(u) == {f \in Users : <<u, f>> \in friends \/ <<f, u>> \in friends}

Goto(c, l) == pc' = [pc EXCEPT ![c] = l]

(* The handler goes back to ReadJSON; its request-local data is dead.      *)
Return(c) ==
    /\ Goto(c, "idle")
    /\ req' = [req EXCEPT ![c] = "none"]
    /\ tgt' = [tgt EXCEPT ![c] = None]
    /\ say' = [say EXCEPT ![c] = "Offline"]

(* The handler returns and its deferred ws.Close() runs.                   *)
ExitLoops(c) ==  \* variant: "continue" where the code says "return"
    /\ Goto(c, "idle")
    /\ sock' = [sock EXCEPT ![c] = "closed"]

Exit(c) ==
    /\ Goto(c, "exit")
    /\ sock' = [sock EXCEPT ![c] = "closed"]

(* Conn.Close() on whatever connection is registered for u.                *)
SockKept(u) == sock  \* variant: the old connection is left open
SockKicked(u) == [d \in Conns |-> IF d = clients[u] THEN "closed" ELSE sock[d]]

(* The compare-and-swap delete of the handler's own entry.                 *)
EntryDeleted(c) == [clients EXCEPT ![user[c]] = None]  \* variant: no comparison
EntryKept(c) == clients                                \* variant: no delete
OwnEntryDropped(c) == [clients EXCEPT ![user[c]] = IF @ = c THEN None ELSE @]

(* What client.Send delivers: a frame written to an open socket arrives, a *)
(* write to a closed one fails and every caller ignores the error.         *)
Tell(conns, u, rec) ==
    shown' = [c \in Conns |->
                IF c \in conns /\ sock[c] = "open"
                THEN [shown[c] EXCEPT ![u] = rec] ELSE shown[c]]

(* broadcastPresence.  The read lock keeps the registry fixed for the      *)
(* whole loop, so the fan-out is one step.                                 *)
broadcastPresence(u, st) ==
    Tell({clients[f] : f \in FriendsOf(u)}, u, [src |-> "presence", st |-> st])
------------------------------------------------------------------------------
(* handleConnections accepts the upgrade.                                  *)
Connect(c) ==
    /\ pc[c] = "unused"
    /\ Goto(c, "idle")
    /\ sock' = [sock EXCEPT ![c] = "open"]
    /\ UNCHANGED <<clients, status, user, req, tgt, say, todo, seen, shown,
                   dbVars, banning, logged>>

(* The tests a login must pass.  A password login reads the password hash, *)
(* the ban flag and the TOTP secret; a token login reads the token row and *)
(* the ban flag; a QR login reads only the approved QR row.                *)
Admitted(u, k) ==
    \/ k = "auth" /\ u \in accounts \ banned
    \/ k = "session_auth" /\ u \in tokens \ banned
    \/ k = "qr_login_check" /\ u \in qr

Login(c, u, k) ==
    /\ pc[c] = "idle"
    /\ Relogin \/ user[c] = None
    /\ Admitted(u, k)
    /\ req' = [req EXCEPT ![c] = k]
    /\ tgt' = [tgt EXCEPT ![c] = u]
    /\ Goto(c, IF k = "auth" THEN "issue" ELSE "register")
    /\ UNCHANGED <<clients, status, sock, user, say, todo, seen, shown,
                   dbVars, banning, logged>>

(* A token of a banned user is revoked when it is presented.               *)
LoginBanned(c, u) ==
    /\ pc[c] = "idle"
    /\ Relogin \/ user[c] = None
    /\ "session_auth" \in LoginKinds
    /\ u \in tokens \cap banned
    /\ tokens' = tokens \ {u}
    /\ UNCHANGED <<clients, status, sock, handlerVars, shown, accounts, banned,
                   qr, friends, banning, logged>>

(* issueSessionToken, after the checks and before the registry.            *)
IssueToken(c) ==
    /\ pc[c] = "issue"
    /\ tokens' = tokens \cup {tgt[c]}
    /\ Goto(c, "register")
    /\ UNCHANGED <<clients, status, sock, user, req, tgt, say, todo, seen,
                   shown, accounts, banned, qr, friends, banning, logged>>

(* Under s.Mu: kick and close the connection registered for the user, if   *)
(* any, and install this one.                                              *)
Register(c) ==
    LET u == tgt[c] IN
    /\ pc[c] = "register"
    /\ sock' = SockKicked(u)
    /\ clients' = [clients EXCEPT ![u] = c]
    /\ user' = [user EXCEPT ![c] = u]
    /\ status' = [status EXCEPT ![c] = "Online"]
    /\ say' = [say EXCEPT ![c] = "Online"]
    /\ logged' = [logged EXCEPT ![c] = @ \cup {u}]
    /\ Goto(c, "announce")
    /\ UNCHANGED <<req, tgt, todo, seen, shown, dbVars, banning>>

(* Every handler that broadcasts does it here; where it goes next depends  *)
(* on the request.                                                         *)
Announce(c) ==
    /\ pc[c] = "announce"
    /\ broadcastPresence(user[c], say[c])
    /\ \/ /\ req[c] \in LoginKinds
          /\ Goto(c, "drain")
          /\ UNCHANGED <<req, tgt, say, sock>>
       \/ /\ req[c] = "presence"
          /\ Return(c)
          /\ UNCHANGED sock
       \/ /\ req[c] = "leave"
          /\ Exit(c)
          /\ UNCHANGED <<req, tgt, say>>
       \/ /\ req[c] = "delete_account"
          /\ Goto(c, "unregister")
          /\ UNCHANGED <<req, tgt, say, sock>>
    /\ UNCHANGED <<clients, status, user, todo, seen, dbVars, banning, logged>>

(* deliverOfflineMessages has run (NexusMessaging models it; it does not   *)
(* touch the registry).  A password login goes on to report the status of  *)
(* every friend.                                                           *)
Drained(c) ==
    /\ pc[c] = "drain"
    /\ \/ /\ req[c] = "auth" /\ FriendsOf(user[c]) # {}
          /\ todo' = [todo EXCEPT ![c] = FriendsOf(user[c])]
          /\ Goto(c, "roster")
          /\ UNCHANGED <<req, tgt, say>>
       \/ /\ req[c] # "auth" \/ FriendsOf(user[c]) = {}
          /\ Return(c)
          /\ UNCHANGED todo
    /\ UNCHANGED <<clients, status, sock, user, seen, shown, dbVars, banning, logged>>

(* The status of a friend, read under the read lock ...                    *)
StatusOrNone(f) ==  \* variant: no status is no answer
    IF clients[f] = None THEN None ELSE status[clients[f]]
StatusOf(f) == IF clients[f] = None THEN "Offline" ELSE status[clients[f]]

RosterRead(c) ==
    /\ pc[c] = "roster"
    /\ \E f \in todo[c] :
          /\ seen' = [seen EXCEPT ![c] = [who |-> f, st |-> StatusOf(f)]]
          /\ todo' = [todo EXCEPT ![c] = @ \ {f}]
    /\ Goto(c, "rosterSend")
    /\ UNCHANGED <<clients, status, sock, user, req, tgt, say, shown, dbVars,
                   banning, logged>>

(* ... and sent after it has been released.                                *)
RosterSend(c) ==
    /\ pc[c] = "rosterSend"
    /\ Tell({c}, seen[c].who, [src |-> "friend_status", st |-> seen[c].st])
    /\ seen' = [seen EXCEPT ![c] = NothingSeen]
    /\ \/ /\ todo[c] # {}
          /\ Goto(c, "roster")
          /\ UNCHANGED <<req, tgt, say>>
       \/ todo[c] = {} /\ Return(c)
    /\ UNCHANGED <<clients, status, sock, user, todo, dbVars, banning, logged>>

(* "presence" and "status_update" set the status of whatever connection is *)
(* registered for the user, then broadcast it.                             *)
SetStatus(c, st) ==
    /\ pc[c] = "idle"
    /\ user[c] # None
    /\ status' = [d \in Conns |-> IF d = clients[user[c]] THEN st ELSE status[d]]
    /\ say' = [say EXCEPT ![c] = st]
    /\ req' = [req EXCEPT ![c] = "presence"]
    /\ Goto(c, "announce")
    /\ UNCHANGED <<clients, sock, user, tgt, todo, seen, shown, dbVars, banning, logged>>

RevokeSession(c) ==
    /\ pc[c] = "idle"
    /\ user[c] \in tokens \cap Expiring
    /\ tokens' = tokens \ {user[c]}
    /\ UNCHANGED <<clients, status, sock, handlerVars, shown, accounts, banned,
                   qr, friends, banning, logged>>

(* approveQRLogin: a session token is issued before the QR row is updated; *)
(* the update hits nothing when the row is unknown, used or expired.       *)
QRApprove(c) ==
    /\ pc[c] = "idle"
    /\ user[c] # None
    /\ "qr_login_check" \in LoginKinds
    /\ tokens' = tokens \cup {user[c]}
    /\ qr' \in {qr, qr \cup {user[c]}}
    /\ UNCHANGED <<clients, status, sock, handlerVars, shown, accounts, banned,
                   friends, banning, logged>>

(* deleteAccount's transaction.  The broadcast and the removal from the    *)
(* registry follow as separate steps.                                      *)
DeleteAccount(c) ==
    LET u == user[c] IN
    /\ pc[c] = "idle"
    /\ u \in accounts \cap Deletable
    /\ accounts' = accounts \ {u}
    /\ banned' = banned \ {u}
    /\ tokens' = tokens \ {u}
    /\ qr' = qr \ {u}
    /\ friends' = {r \in friends : u \notin {r[1], r[2]}}
    /\ req' = [req EXCEPT ![c] = "delete_account"]
    /\ Goto(c, "announce")
    /\ UNCHANGED <<clients, status, sock, user, tgt, say, todo, seen, shown,
                   banning, logged>>

UnregisterDeleted(c) ==
    /\ pc[c] = "unregister"
    /\ clients' = OwnEntryDropped(c)
    /\ Exit(c)
    /\ UNCHANGED <<status, user, req, tgt, say, todo, seen, shown, dbVars,
                   banning, logged>>

(* The peer closes its end, or the network loses it.                       *)
Vanish(c) ==
    /\ sock[c] = "open"
    /\ sock' = [sock EXCEPT ![c] = "closed"]
    /\ UNCHANGED <<clients, status, handlerVars, shown, dbVars, banning, logged>>

(* ReadJSON fails, on whichever side the socket was closed; frames already *)
(* buffered may be handled first.  The entry is removed only if it is this *)
(* connection's own, and "Offline" is broadcast only then, or when there   *)
(* is no entry at all.                                                     *)
NotMine(c) == clients[user[c]] # c  \* variant: a missing entry counts too
WasReplaced(c) == clients[user[c]] \notin {None, c}

ReadError(c) ==
    /\ pc[c] = "idle" /\ sock[c] = "closed"
    /\ \/ /\ user[c] = None
          /\ Exit(c)
          /\ UNCHANGED <<clients, req, say>>
       \/ /\ user[c] # None
          /\ clients' = OwnEntryDropped(c)
          /\ \/ /\ WasReplaced(c)
                /\ Exit(c)
                /\ UNCHANGED <<req, say>>
             \/ /\ ~WasReplaced(c)
                /\ req' = [req EXCEPT ![c] = "leave"]
                /\ say' = [say EXCEPT ![c] = "Offline"]
                /\ Goto(c, "announce")
                /\ UNCHANGED sock
    /\ UNCHANGED <<status, user, tgt, todo, seen, shown, dbVars, banning, logged>>
------------------------------------------------------------------------------
(* adminBanHandler: flag the row, revoke the tokens, kick the session.     *)
BanFlag(u) ==
    /\ banning[u] = "idle"
    /\ u \in accounts \cap Bannable
    /\ banned' = banned \cup {u}
    /\ banning' = [banning EXCEPT ![u] = "flagged"]
    /\ UNCHANGED <<clients, status, sock, handlerVars, shown, accounts, tokens,
                   qr, friends, logged>>

BanRevoke(u) ==
    /\ banning[u] = "flagged"
    /\ tokens' = tokens \ {u}
    /\ banning' = [banning EXCEPT ![u] = "revoked"]
    /\ UNCHANGED <<clients, status, sock, handlerVars, shown, accounts, banned,
                   qr, friends, logged>>

BanKick(u) ==
    /\ banning[u] = "revoked"
    /\ sock' = SockKicked(u)
    /\ clients' = [clients EXCEPT ![u] = None]
    /\ banning' = [banning EXCEPT ![u] = "idle"]
    /\ UNCHANGED <<status, handlerVars, shown, dbVars, logged>>

Unban(u) ==
    /\ u \in banned
    /\ banned' = banned \ {u}
    /\ UNCHANGED <<clients, status, sock, handlerVars, shown, accounts, tokens,
                   qr, friends, banning, logged>>

(* "register" followed by "verify_email": the account can log in again.    *)
SignUp(u) ==
    /\ u \in Deletable \ accounts
    /\ accounts' = accounts \cup {u}
    /\ UNCHANGED <<clients, status, sock, handlerVars, shown, banned, tokens,
                   qr, friends, banning, logged>>

(* Thirty days, or five minutes, have passed.                              *)
Expire(u) ==
    /\ u \in Expiring
    /\ \/ u \in tokens /\ tokens' = tokens \ {u} /\ UNCHANGED qr
       \/ u \in qr /\ qr' = qr \ {u} /\ UNCHANGED tokens
    /\ UNCHANGED <<clients, status, sock, handlerVars, shown, accounts, banned,
                   friends, banning, logged>>
------------------------------------------------------------------------------
(* What a handler does on its own once a request is in progress.           *)
Continue(c) ==
    \/ IssueToken(c) \/ Register(c) \/ Announce(c)
    \/ RosterRead(c) \/ RosterSend(c) \/ UnregisterDeleted(c)

(* What the peer, or the network, makes a handler start.                   *)
Request(c) ==
    \/ Connect(c) \/ ReadError(c)
    \/ \E u \in Users : LoginBanned(c, u) \/ \E k \in LoginKinds : Login(c, u, k)
    \/ \E st \in Statuses : SetStatus(c, st)
    \/ RevokeSession(c) \/ QRApprove(c)

Admin(u) == BanFlag(u) \/ BanRevoke(u) \/ BanKick(u) \/ Unban(u)

Environment(u) == SignUp(u) \/ Expire(u)

Next ==
    \/ \E c \in Conns :
          \/ Continue(c) \/ Drained(c) \/ Request(c) \/ DeleteAccount(c)
          \/ Vanish(c)
    \/ \E u \in Users : Admin(u) \/ Environment(u)

Spec == Init /\ [][Next]_vars

(* The Go scheduler runs every goroutine that is not blocked, so a request *)
(* in progress goes on; the read on a closed socket fails once the frames  *)
(* already buffered (finitely many) are used up.                           *)
Fairness ==
    \A c \in Conns :
        /\ WF_vars(Continue(c) \/ Drained(c))
        /\ SF_vars(ReadError(c))

FairSpec == Spec /\ Fairness
------------------------------------------------------------------------------
(* Connection c can take requests of user u: its socket is open and its    *)
(* handler is neither leaving nor tearing the account down.                *)
Serves(c, u) ==
    /\ pc[c] \notin {"unused", "exit"}
    /\ sock[c] = "open"
    /\ user[c] = u
    /\ req[c] \notin {"leave", "delete_account"}

(* Whoever is served is registered: a login that replaces a session closes *)
(* the old socket in the same critical section, and the clean-up of the    *)
(* old handler never takes the new session's entry with it.  Hence a user  *)
(* is served by one connection at a time.                                  *)
ServedIsRegistered ==
    \A c \in Conns, u \in Users : Serves(c, u) => clients[u] = c

(* An entry of s.Clients is only ever that of a connection that has logged *)
(* in as its user, and as long as the connection has not become another's  *)
(* by a later login, its handler is still running and will remove it: the  *)
(* entry does not outlive its connection.                                  *)
EntryIsOwned ==
    \A u \in Users : clients[u] # None =>
        LET c == clients[u] IN
        /\ u \in logged[c]
        /\ logged[c] = {u} => user[c] = u
        /\ user[c] = u => pc[c] \notin {"unused", "exit"} /\ req[c] # "leave"

(* No handler of user u has anything left to do.                           *)
Settled(u) == \A c \in Conns : user[c] = u => pc[c] = "exit"

(* No connection of user u has been anybody else's.                        *)
Loyal(u) == \A c \in Conns : u \in logged[c] => logged[c] = {u}

(* However logins, kicks, bans and disconnects interleave, once a user has *)
(* no entry and no handler left, the last presence event each connected    *)
(* friend got about that user says "Offline": the late broadcast of a      *)
(* replaced connection cannot be the last word.  (A connection that logs   *)
(* in as somebody else never says "Offline" for the user it was.)          *)
GoneIsHeard ==
    \A u, f \in Users :
        /\ Loyal(u) /\ Loyal(f)
        /\ clients[u] = None /\ Settled(u)
        /\ f \in FriendsOf(u) /\ clients[f] # None /\ sock[clients[f]] = "open"
        /\ shown[clients[f]][u].src = "presence"
        => shown[clients[f]][u].st = "Offline"

(* The registry implements the one-session promise: a login is the step    *)
(* that begins serving, and a kick, a ban, a deletion or a read error ends *)
(* it.                                                                     *)
Serving ==
    [c \in Conns |-> IF \E u \in Users : Serves(c, u) THEN user[c] ELSE None]
One == INSTANCE OneSession WITH serving <- Serving, Again <- Relogin
OneSessionSpec == One!Spec

(* A connection the server has closed is cleaned up: its handler ends.     *)
ClosedHandlersExit ==
    \A c \in Conns : (sock[c] = "closed" /\ pc[c] # "unused") ~> pc[c] = "exit"

(* A connected friend that a presence event told "Online" about a user who *)
(* is gone is told otherwise, unless the user comes back, the friend       *)
(* leaves, or the friendship ends.                                         *)
MisledFriend(u, f) ==
    /\ clients[u] = None /\ f \in FriendsOf(u)
    /\ clients[f] # None /\ sock[clients[f]] = "open"
    /\ shown[clients[f]][u] = [src |-> "presence", st |-> "Online"]
StalePresenceClears ==
    \A u \in Users : \A f \in Users \ {u} :
        MisledFriend(u, f) ~> ~MisledFriend(u, f)
------------------------------------------------------------------------------
(* Statements of the repository that do not hold.                          *)
Quiet == \A c \in Conns : pc[c] \in {"unused", "idle", "exit"}

(* The comment on the compare-and-swap delete: a kicked read loop must not *)
(* "mark the user offline even though they're online on another device".   *)
OnlineIsShown ==
    \A u, f \in Users :
        /\ Quiet
        /\ clients[u] # None /\ sock[clients[u]] = "open"
        /\ f \in FriendsOf(u) /\ clients[f] # None /\ sock[clients[f]] = "open"
        /\ shown[clients[f]][u].src = "presence"
        => shown[clients[f]][u].st # "Offline"

(* The comment in adminBanHandler: "Revoke all live sessions so the user   *)
(* is logged out everywhere."                                              *)
BannedIsLoggedOut ==
    \A u \in banned : banning[u] = "idle" => clients[u] = None /\ u \notin tokens
=============================================================================
