------------------------ MODULE NexusSessionsProofs ------------------------
(***************************************************************************)
(* Proofs about NexusSessions, for any sets of users and connections.      *)
(*                                                                         *)
(* "Whoever is served is registered" is not inductive by itself: a         *)
(* handler on its way out must stay on its way out (Leaving), a connection *)
(* not yet accepted must belong to nobody (Unaccepted), and a login in     *)
(* progress must know its user (LoginHasUser).                             *)
(***************************************************************************)
EXTENDS NexusSessions, TLAPS

Unaccepted == \A c \in Conns : pc[c] = "unused" => user[c] = None

Leaving == \A c \in Conns :
    req[c] \in {"leave", "delete_account"} => pc[c] \in {"announce", "unregister", "exit"}

LoginHasUser == \A c \in Conns : pc[c] \in {"issue", "register"} => tgt[c] \in Users

IInv == TypeOK /\ ServedIsRegistered /\ Unaccepted /\ Leaving /\ LoginHasUser
------------------------------------------------------------------------------
LEMMA TypeInit == Init => TypeOK
  BY ConstAssumption
  DEF Init, TypeOK, ConstAssumption, PCs, Requests, Status, Seen, Shown,
      NothingSeen, NothingShown

(* Telling connections something about a user keeps shown well typed.      *)
LEMMA TellType ==
  ASSUME TypeOK, NEW conns, NEW u, NEW rec \in Shown, Tell(conns, u, rec)
  PROVE  shown' \in [Conns -> [Users -> Shown]]
  BY DEF Tell, TypeOK

(* A handler that goes on, returns to its read loop or ends keeps the      *)
(* types of its locals, and leaves those of the other handlers alone.      *)
LEMMA HandlerMoves ==
  ASSUME TypeOK, NEW c \in Conns,
         \/ Return(c)
         \/ (\E l \in PCs : Goto(c, l)) /\ UNCHANGED <<req, tgt, say>>
  PROVE  /\ pc' \in [Conns -> PCs] /\ req' \in [Conns -> Requests]
         /\ tgt' \in [Conns -> Users \cup {None}] /\ say' \in [Conns -> Status]
         /\ \A d \in Conns \ {c} : pc'[d] = pc[d] /\ req'[d] = req[d] /\ tgt'[d] = tgt[d]
<1> USE DEF TypeOK, Goto
<1>1. CASE Return(c)
  <2>1. "idle" \in PCs /\ "none" \in Requests /\ "Offline" \in Status
    BY DEF PCs, Requests, Status
  <2>. QED
    BY <1>1, <2>1 DEF Return
<1>2. ASSUME NEW l \in PCs, Goto(c, l), UNCHANGED <<req, tgt, say>>
      PROVE  /\ pc' \in [Conns -> PCs] /\ req' \in [Conns -> Requests]
             /\ tgt' \in [Conns -> Users \cup {None}] /\ say' \in [Conns -> Status]
             /\ \A d \in Conns \ {c} : pc'[d] = pc[d] /\ req'[d] = req[d] /\ tgt'[d] = tgt[d]
  BY <1>2
<1>. QED
  BY <1>1, <1>2

(* Continue and Drained keep the types.                                    *)
LEMMA TypeContinue ==
  ASSUME TypeOK, LoginHasUser, NEW c \in Conns, Continue(c) \/ Drained(c)
  PROVE  TypeOK'
<1> USE ConstAssumption DEF ConstAssumption, dbVars, handlerVars, Goto
<1>1. CASE IssueToken(c)
  BY <1>1 DEF IssueToken, TypeOK, LoginHasUser, PCs
<1>2. CASE Register(c)
  BY <1>2 DEF Register, SockKicked, TypeOK, LoginHasUser, PCs, Status
<1>3. CASE Announce(c)
  <2>1. [src |-> "presence", st |-> say[c]] \in Shown
    BY DEF TypeOK, Shown
  <2>2. shown' \in [Conns -> [Users -> Shown]]
    BY <1>3, <2>1, TellType DEF Announce, broadcastPresence
  <2>3. /\ \/ Return(c)
           \/ (\E l \in PCs : Goto(c, l)) /\ UNCHANGED <<req, tgt, say>>
        /\ sock' = sock \/ sock' = [sock EXCEPT ![c] = "closed"]
    BY <1>3 DEF Announce, Exit, PCs
  <2>4. /\ pc' \in [Conns -> PCs] /\ req' \in [Conns -> Requests]
        /\ tgt' \in [Conns -> Users \cup {None}] /\ say' \in [Conns -> Status]
    BY <2>3, HandlerMoves
  <2>5. sock' \in [Conns -> {"open", "closed"}]
    BY <2>3 DEF TypeOK
  <2>. QED
    BY <1>3, <2>2, <2>4, <2>5 DEF Announce, TypeOK
<1>4. CASE RosterRead(c)
  BY <1>4 DEF RosterRead, StatusOf, TypeOK, PCs, Seen, Status
<1>5. CASE RosterSend(c)
  <2>1. [src |-> "friend_status", st |-> seen[c].st] \in Shown
    BY DEF TypeOK, Shown, Seen
  <2>2. shown' \in [Conns -> [Users -> Shown]]
    BY <1>5, <2>1, TellType DEF RosterSend
  <2>3. NothingSeen \in Seen
    BY DEF NothingSeen, Seen, Status
  <2>4. seen' \in [Conns -> Seen]
    BY <1>5, <2>3 DEF RosterSend, TypeOK
  <2>5. /\ pc' \in [Conns -> PCs] /\ req' \in [Conns -> Requests]
        /\ tgt' \in [Conns -> Users \cup {None}] /\ say' \in [Conns -> Status]
    BY <1>5, HandlerMoves DEF RosterSend, PCs
  <2>. QED
    BY <1>5, <2>2, <2>4, <2>5 DEF RosterSend, TypeOK
<1>6. CASE UnregisterDeleted(c)
  BY <1>6 DEF UnregisterDeleted, OwnEntryDropped, Exit, TypeOK, PCs
<1>7. CASE Drained(c)
  <2>1. FriendsOf(user[c]) \in SUBSET Users /\ todo \in [Conns -> SUBSET Users]
    BY DEF FriendsOf, TypeOK
  <2>0. todo' \in {todo, [todo EXCEPT ![c] = FriendsOf(user[c])]}
    BY <1>7 DEF Drained
  <2>2. todo' \in [Conns -> SUBSET Users]
    BY <2>0, <2>1
  <2>3. /\ pc' \in [Conns -> PCs] /\ req' \in [Conns -> Requests]
        /\ tgt' \in [Conns -> Users \cup {None}] /\ say' \in [Conns -> Status]
    BY <1>7, HandlerMoves DEF Drained, PCs
  <2>. QED
    BY <1>7, <2>2, <2>3 DEF Drained, TypeOK
<1>. QED
  BY <1>1, <1>2, <1>3, <1>4, <1>5, <1>6, <1>7 DEF Continue

(* So do the requests, the disconnects and the deletion of an account.     *)
LEMMA TypeRequest ==
  ASSUME TypeOK, NEW c \in Conns, Request(c) \/ DeleteAccount(c) \/ Vanish(c)
  PROVE  TypeOK'
<1> USE ConstAssumption DEF ConstAssumption, dbVars, handlerVars, Goto
<1>1. CASE Connect(c)
  BY <1>1 DEF Connect, TypeOK, PCs
<1>2. CASE ReadError(c)
  <2>1. clients' \in [Users -> Conns \cup {None}]
    BY <1>2 DEF ReadError, OwnEntryDropped, TypeOK
  <2>. QED
    BY <1>2, <2>1, ZenonT(30) DEF ReadError, Exit, TypeOK, PCs, Requests, Status
<1>3. ASSUME NEW u \in Users, LoginBanned(c, u) PROVE TypeOK'
  BY <1>3 DEF LoginBanned, TypeOK
<1>4. ASSUME NEW u \in Users, NEW k \in LoginKinds, Login(c, u, k) PROVE TypeOK'
  BY <1>4 DEF Login, TypeOK, PCs, Requests
<1>5. ASSUME NEW st \in Statuses, SetStatus(c, st) PROVE TypeOK'
  BY <1>5 DEF SetStatus, TypeOK, PCs, Requests, Status
<1>6. CASE RevokeSession(c)
  BY <1>6 DEF RevokeSession, TypeOK
<1>7. CASE QRApprove(c)
  BY <1>7 DEF QRApprove, TypeOK
<1>8. CASE DeleteAccount(c)
  BY <1>8 DEF DeleteAccount, TypeOK, PCs, Requests
<1>9. CASE Vanish(c)
  BY <1>9 DEF Vanish, TypeOK
<1>. QED
  BY <1>1, <1>2, <1>3, <1>4, <1>5, <1>6, <1>7, <1>8, <1>9 DEF Request

(* So do the administrators, new accounts and the passing of time.         *)
LEMMA TypeAdmin ==
  ASSUME TypeOK, NEW u \in Users, Admin(u) \/ Environment(u)
  PROVE  TypeOK'
<1> USE ConstAssumption DEF ConstAssumption, dbVars, handlerVars
<1>1. CASE BanFlag(u)
  BY <1>1 DEF BanFlag, TypeOK
<1>2. CASE BanRevoke(u)
  BY <1>2 DEF BanRevoke, TypeOK
<1>3. CASE BanKick(u)
  BY <1>3 DEF BanKick, SockKicked, TypeOK
<1>4. CASE Unban(u)
  BY <1>4 DEF Unban, TypeOK
<1>5. CASE SignUp(u)
  BY <1>5 DEF SignUp, TypeOK
<1>6. CASE Expire(u)
  BY <1>6 DEF Expire, TypeOK
<1>. QED
  BY <1>1, <1>2, <1>3, <1>4, <1>5, <1>6 DEF Admin, Environment
------------------------------------------------------------------------------
(* What a handler does on its own keeps the inductive invariant.           *)
LEMMA InvContinue ==
  ASSUME IInv, NEW c \in Conns, Continue(c) \/ Drained(c)
  PROVE  IInv'
<1> USE ConstAssumption DEF ConstAssumption, dbVars, handlerVars, Goto, IInv,
        ServedIsRegistered, Serves, Unaccepted, Leaving, LoginHasUser
<1>0. TypeOK'
  BY TypeContinue
<1>1. CASE IssueToken(c)
  BY <1>0, <1>1 DEF IssueToken, TypeOK
<1>2. CASE Register(c)
  <2>1. ServedIsRegistered'
    BY <1>0, <1>2 DEF Register, SockKicked, TypeOK
  <2>. QED
    BY <1>0, <1>2, <2>1 DEF Register, TypeOK
<1>3. CASE Announce(c)
  <2>0. TypeOK /\ (pc[c] = "announce")
    BY <1>3 DEF Announce
  <2>1. /\ \A d \in Conns \ {c} : pc'[d] = pc[d] /\ req'[d] = req[d] /\ tgt'[d] = tgt[d]
        /\ UNCHANGED <<clients, user>> /\ \A d \in Conns : sock'[d] = "open" => sock[d] = "open"
    <3>1. \/ Return(c)
          \/ (\E l \in PCs : Goto(c, l)) /\ UNCHANGED <<req, tgt, say>>
      BY <1>3 DEF Announce, Exit, PCs
    <3>2. sock' = sock \/ sock' = [sock EXCEPT ![c] = "closed"]
      BY <1>3 DEF Announce, Exit
    <3>3. \A d \in Conns : sock'[d] = "open" => sock[d] = "open"
      BY <2>0, <3>2 DEF TypeOK
    <3>. QED
      BY <1>3, <2>0, <3>1, <3>3, HandlerMoves DEF Announce
  <2>2. /\ pc'[c] \in {"drain", "idle", "exit", "unregister"}
        /\ pc'[c] \in {"drain", "idle"} => req'[c] \notin {"leave", "delete_account"}
        /\ pc'[c] # "idle" => req'[c] = req[c]
        /\ pc'[c] = "exit" <=> req[c] = "leave"
        /\ pc'[c] = "unregister" <=> req[c] = "delete_account"
    <3>1. /\ pc \in [Conns -> PCs] /\ req \in [Conns -> Requests]
          /\ {"leave", "delete_account"} \cap LoginKinds = {}
      BY <2>0 DEF TypeOK
    <3>. QED
      BY <1>3, <3>1 DEF Announce, Return, Exit
  <2> HIDE DEF IInv
  <2>3. ServedIsRegistered'
    <3>1. \A d \in Conns, u \in Users : Serves(d, u)' => Serves(d, u)
      BY <2>0, <2>1, <2>2
    <3>. QED
      BY <2>1, <3>1 DEF IInv
  <2>4. Leaving'
    BY <2>1, <2>2 DEF IInv
  <2>5. Unaccepted' /\ LoginHasUser'
    BY <2>0, <2>1, <2>2 DEF IInv
  <2>. QED
    BY <1>0, <2>3, <2>4, <2>5 DEF IInv
<1>4. CASE RosterRead(c)
  BY <1>0, <1>4 DEF RosterRead, TypeOK
<1>5. CASE RosterSend(c)
  <2>0. TypeOK /\ pc[c] = "rosterSend" /\ UNCHANGED <<clients, sock, user>>
    BY <1>5 DEF RosterSend
  <2>1. req[c] \notin {"leave", "delete_account"}
    BY <2>0
  <2>2. /\ \A d \in Conns \ {c} : pc'[d] = pc[d] /\ req'[d] = req[d] /\ tgt'[d] = tgt[d]
    BY <1>5, <2>0, HandlerMoves DEF RosterSend, PCs
  <2>3. pc'[c] \in {"roster", "idle"} /\ req'[c] \in {req[c], "none"}
    <3>1. pc \in [Conns -> PCs] /\ req \in [Conns -> Requests]
      BY <2>0 DEF TypeOK
    <3>. QED
      BY <1>5, <3>1 DEF RosterSend, Return
  <2> HIDE DEF IInv
  <2>4. ServedIsRegistered'
    <3>1. \A d \in Conns, u \in Users : Serves(d, u)' => Serves(d, u)
      BY <2>0, <2>1, <2>2, <2>3
    <3>. QED
      BY <2>0, <3>1 DEF IInv
  <2>5. Leaving' /\ Unaccepted' /\ LoginHasUser'
    BY <2>0, <2>1, <2>2, <2>3 DEF IInv
  <2>. QED
    BY <1>0, <2>4, <2>5 DEF IInv
<1>6. CASE UnregisterDeleted(c)
  BY <1>0, <1>6 DEF UnregisterDeleted, OwnEntryDropped, Exit, TypeOK
<1>7. CASE Drained(c)
  <2>1. req[c] \notin {"leave", "delete_account"}
    BY <1>7 DEF Drained
  <2>2. ServedIsRegistered'
    <3>1. \A d \in Conns, u \in Users : Serves(d, u)' => Serves(d, u)
      BY <1>7, <2>1 DEF Drained, Return, TypeOK
    <3>. QED
      BY <1>7, <3>1 DEF Drained
  <2>3. Leaving'
    BY <1>7, <2>1 DEF Drained, Return, TypeOK
  <2>4. /\ pc'[c] \in {"roster", "idle"} /\ UNCHANGED user
        /\ \A d \in Conns \ {c} : pc'[d] = pc[d] /\ tgt'[d] = tgt[d]
    BY <1>7 DEF Drained, Return, TypeOK
  <2>5. Unaccepted' /\ LoginHasUser'
    BY <2>4
  <2>. QED
    BY <1>0, <2>2, <2>3, <2>5
<1>. QED
  BY <1>1, <1>2, <1>3, <1>4, <1>5, <1>6, <1>7 DEF Continue

(* So do the requests, the disconnects and the deletion of an account.     *)
LEMMA InvRequest ==
  ASSUME IInv, NEW c \in Conns, Request(c) \/ DeleteAccount(c) \/ Vanish(c)
  PROVE  IInv'
<1> USE ConstAssumption DEF ConstAssumption, dbVars, handlerVars, Goto, IInv,
        ServedIsRegistered, Serves, Unaccepted, Leaving, LoginHasUser
<1>0. TypeOK'
  BY TypeRequest
<1>1. CASE Connect(c)
  BY <1>0, <1>1 DEF Connect, TypeOK
<1>2. CASE ReadError(c)
  <2>1. ServedIsRegistered'
    <3>1. \A d \in Conns, u \in Users :
             Serves(d, u)' => d # c /\ Serves(d, u) /\ clients[u] = d
      BY <1>2 DEF ReadError, Exit, TypeOK
    <3>. QED
      BY <1>2, <3>1 DEF ReadError, OwnEntryDropped, TypeOK
  <2>2. Leaving'
    BY <1>2 DEF ReadError, Exit, TypeOK
  <2>3. Unaccepted' /\ LoginHasUser'
    BY <1>2 DEF ReadError, Exit, TypeOK
  <2>. QED
    BY <1>0, <2>1, <2>2, <2>3
<1>3. ASSUME NEW u \in Users, LoginBanned(c, u) PROVE IInv'
  BY <1>0, <1>3 DEF LoginBanned, TypeOK
<1>4. ASSUME NEW u \in Users, NEW k \in LoginKinds, Login(c, u, k) PROVE IInv'
  BY <1>0, <1>4, SMTT(30) DEF Login, TypeOK
<1>5. ASSUME NEW st \in Statuses, SetStatus(c, st) PROVE IInv'
  BY <1>0, <1>5 DEF SetStatus, TypeOK
<1>6. CASE RevokeSession(c)
  BY <1>0, <1>6 DEF RevokeSession, TypeOK
<1>7. CASE QRApprove(c)
  BY <1>0, <1>7 DEF QRApprove, TypeOK
<1>8. CASE DeleteAccount(c)
  BY <1>0, <1>8 DEF DeleteAccount, TypeOK
<1>9. CASE Vanish(c)
  BY <1>0, <1>9 DEF Vanish, TypeOK
<1>. QED
  BY <1>1, <1>2, <1>3, <1>4, <1>5, <1>6, <1>7, <1>8, <1>9 DEF Request

(* So do the administrators, new accounts and the passing of time: only    *)
(* the kick of a ban touches the registry.                                 *)
LEMMA InvAdmin ==
  ASSUME IInv, NEW u \in Users, Admin(u) \/ Environment(u)
  PROVE  IInv'
<1> USE ConstAssumption DEF ConstAssumption, dbVars, handlerVars, IInv,
        ServedIsRegistered, Serves, Unaccepted, Leaving, LoginHasUser
<1>0. TypeOK'
  BY TypeAdmin
<1>1. CASE BanKick(u)
  BY <1>0, <1>1 DEF BanKick, SockKicked, TypeOK
<1>2. CASE BanFlag(u) \/ BanRevoke(u) \/ Unban(u) \/ SignUp(u) \/ Expire(u)
  BY <1>0, <1>2 DEF BanFlag, BanRevoke, Unban, SignUp, Expire
<1>. QED
  BY <1>1, <1>2 DEF Admin, Environment

LEMMA InvInit == Init => IInv
  BY TypeInit DEF Init, IInv, ServedIsRegistered, Serves, Unaccepted, Leaving,
     LoginHasUser

LEMMA InvNext == IInv /\ [Next]_vars => IInv'
<1> SUFFICES ASSUME IInv, [Next]_vars PROVE IInv'
  OBVIOUS
<1>1. CASE UNCHANGED vars
  BY <1>1 DEF vars, handlerVars, dbVars, IInv, TypeOK, ServedIsRegistered,
     Serves, Unaccepted, Leaving, LoginHasUser
<1>2. CASE Next
  BY <1>2, InvContinue, InvRequest, InvAdmin DEF Next
<1>. QED
  BY <1>1, <1>2

(* However many users and connections there are, and whatever logs in,     *)
(* vanishes, is banned or deleted, the registry and the handlers' locals   *)
(* keep their types.                                                       *)
THEOREM TypeCorrect == Spec => []TypeOK
<1>1. IInv => TypeOK
  BY DEF IInv
<1>. QED
  BY <1>1, InvInit, InvNext, PTL DEF Spec

(* A connection that can take requests of a user is the one registered for *)
(* that user, even when connections log in again as somebody else.         *)
THEOREM ServedCorrect == Spec => []ServedIsRegistered
<1>1. IInv => ServedIsRegistered
  BY DEF IInv
<1>. QED
  BY <1>1, InvInit, InvNext, PTL DEF Spec

(***************************************************************************)
(* Entries and their connections.  A connection may log in again, as       *)
(* somebody else, and leave behind the entry it had; what it has ever been *)
(* is the history variable logged.                                         *)
(***************************************************************************)

(* A connection is one of the users it has logged in as, if any.           *)
LoggedIn == \A c \in Conns :
    user[c] \in logged[c] \/ (user[c] = None /\ logged[c] = {})

(* A login in progress is the connection's first.                          *)
FirstLogin == \A c \in Conns : pc[c] \in {"issue", "register"} => user[c] = None

(* Where connections log in only once, each has one user for good.         *)
OneUser == ~Relogin => FirstLogin /\ \A c \in Conns : logged[c] \subseteq {user[c]}

OInv == IInv /\ LoggedIn /\ OneUser /\ EntryIsOwned
------------------------------------------------------------------------------
(* The steps of a handler in progress, of which only Register adds an      *)
(* entry; the one it may leave behind is no longer answered for.           *)
LEMMA OwnContinue ==
  ASSUME OInv, NEW c \in Conns, Continue(c) \/ Drained(c)
  PROVE  LoggedIn' /\ OneUser' /\ EntryIsOwned'
<1> USE ConstAssumption DEF ConstAssumption, dbVars, handlerVars, Goto, OInv,
        LoggedIn, OneUser, FirstLogin, EntryIsOwned
<1>0. IInv' /\ TypeOK /\ Leaving /\ LoginHasUser
  BY InvContinue DEF IInv
<1>1. CASE IssueToken(c)
  BY <1>0, <1>1 DEF IssueToken, TypeOK
<1>2. CASE Register(c)
  <2>1. req[c] # "leave" /\ tgt[c] \in Users
    BY <1>0, <1>2 DEF Register, Leaving, LoginHasUser
  <2>2. /\ user'[c] = tgt[c] /\ pc'[c] = "announce" /\ req'[c] # "leave"
        /\ logged'[c] = logged[c] \cup {tgt[c]} /\ clients'[tgt[c]] = c
    BY <1>0, <1>2, <2>1 DEF Register, TypeOK
  <2>3. \A u \in Users : u # tgt[c] => clients'[u] = clients[u]
    BY <1>0, <1>2 DEF Register, TypeOK
  <2>4. \A d \in Conns \ {c} : /\ pc'[d] = pc[d] /\ req'[d] = req[d]
                              /\ user'[d] = user[d] /\ logged'[d] = logged[d]
    BY <1>0, <1>2 DEF Register, TypeOK
  <2>5. LoggedIn'
    BY <2>2, <2>4
  <2>6. OneUser'
    <3>1. ~Relogin => user[c] = None /\ logged[c] = {}
      BY <1>2, <1>0 DEF Register, TypeOK
    <3>. QED
      BY <2>2, <2>4, <3>1
  <2>7. EntryIsOwned'
    <3> SUFFICES ASSUME NEW u \in Users, NEW d \in Conns, clients'[u] = d
                 PROVE  /\ u \in logged'[d]
                        /\ logged'[d] = {u} => user'[d] = u
                        /\ user'[d] = u => pc'[d] \notin {"unused", "exit"} /\ req'[d] # "leave"
      <4>1. clients' \in [Users -> Conns \cup {None}]
        BY <1>0 DEF IInv, TypeOK
      <4>. QED
        BY <4>1
    <3>1. CASE u = tgt[c]
      BY <2>1, <2>2, <3>1
    <3>2. CASE u # tgt[c] /\ d = c
      BY <2>1, <2>2, <2>3, <3>2
    <3>3. CASE u # tgt[c] /\ d # c
      BY <2>1, <2>3, <2>4, <3>3
    <3>. QED
      BY <3>1, <3>2, <3>3
  <2>. QED
    BY <2>5, <2>6, <2>7
<1>3. CASE Announce(c)
  BY <1>0, <1>3 DEF Announce, Return, Exit, TypeOK
<1>4. CASE RosterRead(c)
  BY <1>0, <1>4 DEF RosterRead, TypeOK
<1>5. CASE RosterSend(c)
  BY <1>0, <1>5 DEF RosterSend, Return, TypeOK
<1>6. CASE UnregisterDeleted(c)
  <2>1. \A u \in Users : clients'[u] # None =>
           clients'[u] = clients[u] /\ (clients[u] = c => user[c] # u)
    BY <1>0, <1>6 DEF UnregisterDeleted, OwnEntryDropped, TypeOK
  <2>2. /\ \A d \in Conns \ {c} : pc'[d] = pc[d] /\ req'[d] = req[d]
        /\ pc'[c] = "exit" /\ UNCHANGED <<user, logged>>
    BY <1>0, <1>6 DEF UnregisterDeleted, Exit, TypeOK
  <2>3. EntryIsOwned'
    <3>1. \A u \in Users : clients[u] \in Conns \cup {None}
      BY <1>0 DEF TypeOK
    <3>. QED
      BY <2>1, <2>2, <3>1
  <2>. QED
    BY <2>2, <2>3
<1>7. CASE Drained(c)
  BY <1>0, <1>7 DEF Drained, Return, TypeOK
<1>. QED
  BY <1>1, <1>2, <1>3, <1>4, <1>5, <1>6, <1>7 DEF Continue

LEMMA OwnRequest ==
  ASSUME OInv, NEW c \in Conns,
         Request(c) \/ DeleteAccount(c) \/ Vanish(c)
  PROVE  LoggedIn' /\ OneUser' /\ EntryIsOwned'
<1> USE ConstAssumption DEF ConstAssumption, dbVars, handlerVars, Goto, OInv,
        LoggedIn, OneUser, FirstLogin, EntryIsOwned
<1>0. IInv' /\ TypeOK /\ Leaving
  BY InvRequest DEF IInv
<1>1. CASE Connect(c)
  BY <1>0, <1>1 DEF Connect, TypeOK
<1>2. CASE ReadError(c)
  <2>1. \A u \in Users : clients'[u] # None =>
           clients'[u] = clients[u] /\ (clients[u] = c => user[c] # u)
    BY <1>0, <1>2 DEF ReadError, OwnEntryDropped, TypeOK
  <2>2. /\ \A d \in Conns \ {c} : pc'[d] = pc[d] /\ req'[d] = req[d]
        /\ pc'[c] \in {"announce", "exit"} /\ UNCHANGED <<user, logged>>
    BY <1>0, <1>2 DEF ReadError, Exit, TypeOK
  <2>3. EntryIsOwned'
    <3>1. \A u \in Users : clients[u] \in Conns \cup {None}
      BY <1>0 DEF TypeOK
    <3>. QED
      BY <2>1, <2>2, <3>1
  <2>. QED
    BY <2>2, <2>3
<1>3. ASSUME NEW u \in Users, LoginBanned(c, u) PROVE LoggedIn' /\ OneUser' /\ EntryIsOwned'
  BY <1>0, <1>3 DEF LoginBanned, TypeOK
<1>4. ASSUME NEW u \in Users, NEW k \in LoginKinds, Login(c, u, k)
      PROVE  LoggedIn' /\ OneUser' /\ EntryIsOwned'
  BY <1>0, <1>4 DEF Login, TypeOK
<1>5. ASSUME NEW st \in Statuses, SetStatus(c, st) PROVE LoggedIn' /\ OneUser' /\ EntryIsOwned'
  BY <1>0, <1>5 DEF SetStatus, TypeOK
<1>6. CASE RevokeSession(c) \/ QRApprove(c) \/ Vanish(c)
  BY <1>0, <1>6 DEF RevokeSession, QRApprove, Vanish, TypeOK
<1>7. CASE DeleteAccount(c)
  BY <1>0, <1>7 DEF DeleteAccount, TypeOK
<1>. QED
  BY <1>1, <1>2, <1>3, <1>4, <1>5, <1>6, <1>7 DEF Request

LEMMA OwnAdmin ==
  ASSUME OInv, NEW u \in Users, Admin(u) \/ Environment(u)
  PROVE  LoggedIn' /\ OneUser' /\ EntryIsOwned'
<1> USE DEF dbVars, handlerVars, OInv, LoggedIn, OneUser, FirstLogin, EntryIsOwned
<1>1. CASE BanKick(u)
  BY <1>1 DEF BanKick, IInv, TypeOK
<1>2. CASE BanFlag(u) \/ BanRevoke(u) \/ Unban(u) \/ SignUp(u) \/ Expire(u)
  BY <1>2 DEF BanFlag, BanRevoke, Unban, SignUp, Expire
<1>. QED
  BY <1>1, <1>2 DEF Admin, Environment

LEMMA OwnInit == Init => OInv
  BY InvInit DEF Init, OInv, LoggedIn, OneUser, FirstLogin, EntryIsOwned

LEMMA OwnNext ==
  ASSUME OInv, [Next]_vars
  PROVE  OInv'
<1>1. IInv'
  BY InvNext DEF OInv
<1>2. CASE UNCHANGED vars
  BY <1>1, <1>2 DEF vars, handlerVars, dbVars, OInv, LoggedIn, OneUser, FirstLogin, EntryIsOwned
<1>3. CASE Next
  BY <1>1, <1>3, OwnContinue, OwnRequest, OwnAdmin DEF Next, OInv
<1>. QED
  BY <1>2, <1>3

(* Every entry of s.Clients is that of a connection that has logged in as  *)
(* its user; its handler is still running and has not started leaving,     *)
(* unless the connection has logged in as somebody else since.             *)
THEOREM EntriesAreOwned == Spec => []EntryIsOwned
<1>1. OInv /\ [Next]_vars => OInv'
  BY OwnNext
<1>2. OInv => EntryIsOwned
  BY DEF OInv
<1>. QED
  BY <1>1, <1>2, OwnInit, PTL DEF Spec
------------------------------------------------------------------------------
(***************************************************************************)
(* What friends were last told of a user who has gone.  GoneIsHeard speaks *)
(* of the moment when nobody is left; until then somebody is: the user has *)
(* an entry, whose handler runs, or a handler that will not end before it  *)
(* has said "Offline" or seen another entry in place of its own.           *)
(***************************************************************************)
LeavesOffline == \A c \in Conns : req[c] = "leave" => say[c] = "Offline"

(* Who deletes an account has no friends left to tell.                     *)
Erasing ==
    \A c \in Conns :
       /\ pc[c] = "unregister" => req[c] = "delete_account"
       /\ req[c] = "delete_account" /\ user[c] \in Users => FriendsOf(user[c]) = {}

(* A connection without a user has been told nothing.                      *)
Untold == \A c \in Conns, u \in Users : user[c] = None => shown[c][u].src # "presence"

Attended(u) == clients[u] # None \/ \E c \in Conns : user[c] = u /\ pc[c] # "exit"
Believes(d, u) ==
    sock[d] = "open" /\ shown[d][u].src = "presence" /\ shown[d][u].st # "Offline"
WillHear ==
    \A u, f \in Users :
       /\ Loyal(u) /\ Loyal(f) /\ f \in FriendsOf(u)
       /\ clients[f] # None /\ Believes(clients[f], u)
       => Attended(u)

HeardInv == LeavesOffline /\ Erasing /\ Untold /\ WillHear

(* Friendships only go (new ones are NexusSocial's).                       *)
LEMMA FewerFriends ==
  ASSUME friends' \subseteq friends, NEW u \in Users
  PROVE  FriendsOf(u)' \subseteq FriendsOf(u)
BY DEF FriendsOf

(* Who has only loyal connections after a step had only loyal ones before  *)
(* it, and an entry is that of a connection that is its user's.            *)
LEMMA LoyalBefore ==
  ASSUME \A c \in Conns : logged[c] \subseteq logged'[c], LoggedIn, NEW u \in Users, Loyal(u)'
  PROVE  Loyal(u)
BY DEF Loyal, LoggedIn

LEMMA LoyalEntry ==
  ASSUME OInv, NEW u \in Users, Loyal(u), clients[u] # None
  PROVE  /\ clients[u] \in Conns /\ user[clients[u]] = u
         /\ pc[clients[u]] \notin {"unused", "exit"}
<1>1. clients[u] \in Conns
  BY DEF OInv, IInv, TypeOK
<1>. QED
  BY <1>1 DEF OInv, EntryIsOwned, Loyal

(* A step that tells nobody of presence and registers nobody keeps what    *)
(* friends will hear, if it leaves somebody behind.                        *)
LEMMA HearKept ==
  ASSUME OInv, WillHear, friends' \subseteq friends, UNCHANGED logged,
         \A u \in Users : clients'[u] # None => clients'[u] = clients[u],
         \A d \in Conns : sock'[d] = "open" => sock[d] = "open" \/ pc[d] = "unused",
         \A d \in Conns, u \in Users :
            shown'[d][u] = shown[d][u] \/ shown'[d][u].src # "presence",
         \A u \in Users : Loyal(u) /\ Attended(u) => Attended(u)' \/ FriendsOf(u)' = {}
  PROVE  WillHear'
<1> SUFFICES ASSUME NEW u \in Users, NEW f \in Users, NEW d, d = clients'[f],
                    Loyal(u)', Loyal(f)',
                    f \in FriendsOf(u)', d # None, Believes(d, u)'
             PROVE  Attended(u)'
  BY DEF WillHear, Believes
<1>0. Loyal(u) /\ Loyal(f)
  BY LoyalBefore DEF OInv
<1>1. d \in Conns /\ d = clients[f]
  BY DEF OInv, IInv, TypeOK
<1>2. sock[d] = "open" /\ shown'[d][u] = shown[d][u]
  <2>1. pc[d] # "unused"
    BY <1>0, <1>1, LoyalEntry
  <2>. QED
    BY <1>1, <2>1 DEF Believes
<1>3. Believes(d, u)
  BY <1>2 DEF Believes
<1>4. f \in FriendsOf(u)
  BY FewerFriends
<1>. QED
  BY <1>0, <1>1, <1>3, <1>4 DEF WillHear

(* A handler stays with its user.                                          *)
LEMMA Stays ==
  ASSUME NEW c \in Conns, \A d \in Conns \ {c} : user'[d] = user[d] /\ pc'[d] = pc[d],
         user'[c] = user[c], pc'[c] # "exit", UNCHANGED clients, NEW u, Attended(u)
  PROVE  Attended(u)'
BY DEF Attended

(* The steps of a handler in progress. *)
LEMMA HeardContinue ==
  ASSUME OInv, HeardInv, NEW c \in Conns, Continue(c) \/ Drained(c)
  PROVE  HeardInv'
<1> USE DEF dbVars, handlerVars, Goto
<1>0. TypeOK /\ Leaving /\ LoginHasUser /\ LeavesOffline /\ Erasing /\ Untold /\ WillHear
  BY DEF OInv, IInv, HeardInv
<1>1. CASE IssueToken(c)
  <2>1. LeavesOffline' /\ Erasing' /\ Untold'
    BY <1>0, <1>1 DEF IssueToken, TypeOK, LeavesOffline, Erasing, Untold, FriendsOf
  <2>2. \A u \in Users : Attended(u) => Attended(u)'
    BY <1>0, <1>1, Stays DEF IssueToken, TypeOK
  <2>. QED
    BY <1>0, <1>1, <2>1, <2>2, HearKept DEF IssueToken, HeardInv
<1>2. CASE Register(c)
  <2>1. PICK w \in Users : w = tgt[c]
    BY <1>0, <1>2 DEF Register, LoginHasUser
  <2>2. /\ req[c] \notin {"leave", "delete_account"} /\ pc[c] = "register" /\ c # None
    BY <1>0, <1>2, ConstAssumption DEF Register, Leaving, ConstAssumption
  <2>3. /\ clients'[w] = c /\ \A u \in Users \ {w} : clients'[u] = clients[u]
        /\ pc'[c] = "announce" /\ user'[c] = w /\ logged'[c] = logged[c] \cup {w}
        /\ \A d \in Conns \ {c} : /\ pc'[d] = pc[d] /\ user'[d] = user[d]
                                  /\ say'[d] = say[d] /\ logged'[d] = logged[d]
        /\ \A d \in Conns : sock'[d] = "open" => sock[d] = "open" /\ d # clients[w]
        /\ UNCHANGED <<req, shown, friends>>
    BY <1>0, <1>2, <2>1 DEF Register, SockKicked, TypeOK
  <2>4. LeavesOffline' /\ Erasing' /\ Untold'
    BY <1>0, <2>2, <2>3, ConstAssumption
    DEF LeavesOffline, Erasing, Untold, FriendsOf, ConstAssumption
  <2>5. ASSUME NEW u \in Users, Loyal(u)', Attended(u) PROVE Attended(u)'
    <3>1. CASE u = w
      BY <2>2, <2>3, <3>1 DEF Attended
    <3>2. CASE u # w
      <4>1. user[c] # u
        BY <2>3, <2>5, <3>2, ConstAssumption DEF Loyal, OInv, LoggedIn, ConstAssumption
      <4>. QED
        BY <2>3, <2>5, <3>2, <4>1 DEF Attended
    <3>. QED
      BY <3>1, <3>2
  <2>6. ASSUME NEW u \in Users, NEW f \in Users, NEW d, d = clients'[f],
               Loyal(u)', Loyal(f)', f \in FriendsOf(u)', d # None, Believes(d, u)'
        PROVE  Attended(u)'
    <3>0. Loyal(u) /\ Loyal(f)
      BY <2>3, <2>6, LoyalBefore DEF OInv
    <3>1. f # w
      <4> SUFFICES ASSUME f = w PROVE FALSE
        OBVIOUS
      <4>1. d = c /\ sock[c] = "open" /\ c # clients[w] /\ logged[c] \subseteq {w}
        BY <2>3, <2>6 DEF Believes, Loyal
      <4>2. shown[c][u].src = "presence"
        BY <2>3, <2>6, <4>1 DEF Believes
      <4>3. user[c] = w
        <5>1. user[c] # None
          BY <1>0, <4>2 DEF Untold
        <5>2. user[c] \in logged[c]
          BY <5>1 DEF OInv, LoggedIn
        <5>. QED
          BY <4>1, <5>2
      <4>4. Serves(c, w)
        BY <2>2, <4>1, <4>3 DEF Serves
      <4>5. ServedIsRegistered
        BY DEF OInv, IInv
      <4>. QED
        BY <4>1, <4>4, <4>5 DEF ServedIsRegistered
    <3>2. d \in Conns /\ d = clients[f]
      BY <1>0, <2>3, <2>6, <3>1 DEF TypeOK
    <3>3. Believes(d, u) /\ f \in FriendsOf(u)
      BY <2>3, <2>6, <3>1, <3>2 DEF Believes, FriendsOf
    <3>. QED
      BY <1>0, <2>5, <2>6, <3>0, <3>2, <3>3 DEF WillHear
  <2>7. WillHear'
    BY <2>6 DEF WillHear, Believes
  <2>. QED
    BY <2>4, <2>7 DEF HeardInv
<1>3. CASE Announce(c)
  <2>1. /\ pc[c] = "announce" /\ UNCHANGED <<clients, user, friends, logged>>
        /\ broadcastPresence(user[c], say[c])
        /\ \A d \in Conns \ {c} : pc'[d] = pc[d] /\ req'[d] = req[d] /\ say'[d] = say[d]
        /\ \A d \in Conns : sock'[d] = "open" => sock[d] = "open"
        /\ \/ /\ pc'[c] \notin {"exit", "unregister"}
              /\ (req'[c] = req[c] /\ req[c] \in LoginKinds) \/ req'[c] = "none"
           \/ pc'[c] = "exit" /\ req[c] = "leave" /\ req'[c] = req[c] /\ say'[c] = say[c]
           \/ pc'[c] = "unregister" /\ req[c] = "delete_account" /\ req'[c] = req[c]
              /\ say'[c] = say[c]
    BY <1>0, <1>3 DEF Announce, Return, Exit, TypeOK
  <2>2. \A d \in Conns, u \in Users :
           \/ shown'[d][u] = shown[d][u]
           \/ /\ u = user[c] /\ shown'[d][u] = [src |-> "presence", st |-> say[c]]
              /\ \E f \in Users : clients[f] = d
    BY <1>0, <2>1 DEF broadcastPresence, Tell, TypeOK, FriendsOf
  <2>3. ASSUME user[c] \in Users, NEW f \in FriendsOf(user[c]), NEW d \in Conns,
               clients[f] = d, sock[d] = "open"
        PROVE  shown'[d][user[c]] = [src |-> "presence", st |-> say[c]]
    BY <1>0, <2>1, <2>3 DEF broadcastPresence, Tell, TypeOK
  <2>4. LeavesOffline' /\ Erasing'
    BY <1>0, <2>1, ConstAssumption
    DEF LeavesOffline, Erasing, FriendsOf, ConstAssumption
  <2>5. Untold'
    <3>1. \A f \in Users : clients[f] # None => user[clients[f]] # None
      <4> SUFFICES ASSUME NEW f \in Users, clients[f] # None PROVE user[clients[f]] # None
        OBVIOUS
      <4>1. clients[f] \in Conns /\ f \in logged[clients[f]] /\ logged[clients[f]] \subseteq Users
        BY <1>0 DEF OInv, EntryIsOwned, TypeOK
      <4>. QED
        BY <4>1, ConstAssumption DEF OInv, LoggedIn, ConstAssumption
    <3>. QED
      BY <1>0, <2>1, <2>2, <3>1, ConstAssumption DEF Untold, ConstAssumption
  <2>6. ASSUME NEW u \in Users, NEW f \in Users, NEW d, d = clients'[f],
               Loyal(u)', Loyal(f)', f \in FriendsOf(u)', d # None, Believes(d, u)'
        PROVE  Attended(u)'
    <3>0. Loyal(u) /\ Loyal(f)
      BY <2>1, <2>6 DEF Loyal
    <3>1. d \in Conns /\ d = clients[f]
      BY <1>0, <2>1, <2>6 DEF TypeOK
    <3>2. f \in FriendsOf(u) /\ sock[d] = "open"
      BY <2>1, <2>6, <3>1 DEF FriendsOf, Believes
    <3>3. CASE u = user[c]
      <4>1. shown'[d][u].st = say[c]
        BY <2>3, <3>1, <3>2, <3>3
      <4>2. req[c] # "leave"
        BY <1>0, <2>6, <3>1, <4>1 DEF LeavesOffline, Believes
      <4>. QED
        BY <2>1, <3>3, <4>2 DEF Attended
    <3>4. CASE u # user[c]
      <4>1. Believes(d, u)
        BY <2>2, <2>6, <3>1, <3>2, <3>4 DEF Believes
      <4>2. Attended(u)
        BY <1>0, <2>6, <3>0, <3>1, <3>2, <4>1 DEF WillHear
      <4>. QED
        BY <2>1, <3>4, <4>2 DEF Attended
    <3>. QED
      BY <3>3, <3>4
  <2>. QED
    BY <2>4, <2>5, <2>6 DEF HeardInv, WillHear, Believes
<1>4. CASE RosterRead(c) \/ Drained(c)
  <2>1. /\ UNCHANGED <<clients, user, friends, sock, shown, logged>> /\ pc[c] \in {"roster", "drain"}
        /\ pc'[c] \notin {"exit", "unregister"}
        /\ \A d \in Conns \ {c} : pc'[d] = pc[d] /\ req'[d] = req[d] /\ say'[d] = say[d]
        /\ req'[c] \in {req[c], "none"}
    BY <1>0, <1>4 DEF RosterRead, Drained, Return, TypeOK
  <2>2. LeavesOffline' /\ Erasing' /\ Untold'
    BY <1>0, <2>1 DEF LeavesOffline, Erasing, Untold, Leaving, FriendsOf
  <2>3. \A u \in Users : Attended(u) => Attended(u)'
    BY <2>1, Stays
  <2>. QED
    BY <1>0, <2>1, <2>2, <2>3, HearKept DEF HeardInv
<1>5. CASE RosterSend(c)
  <2>1. /\ UNCHANGED <<clients, user, friends, sock, logged>> /\ pc[c] = "rosterSend"
        /\ pc'[c] \notin {"exit", "unregister"}
        /\ \A d \in Conns \ {c} : pc'[d] = pc[d] /\ req'[d] = req[d] /\ say'[d] = say[d]
        /\ req'[c] \in {req[c], "none"}
    BY <1>0, <1>5 DEF RosterSend, Return, TypeOK
  <2>2. \A d \in Conns, u \in Users :
           shown'[d][u] = shown[d][u] \/ shown'[d][u].src # "presence"
    BY <1>0, <1>5 DEF RosterSend, Tell, TypeOK
  <2>3. LeavesOffline' /\ Erasing' /\ Untold'
    BY <1>0, <2>1, <2>2 DEF LeavesOffline, Erasing, Untold, Leaving, FriendsOf
  <2>4. \A u \in Users : Attended(u) => Attended(u)'
    BY <2>1, Stays
  <2>. QED
    BY <1>0, <2>1, <2>2, <2>3, <2>4, HearKept DEF HeardInv
<1>6. CASE UnregisterDeleted(c)
  <2>1. /\ pc[c] = "unregister" /\ pc'[c] = "exit"
        /\ UNCHANGED <<user, friends, shown, req, say, logged>>
        /\ \A d \in Conns \ {c} : pc'[d] = pc[d]
        /\ \A d \in Conns : sock'[d] = "open" => sock[d] = "open"
        /\ \A u \in Users : clients'[u] = clients[u] \/ (clients'[u] = None /\ u = user[c])
    BY <1>0, <1>6 DEF UnregisterDeleted, OwnEntryDropped, Exit, TypeOK
  <2>2. LeavesOffline' /\ Erasing' /\ Untold'
    BY <1>0, <2>1 DEF LeavesOffline, Erasing, Untold, FriendsOf
  <2>3. user[c] \in Users => FriendsOf(user[c])' = {}
    BY <1>0, <2>1 DEF Erasing, FriendsOf
  <2>4. \A u \in Users : Attended(u) => Attended(u)' \/ FriendsOf(u)' = {}
    BY <2>1, <2>3 DEF Attended
  <2>. QED
    BY <1>0, <2>1, <2>2, <2>4, HearKept DEF HeardInv
<1>. QED
  BY <1>1, <1>2, <1>3, <1>4, <1>5, <1>6 DEF Continue

(* The steps that begin a request or delete an account, and the end of a socket. *)
LEMMA HeardRequest ==
  ASSUME OInv, HeardInv, NEW c \in Conns,
         Request(c) \/ DeleteAccount(c) \/ Vanish(c)
  PROVE  HeardInv'
<1> USE DEF dbVars, handlerVars, Goto
<1>0. TypeOK /\ Leaving /\ LeavesOffline /\ Erasing /\ Untold /\ WillHear
  BY DEF OInv, IInv, HeardInv
<1>1. CASE ReadError(c)
  <2>1. /\ pc[c] = "idle" /\ UNCHANGED <<user, friends, shown, logged>>
        /\ \A d \in Conns \ {c} : pc'[d] = pc[d] /\ req'[d] = req[d] /\ say'[d] = say[d]
        /\ \A d \in Conns : sock'[d] = "open" => sock[d] = "open"
        /\ \A u \in Users : clients'[u] = clients[u] \/ (clients'[u] = None /\ u = user[c])
        /\ pc'[c] # "unregister"
        /\ \/ req'[c] = req[c] /\ say'[c] = say[c]
           \/ req'[c] = "leave" /\ say'[c] = "Offline"
    BY <1>0, <1>1 DEF ReadError, OwnEntryDropped, Exit, TypeOK
  <2>2. \/ pc'[c] # "exit"
        \/ user[c] = None
        \/ clients[user[c]] \notin {None, c} /\ clients' = OwnEntryDropped(c)
    BY <1>0, <1>1 DEF ReadError, WasReplaced, TypeOK
  <2>3. LeavesOffline' /\ Erasing' /\ Untold'
    BY <1>0, <2>1 DEF LeavesOffline, Erasing, Untold, Leaving, FriendsOf
  <2>4. ASSUME NEW u \in Users, Attended(u) PROVE Attended(u)'
    <3>1. CASE u # user[c]
      BY <2>1, <2>4, <3>1 DEF Attended
    <3>2. CASE u = user[c] /\ pc'[c] # "exit"
      BY <2>1, <3>2 DEF Attended
    <3>3. CASE u = user[c] /\ pc'[c] = "exit"
      <4>1. clients[u] \notin {None, c} /\ clients' = OwnEntryDropped(c)
        BY <2>2, <3>3, ConstAssumption DEF ConstAssumption
      <4>2. clients'[u] = clients[u]
        BY <1>0, <3>3, <4>1 DEF OwnEntryDropped, TypeOK
      <4>. QED
        BY <4>1, <4>2 DEF Attended
    <3>. QED
      BY <3>1, <3>2, <3>3
  <2>. QED
    BY <1>0, <2>1, <2>3, <2>4, HearKept DEF HeardInv
<1>2. CASE DeleteAccount(c)
  <2>1. /\ pc[c] = "idle" /\ pc'[c] = "announce" /\ req'[c] = "delete_account"
        /\ UNCHANGED <<clients, user, sock, shown, say, logged>> /\ friends' \subseteq friends
        /\ \A d \in Conns \ {c} : pc'[d] = pc[d] /\ req'[d] = req[d]
        /\ friends' = {r \in friends : user[c] \notin {r[1], r[2]}}
    BY <1>0, <1>2 DEF DeleteAccount, TypeOK
  <2>2. FriendsOf(user[c])' = {}
    BY <2>1 DEF FriendsOf
  <2>3. LeavesOffline' /\ Untold'
    BY <1>0, <2>1 DEF LeavesOffline, Untold
  <2>4. Erasing'
    BY <1>0, <2>1, <2>2, FewerFriends DEF Erasing
  <2>5. \A u \in Users : Attended(u) => Attended(u)'
    BY <2>1, Stays
  <2>. QED
    BY <1>0, <2>1, <2>3, <2>4, <2>5, HearKept DEF HeardInv
<1>3. CASE \/ Connect(c) \/ Vanish(c) \/ RevokeSession(c) \/ QRApprove(c)
           \/ \E u \in Users : LoginBanned(c, u) \/ \E k \in LoginKinds : Login(c, u, k)
           \/ \E st \in Statuses : SetStatus(c, st)
  <2>1. /\ UNCHANGED <<clients, user, friends, shown, logged>>
        /\ \A d \in Conns \ {c} : pc'[d] = pc[d] /\ req'[d] = req[d] /\ say'[d] = say[d]
        /\ \/ UNCHANGED <<pc, req, say>>
           \/ UNCHANGED <<req, say>> /\ pc'[c] = "idle"
           \/ /\ pc'[c] \in {"issue", "register", "announce"}
              /\ req'[c] \in LoginKinds \cup {"presence"}
        /\ \A d \in Conns : sock'[d] = "open" => sock[d] = "open" \/ pc[d] = "unused"
    <3>1. CASE Connect(c) \/ Vanish(c) \/ RevokeSession(c) \/ QRApprove(c)
      BY <1>0, <3>1 DEF Connect, Vanish, RevokeSession, QRApprove, TypeOK
    <3>2. ASSUME NEW u \in Users, LoginBanned(c, u)
          PROVE  UNCHANGED <<clients, user, friends, shown, pc, req, say, sock, logged>>
      BY <3>2 DEF LoginBanned
    <3>3. ASSUME NEW u \in Users, NEW k \in LoginKinds, Login(c, u, k)
          PROVE  /\ UNCHANGED <<clients, user, friends, shown, say, sock, logged>>
                 /\ \A d \in Conns \ {c} : pc'[d] = pc[d] /\ req'[d] = req[d]
                 /\ pc'[c] \in {"issue", "register"} /\ req'[c] \in LoginKinds
      BY <1>0, <3>3 DEF Login, TypeOK
    <3>4. ASSUME NEW st \in Statuses, SetStatus(c, st)
          PROVE  /\ UNCHANGED <<clients, user, friends, shown, sock, logged>>
                 /\ \A d \in Conns \ {c} : pc'[d] = pc[d] /\ req'[d] = req[d] /\ say'[d] = say[d]
                 /\ pc'[c] = "announce" /\ req'[c] = "presence"
      BY <1>0, <3>4 DEF SetStatus, TypeOK
    <3>. QED
      BY <1>3, <3>1, <3>2, <3>3, <3>4
  <2>2. LeavesOffline' /\ Erasing' /\ Untold'
    BY <1>0, <2>1, ConstAssumption
    DEF LeavesOffline, Erasing, Untold, FriendsOf, ConstAssumption
  <2>3. \A u \in Users : Attended(u) => Attended(u)'
    BY <2>1 DEF Attended
  <2>. QED
    BY <1>0, <2>1, <2>2, <2>3, HearKept DEF HeardInv
<1>. QED
  BY <1>1, <1>2, <1>3 DEF Request

(* Bans, and accounts that come and go. *)
LEMMA HeardAdmin ==
  ASSUME OInv, HeardInv, NEW w \in Users, Admin(w) \/ Environment(w)
  PROVE  HeardInv'
<1> USE DEF dbVars, handlerVars
<1>0. TypeOK /\ LeavesOffline /\ Erasing /\ Untold /\ WillHear
  BY DEF OInv, IInv, HeardInv
<1>1. UNCHANGED <<pc, user, req, say, shown, friends, logged>>
  BY DEF Admin, Environment, BanFlag, BanRevoke, BanKick, Unban, SignUp, Expire
<1>2. LeavesOffline' /\ Erasing' /\ Untold'
  BY <1>0, <1>1 DEF LeavesOffline, Erasing, Untold, FriendsOf
<1>3. /\ \A d \in Conns : sock'[d] = "open" => sock[d] = "open"
      /\ \A u \in Users : clients'[u] = clients[u] \/ clients'[u] = None
  BY <1>0 DEF Admin, Environment, BanFlag, BanRevoke, BanKick, SockKicked, Unban, SignUp,
              Expire, TypeOK
<1>4. ASSUME NEW u \in Users, Loyal(u), Attended(u) PROVE Attended(u)'
  <2>1. CASE clients[u] = None
    BY <1>1, <1>4, <2>1 DEF Attended
  <2>2. CASE clients[u] # None
    <3>1. clients[u] \in Conns /\ user[clients[u]] = u /\ pc[clients[u]] # "exit"
      BY <1>4, <2>2, LoyalEntry
    <3>. QED
      BY <1>1, <3>1 DEF Attended
  <2>. QED
    BY <2>1, <2>2
<1>. QED
  BY <1>0, <1>1, <1>2, <1>3, <1>4, HearKept DEF HeardInv

(* Every step. *)
LEMMA HeardNext ==
  ASSUME OInv, HeardInv, [Next]_vars
  PROVE  HeardInv'
<1>1. CASE UNCHANGED vars
  BY <1>1
  DEF vars, handlerVars, dbVars, HeardInv, LeavesOffline, Erasing, Untold, WillHear, Attended,
      Believes, FriendsOf, Loyal
<1>2. CASE Next
  BY <1>2, HeardContinue, HeardRequest, HeardAdmin DEF Next
<1>. QED
  BY <1>1, <1>2

(* A friend's last presence event about a user who has neither entry nor   *)
(* handler left is "Offline", however the broadcasts of replaced, kicked   *)
(* and deleted sessions cross, unless a connection of either logged in as  *)
(* somebody else.                                                          *)
THEOREM GoneAreReported == Spec => []GoneIsHeard
<1>1. OInv /\ HeardInv /\ [Next]_vars => (OInv /\ HeardInv)'
  BY OwnNext, HeardNext
<1>2. Init => OInv /\ HeardInv
  BY OwnInit
  DEF Init, HeardInv, LeavesOffline, Erasing, Untold, WillHear, Believes, NothingShown
<1>3. HeardInv => GoneIsHeard
  BY DEF HeardInv, WillHear, GoneIsHeard, Attended, Believes, Settled
<1>. QED
  BY <1>1, <1>2, <1>3, PTL DEF Spec
------------------------------------------------------------------------------
(* Serving, in terms of Serves.                                            *)
LEMMA ServingIs ==
  ASSUME NEW c \in Conns
  PROVE  /\ \A u \in Users : Serves(c, u) <=> Serving[c] = u /\ u # None
         /\ Serving[c] = None <=> \A u \in Users : ~Serves(c, u)
  BY ConstAssumption DEF ConstAssumption, Serving, Serves

(* A step that changes nothing about who serves whom is a stutter.         *)
LEMMA Stutters ==
  ASSUME \A d \in Conns, w \in Users : Serves(d, w)' <=> Serves(d, w)
  PROVE  Serving' = Serving
  BY DEF Serving, Serves

(* A step by which at most one connection stops serving ends its service.  *)
LEMMA Stops ==
  ASSUME NEW c \in Conns,
         \A d \in Conns \ {c}, w \in Users : Serves(d, w)' <=> Serves(d, w),
         \A w \in Users : Serves(c, w)' => Serves(c, w)
  PROVE  [One!Next]_Serving
<1>1. CASE \A w \in Users : Serves(c, w)' <=> Serves(c, w)
  <2>1. Serving' = Serving
    BY <1>1, Stutters
  <2>. QED
    BY <2>1
<1>2. CASE \E w \in Users : Serves(c, w) /\ ~Serves(c, w)'
  <2>1. PICK u \in Users : Serves(c, u) /\ ~Serves(c, u)'
    BY <1>2
  <2>2. \A w \in Users : ~Serves(c, w)'
    BY <2>1 DEF Serves
  <2>3. Serving[c] # None
    BY <2>1, ServingIs
  <2>4. Serving' = [Serving EXCEPT ![c] = None]
    BY <2>2 DEF Serving, Serves
  <2>. QED
    BY <2>3, <2>4 DEF One!Next, One!End
<1>. QED
  BY <1>1, <1>2

(* The registration of a login begins its service and ends that of the     *)
(* connection it kicks, whomever that serves; if its own socket is closed, *)
(* or is the one the login kicks, no service begins.                       *)
LEMMA RegisterRefines ==
  ASSUME OInv, NEW c \in Conns, Register(c)
  PROVE  [One!Next]_Serving
<1>a. PICK u \in Users : u = tgt[c]
  BY DEF Register, OInv, IInv, LoginHasUser
<1>b. PICK old \in Conns \cup {None} : old = clients[u]
  BY DEF OInv, IInv, TypeOK
<1>1. TypeOK /\ ServedIsRegistered /\ u = tgt[c] /\ old = clients[u]
  BY <1>a, <1>b DEF OInv, IInv
<1>2. req[c] \notin {"leave", "delete_account"} /\ pc[c] = "register"
  BY DEF Register, OInv, IInv, Leaving
<1>3. \A d \in Conns \ {c}, w \in Users : Serves(d, w)' <=> Serves(d, w) /\ d # old
  BY <1>1 DEF Register, Goto, SockKicked, TypeOK, Serves
<1>4. CASE sock[c] = "open" /\ c # old
  <2>1. Serves(c, u)'
    BY <1>1, <1>2, <1>4 DEF Register, Goto, SockKicked, TypeOK, Serves
  <2>2. \A d \in Conns : Serves(d, u) => d = old
    BY <1>1 DEF ServedIsRegistered
  <2>3. ASSUME NEW d \in Conns
        PROVE  Serving'[d] = IF d = c THEN u
                             ELSE IF d = old \/ Serving[d] = u THEN None
                             ELSE Serving[d]
    <3>1. CASE d = c
      BY <1>1, <2>1, <3>1 DEF Serving, Serves
    <3>2. CASE d # c
      <4>1. user'[d] = user[d]
        BY <1>1, <3>2 DEF Register, TypeOK
      <4>2. \A w \in Users : Serves(d, w)' <=> Serves(d, w) /\ d # old
        BY <1>3, <3>2
      <4>3. Serving'[d] = IF d = old THEN None ELSE Serving[d]
        BY <4>1, <4>2 DEF Serving
      <4>4. Serving[d] = u => d = old
        BY <2>2, ConstAssumption DEF Serving, Serves, ConstAssumption
      <4>. QED
        BY <3>2, <4>3, <4>4
    <3>. QED
      BY <3>1, <3>2
  <2>4. Serving' = [d \in Conns |-> IF d = c THEN u
                                    ELSE IF d = old \/ Serving[d] = u THEN None
                                    ELSE Serving[d]]
    BY <2>3 DEF Serving
  <2>5. ASSUME ~Relogin
        PROVE  Serving[c] = None /\ (old # None => Serving[old] \in {u, None})
    <3>1. user[c] = None /\ \A d \in Conns : logged[d] \subseteq {user[d]}
      BY <1>2, <2>5 DEF OInv, OneUser, FirstLogin
    <3>2. old # None => user[old] = u
      BY <1>1, <3>1 DEF OInv, EntryIsOwned
    <3>3. \A d \in Conns : Serving[d] \in {user[d], None}
      BY DEF Serving
    <3>. QED
      BY <3>1, <3>2, <3>3
  <2>6. old \in (Conns \ {c}) \cup {None}
    BY <1>4
  <2>. QED
    BY <2>4, <2>5, <2>6 DEF One!Next, One!Begin
<1>5. CASE ~(sock[c] = "open" /\ c # old)
  <2>1. \A w \in Users : ~Serves(c, w)'
    BY <1>1, <1>5 DEF Register, SockKicked, TypeOK, Serves
  <2>2. CASE old = c
    BY <1>3, <2>1, <2>2, Stops
  <2>3. CASE old # c
    <3>1. \A w \in Users : ~Serves(c, w)
      BY <1>5, <2>3 DEF Serves
    <3>2. CASE old \in Conns
      BY <1>3, <2>1, <3>1, <3>2, Stops
    <3>3. CASE old \notin Conns
      BY <1>3, <2>1, <3>1, <3>3, Stutters
    <3>. QED
      BY <3>2, <3>3
  <2>. QED
    BY <2>2, <2>3
<1>. QED
  BY <1>4, <1>5

(* Every other step of a handler can only end the service of its own       *)
(* connection.                                                             *)
LEMMA HandlerStops ==
  ASSUME OInv, NEW c \in Conns,
         \/ Continue(c) /\ ~Register(c)
         \/ Drained(c) \/ Request(c) \/ DeleteAccount(c) \/ Vanish(c)
  PROVE  [One!Next]_Serving
<1> USE DEF handlerVars, dbVars, Goto, Serves
<1>0. TypeOK /\ Unaccepted /\ Leaving
  BY DEF OInv, IInv
<1>1. SUFFICES /\ \A d \in Conns \ {c}, w \in Users : Serves(d, w)' <=> Serves(d, w)
               /\ \A w \in Users : Serves(c, w)' => Serves(c, w)
  BY Stops
<1>2. CASE IssueToken(c) \/ RosterRead(c) \/ UnregisterDeleted(c)
  BY <1>0, <1>2 DEF IssueToken, RosterRead, UnregisterDeleted, Exit, TypeOK
<1>3. CASE Announce(c)
  BY <1>0, <1>3, ConstAssumption
  DEF Announce, Return, Exit, TypeOK, Leaving, ConstAssumption
<1>4. CASE RosterSend(c)
  BY <1>0, <1>4 DEF RosterSend, Return, TypeOK, Leaving
<1>5. CASE Drained(c)
  BY <1>0, <1>5 DEF Drained, Return, TypeOK, Leaving
<1>6. CASE Connect(c)
  BY <1>0, <1>6, ConstAssumption DEF Connect, TypeOK, Unaccepted, ConstAssumption
<1>7. CASE ReadError(c)
  BY <1>0, <1>7 DEF ReadError, Exit, TypeOK
<1>8. ASSUME NEW u \in Users, NEW k \in LoginKinds, Login(c, u, k)
      PROVE  /\ \A d \in Conns \ {c}, w \in Users : Serves(d, w)' <=> Serves(d, w)
             /\ \A w \in Users : Serves(c, w)' => Serves(c, w)
  BY <1>0, <1>8 DEF Login, TypeOK, Leaving
<1>9. ASSUME NEW st \in Statuses, SetStatus(c, st)
      PROVE  /\ \A d \in Conns \ {c}, w \in Users : Serves(d, w)' <=> Serves(d, w)
             /\ \A w \in Users : Serves(c, w)' => Serves(c, w)
  BY <1>0, <1>9 DEF SetStatus, TypeOK, Leaving
<1>10. CASE \/ RevokeSession(c) \/ QRApprove(c) \/ DeleteAccount(c) \/ Vanish(c)
            \/ \E u \in Users : LoginBanned(c, u)
  BY <1>0, <1>10
  DEF RevokeSession, QRApprove, DeleteAccount, Vanish, LoginBanned, TypeOK, Leaving
<1>. QED
  BY <1>2, <1>3, <1>4, <1>5, <1>6, <1>7, <1>8, <1>9, <1>10 DEF Continue, Request

(* A ban's kick ends the service of the connection it removes; the other   *)
(* steps of administrators and users change nobody's service.              *)
LEMMA AdminStops ==
  ASSUME OInv, NEW u \in Users, Admin(u) \/ Environment(u)
  PROVE  [One!Next]_Serving
<1> USE DEF handlerVars, dbVars, Serves
<1>1. CASE BanKick(u)
  <2>1. \A d \in Conns, w \in Users : Serves(d, w)' <=> Serves(d, w) /\ d # clients[u]
    BY <1>1 DEF BanKick, SockKicked, OInv, IInv, TypeOK
  <2>2. CASE clients[u] \in Conns
    BY <2>1, <2>2, Stops
  <2>3. CASE clients[u] \notin Conns
    BY <2>1, <2>3, Stutters
  <2>. QED
    BY <2>2, <2>3
<1>2. CASE BanFlag(u) \/ BanRevoke(u) \/ Unban(u) \/ SignUp(u) \/ Expire(u)
  BY <1>2, Stutters DEF BanFlag, BanRevoke, Unban, SignUp, Expire
<1>. QED
  BY <1>1, <1>2 DEF Admin, Environment

LEMMA StepRefines == OInv /\ [Next]_vars => [One!Next]_Serving
<1> SUFFICES ASSUME OInv, [Next]_vars PROVE [One!Next]_Serving
  OBVIOUS
<1>1. CASE UNCHANGED vars
  BY <1>1, Stutters DEF vars, handlerVars, Serves
<1>2. CASE Next
  BY <1>2, RegisterRefines, HandlerStops, AdminStops DEF Next
<1>. QED
  BY <1>1, <1>2

(* The registry implements OneSession: each step of any handler begins the *)
(* service of the login's connection while ending that of the one it    *)
(* kicks, ends one service, or does neither.                               *)
THEOREM ImplementsOneSession == Spec => OneSessionSpec
<1>1. Init => One!Init
  BY ConstAssumption
  DEF Init, One!Init, Serving, Serves, ConstAssumption
<1>2. OInv /\ [Next]_vars => OInv'
  BY OwnNext
<1>. QED
  BY <1>1, <1>2, OwnInit, StepRefines, PTL DEF Spec, OneSessionSpec, One!Spec

(***************************************************************************)
(* What OneSession promises, and so what the registry keeps.               *)
(***************************************************************************)

(* A login that takes a user over leaves nobody else serving that user, so *)
(* one connection at a time serves each user, for any number of both.      *)
THEOREM OneAtATime == One!Spec => []One!AtMostOne
<1> DEFINE OneInv == One!TypeOK /\ One!AtMostOne
<1>1. One!Init => OneInv
  BY DEF One!Init, One!TypeOK, One!AtMostOne
<1>2. OneInv /\ [One!Next]_Serving => OneInv'
  <2> SUFFICES ASSUME OneInv, [One!Next]_Serving PROVE OneInv'
    OBVIOUS
  <2>1. ASSUME NEW c \in Conns, One!End(c) PROVE OneInv'
    BY <2>1 DEF One!End, One!TypeOK, One!AtMostOne
  <2>2. ASSUME NEW c \in Conns, NEW u \in Users, One!Begin(c, u) PROVE OneInv'
    BY <2>2 DEF One!Begin, One!TypeOK, One!AtMostOne
  <2>3. CASE UNCHANGED Serving
    BY <2>3 DEF One!TypeOK, One!AtMostOne
  <2>. QED
    BY <2>1, <2>2, <2>3 DEF One!Next
<1>. QED
  BY <1>1, <1>2, PTL DEF One!Spec

(* No two connections serve one user, even where connections that serve    *)
(* somebody log in again.                                                  *)
THEOREM ServedByOne == Spec => []One!AtMostOne
BY ImplementsOneSession, OneAtATime, PTL DEF OneSessionSpec

(* Where connections log in only once, every user is loyal and every entry *)
(* is its connection's own: the reservations of EntryIsOwned and           *)
(* GoneIsHeard are empty.                                                  *)
EntryIsUsers == \A u \in Users : clients[u] # None => user[clients[u]] = u
COROLLARY LoggedInOnce ==
  ASSUME ~Relogin
  PROVE  Spec => [](EntryIsUsers /\ \A u \in Users : Loyal(u))
<1>1. OInv /\ [Next]_vars => OInv'
  BY OwnNext
<1>2. OInv => EntryIsUsers /\ \A u \in Users : Loyal(u)
  <2> SUFFICES ASSUME OInv PROVE EntryIsUsers /\ \A u \in Users : Loyal(u)
    OBVIOUS
  <2>1. \A c \in Conns : logged[c] \subseteq {user[c]}
    BY DEF OInv, OneUser
  <2>2. \A u \in Users : Loyal(u)
    BY <2>1 DEF Loyal
  <2>. QED
    BY <2>2, LoyalEntry DEF EntryIsUsers
<1>. QED
  BY <1>1, <1>2, OwnInit, PTL DEF Spec
=============================================================================
