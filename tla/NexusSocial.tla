----------------------------- MODULE NexusSocial -----------------------------
(***************************************************************************)
(* Friendships and group conversations: the tables friends, conversations  *)
(* and conversation_members, the requests that change them, and what each  *)
(* connection is told of them - live by the handler of the change, or by   *)
(* the login that comes after it.  The connections and the registry are    *)
(* those of NexusAccounts, which models the checks a login passes; here a  *)
(* login is the step that registers it and the queries that follow.        *)
(***************************************************************************)
EXTENDS NexusAccounts

CONSTANTS
    Rooms,      \* conversation ids clients choose
    Invites,    \* the lists of members they ask for
    Friends0    \* accepted friendships before the conversations

ASSUME SocialAssumption ==
    /\ Invites \subseteq SUBSET Names
    /\ Friends0 \subseteq Names \X Names
    /\ \A p \in Friends0 : <<p[2], p[1]>> \notin Friends0

VARIABLES
    edges,      \* friends: status of the row <<user_a, user_b>>
    rooms,      \* conversations: created_by, or None
    members,    \* conversation_members: rows <<convo_id, username>>
    told,       \* what each connection was told: <<"request", u>>, <<"convo", r>>
    greeted,    \* connections that logged in with a password
    befriended, \* pairs whose row was ever accepted
    crossed,    \* pairs that requested each other at the same time
    leftover    \* rows of members that outlived their conversation

socialVars == <<edges, rooms, members, told, greeted, befriended, crossed,
                leftover>>
allSocial  == <<accVars, socialVars>>
SocialFlows == {"friends", "rooms"}
Pairs == {p \in Names \X Names : p[1] # p[2]}

SocialTypeOK ==
    /\ AccountsTypeOK
    /\ edges \in [Pairs -> {"none", "pending", "accepted"}]
    /\ rooms \in [Rooms -> Names \cup {None}]
    /\ members \subseteq Rooms \X Names
    /\ \A c \in Conns : told[c] \subseteq ({"request", "signal"} \X Names) \cup
                                     ({"convo"} \X Rooms)
    /\ greeted \subseteq Conns
    /\ befriended \subseteq Pairs /\ crossed \subseteq Pairs

SocialInit ==
    /\ AccountsInit
    /\ edges = [p \in Pairs |-> IF flow = "rooms" /\ p \in Friends0
                                THEN "accepted" ELSE "none"]
    /\ befriended = {p \in Pairs : edges[p] = "accepted"}
    /\ rooms = [r \in Rooms |-> None] /\ members = {}
    /\ told = [c \in Conns |-> {}] /\ greeted = {} /\ crossed = {}
    /\ leftover = {}
------------------------------------------------------------------------------
getFriends(u) == {v \in Names \ {u} :
                    edges[<<u, v>>] = "accepted" \/ edges[<<v, u>>] = "accepted"}

(* client.Send to whoever of us is registered, under the read lock.        *)
Tell(us, fact) ==
    told' = [c \in Conns |->
        IF sock[c] = "open" /\ \E u \in us : clients[u] = c
        THEN told[c] \cup {fact} ELSE told[c]]

tables == <<edges, rooms, members, befriended, crossed, leftover>>

(* The end of a connection; what it was told no longer matters.            *)
Leave(c) ==
    /\ Disconnect(c) \/ Gone(c)
    /\ told' = [told EXCEPT ![c] = {}] /\ greeted' = greeted \ {c}
    /\ UNCHANGED tables

(* The registration of a login; after a password login, pending requests   *)
(* and conversations are read and sent, after a session login they are not.*)
Signed(c, u) ==
    /\ sock' = [d \in Conns |-> IF d = clients[u] THEN "closed" ELSE sock[d]]
    /\ who' = [d \in Conns |-> IF d = c THEN [u |-> u, id |-> 0]
                               ELSE IF d = clients[u] THEN Nobody ELSE who[d]]
    /\ clients' = [clients EXCEPT ![u] = c]

SignIn(c, u) ==
    /\ Ready(c) /\ who[c] = Nobody
    /\ Signed(c, u)
    /\ \/ Do(c, "greetPending", u, 0, None) /\ greeted' = (greeted \ {clients[u]}) \cup {c}
       \/ flow # "rooms" /\ UNCHANGED at /\ greeted' = greeted \ {clients[u]}
    /\ told' = [d \in Conns |-> IF d = clients[u] THEN {} ELSE told[d]]
    /\ UNCHANGED <<flow, accountVars, tables>>

RequestsBy(u) == {v \in Names \ {u} : edges[<<u, v>>] = "pending"}  \* variant: wrong column
RequestsTo(u) == {v \in Names \ {u} : edges[<<v, u>>] = "pending"}

getPendingRequests(c) ==
    LET u == at[c].u IN
    /\ at[c].pc = "greetPending"
    /\ told' = [told EXCEPT ![c] = @ \cup {<<"request", v>> : v \in RequestsTo(u)}]
    /\ Do(c, "greetRooms", u, 0, None)
    /\ UNCHANGED <<flow, sock, who, clients, accountVars, tables, greeted>>

(* The JOIN finds no conversation whose row is gone.                       *)
userConversations(c) ==
    /\ at[c].pc = "greetRooms"
    /\ told' = [told EXCEPT ![c] = @ \cup
         {<<"convo", r>> : r \in {x \in Rooms : rooms[x] # None /\ <<x, at[c].u>> \in members}}]
    /\ Done(c)
    /\ UNCHANGED <<flow, sock, who, clients, accountVars, tables, greeted>>
------------------------------------------------------------------------------
(* "friend_request": a row in either direction is looked for ...           *)
OwnRowExists(u, v) == edges[<<u, v>>] # "none"  \* variant: one direction only
RowExists(u, v) == edges[<<u, v>>] # "none" \/ edges[<<v, u>>] # "none"

FriendRequest(c, v) ==
    LET u == who[c].u IN
    /\ LoggedIn(c) /\ u # v
    /\ Do(c, IF RowExists(u, v) THEN "notify" ELSE "insert", u, 0, v)
    /\ crossed' = IF \E d \in Conns : /\ at[d].pc = "insert"
                                      /\ at[d].u = v /\ at[d].x = u
                  THEN crossed \cup {<<u, v>>, <<v, u>>} ELSE crossed
    /\ UNCHANGED <<flow, sock, who, clients, accountVars, edges, rooms, members,
                   told, greeted, befriended, leftover>>

(* ... and inserted, unless UNIQUE refuses it, in which case nobody is     *)
(* told ...                                                                *)
sendFriendRequest(c) ==
    LET u == at[c].u
        v == at[c].x IN
    /\ at[c].pc = "insert"
    /\ \/ /\ edges[<<u, v>>] = "none"
          /\ edges' = [edges EXCEPT ![<<u, v>>] = "pending"]
          /\ Do(c, "notify", u, 0, v)
       \/ edges[<<u, v>>] # "none" /\ Done(c) /\ UNCHANGED edges
    /\ UNCHANGED <<flow, sock, who, clients, accountVars, rooms, members, told,
                   greeted, befriended, crossed, leftover>>

(* ... and the recipient, if online, is told.                              *)
NotifyRequest(c) ==
    /\ at[c].pc = "notify"
    /\ Tell({at[c].x}, <<"request", at[c].u>>)
    /\ Done(c)
    /\ UNCHANGED <<flow, sock, who, clients, accountVars, tables, greeted>>

(* "friend_accept", "friend_reject": only a pending row is touched.  The   *)
(* notice the requester gets is not followed here.                         *)
acceptFriendRequest(p) ==
    edges[p] = "pending" /\ edges' = [edges EXCEPT ![p] = "accepted"]

rejectFriendRequest(p) ==
    edges[p] = "pending" /\ edges' = [edges EXCEPT ![p] = "none"]

FriendAccept(c, v) ==
    LET p == <<v, who[c].u>> IN
    /\ LoggedIn(c) /\ v # who[c].u /\ acceptFriendRequest(p)
    /\ befriended' = befriended \cup {p}
    /\ UNCHANGED <<flow, connVars, accountVars, rooms, members, told, greeted, crossed,
                   leftover>>

FriendReject(c, v) ==
    LET p == <<v, who[c].u>> IN
    /\ LoggedIn(c) /\ v # who[c].u /\ rejectFriendRequest(p)
    /\ UNCHANGED <<flow, connVars, accountVars, rooms, members, told, greeted,
                   befriended, crossed, leftover>>

(* "friend_remove" deletes both directions, whatever their status.         *)
removeFriend(c, v) ==
    LET u == who[c].u IN
    /\ LoggedIn(c) /\ u # v /\ RowExists(u, v)
    /\ edges' = [edges EXCEPT ![<<u, v>>] = "none", ![<<v, u>>] = "none"]
    /\ UNCHANGED <<flow, connVars, accountVars, rooms, members, told, greeted,
                   befriended, crossed, leftover>>

(* "read_receipt", "key_request" and a "presence" that carries a key are   *)
(* for friends: the table is read, then the recipient looked up.           *)
areFriends(u, v) == edges[<<u, v>>] = "accepted" \/ edges[<<v, u>>] = "accepted"

FriendSignal(c, v) ==
    LET u == who[c].u IN
    /\ LoggedIn(c) /\ u # v /\ areFriends(u, v)
    /\ Do(c, "signal", u, 0, v)
    /\ UNCHANGED <<flow, sock, who, clients, accountVars, socialVars>>

SignalSend(c) ==
    /\ at[c].pc = "signal"
    /\ Tell({at[c].x}, <<"signal", at[c].u>>)
    /\ Done(c)
    /\ UNCHANGED <<flow, sock, who, clients, accountVars, tables, greeted>>
------------------------------------------------------------------------------
(* "convo_create": those of the invited that are friends now are kept ...  *)
Anyone(u, invited) == invited  \* variant: no filter
Eligible(u, invited) == invited \cap (getFriends(u) \cup {u})

ConvoCreate(c, r, invited) ==
    LET u == who[c].u IN
    /\ LoggedIn(c) /\ Eligible(u, invited) # {}
    /\ at' = [at EXCEPT ![c] = [pc |-> "create", u |-> u, id |-> 0, x |-> r,
                                tok |-> Eligible(u, invited)]]
    /\ UNCHANGED <<flow, sock, who, clients, accountVars, socialVars>>

(* ... and one transaction inserts the conversation and its members; it    *)
(* fails as a whole when the id is taken.                                  *)
createConversation(c) ==
    LET u == at[c].u
        r == at[c].x IN
    /\ at[c].pc = "create"
    /\ \/ /\ rooms[r] = None
          /\ rooms' = [rooms EXCEPT ![r] = u]
          /\ members' = members \cup ({r} \X (at[c].tok \cup {u}))
          /\ Do(c, "created", u, 0, r)
       \/ rooms[r] # None /\ Done(c) /\ UNCHANGED <<rooms, members>>
    /\ UNCHANGED <<flow, sock, who, clients, accountVars, edges, told, greeted,
                   befriended, crossed, leftover>>

Members(r) == {u \in Names : <<r, u>> \in members}

(* The members are read back, then told.                                   *)
ConvoCreated(c) ==
    /\ at[c].pc = "created"
    /\ at' = [at EXCEPT ![c] = [pc |-> "notice", u |-> at[c].u, id |-> 0,
                                x |-> at[c].x, tok |-> Members(at[c].x)]]
    /\ UNCHANGED <<flow, sock, who, clients, accountVars, socialVars>>

ConvoNotice(c) ==
    /\ at[c].pc = "notice"
    /\ Tell(at[c].tok, <<"convo", at[c].x>>)
    /\ Done(c)
    /\ UNCHANGED <<flow, sock, who, clients, accountVars, tables, greeted>>

leaveConversation(c, r) ==
    /\ LoggedIn(c) /\ <<r, who[c].u>> \in members
    /\ members' = members \ {<<r, who[c].u>>}
    /\ UNCHANGED <<flow, connVars, accountVars, edges, rooms, told, greeted,
                   befriended, crossed, leftover>>

(* deleteAccount, of the tables above: the user's friendships, memberships *)
(* and the conversations the user created - but not the other members' rows*)
(* of those.                                                               *)
deleteSocial(c) ==
    LET u == who[c].u IN
    /\ LoggedIn(c) /\ flow = "rooms"
    /\ edges' = [p \in Pairs |-> IF u \in {p[1], p[2]} THEN "none" ELSE edges[p]]
    /\ members' = {m \in members : m[2] # u}
    /\ rooms' = [r \in Rooms |-> IF rooms[r] = u THEN None ELSE rooms[r]]
    /\ leftover' = leftover \cup {m \in members' : rooms[m[1]] = u}
    /\ Do(c, "gone", u, 0, 0)
    /\ UNCHANGED <<flow, sock, who, clients, accountVars, told, greeted,
                   befriended, crossed>>
------------------------------------------------------------------------------
FriendStep(c) ==
    \/ \E v \in People[flow] : \/ FriendRequest(c, v) \/ FriendAccept(c, v)
                        \/ FriendReject(c, v) \/ removeFriend(c, v)
                        \/ FriendSignal(c, v)
    \/ sendFriendRequest(c) \/ NotifyRequest(c) \/ SignalSend(c)

RoomStep(c) ==
    \/ \E r \in Rooms : \/ leaveConversation(c, r)
                        \/ \E us \in Invites : ConvoCreate(c, r, us)
    \/ createConversation(c) \/ ConvoCreated(c) \/ ConvoNotice(c)
    \/ deleteSocial(c)

SocialNext ==
    \/ AccountsNext /\ UNCHANGED socialVars
    \/ /\ flow \in SocialFlows
       /\ \E c \in Conns :
            \/ Connect(c) /\ UNCHANGED socialVars
            \/ Leave(c)
            \/ getPendingRequests(c) \/ userConversations(c)
            \/ \E u \in People[flow] : SignIn(c, u)
            \/ flow = "friends" /\ FriendStep(c)
            \/ flow = "rooms" /\ (RoomStep(c) \/ \E v \in People[flow] : removeFriend(c, v))

SocialSpec == SocialInit /\ [][SocialNext]_allSocial
------------------------------------------------------------------------------
(* No friend request and no conversation goes unnoticed: once the handler  *)
(* that stored it has finished, every connection that logged in with a     *)
(* password and is at rest has been told of it, by that handler or by its  *)
(* own login - whichever of insert, lookup, registration and query came    *)
(* first.                                                                  *)
AtRest(u) == clients[u] \in greeted /\ Ready(clients[u])
Busy(pcs, u, x) == \E c \in Conns : at[c].pc \in pcs /\ at[c].u = u /\ at[c].x = x

NothingMissed ==
    /\ \A p \in Pairs : edges[p] = "pending" /\ AtRest(p[2]) =>
          <<"request", p[1]>> \in told[clients[p[2]]] \/ Busy({"notify"}, p[1], p[2])
    /\ \A r \in Rooms, u \in Names :
          rooms[r] # None /\ <<r, u>> \in members /\ AtRest(u) =>
             \/ <<"convo", r>> \in told[clients[u]]
             \/ Busy({"created", "notice"}, rooms[r], r)

(* Two users are joined by one row at most, unless each asked the other    *)
(* between the other's check and insert.                                   *)
OneEdge ==
    \A p \in Pairs : edges[p] # "none" /\ edges[<<p[2], p[1]>>] # "none" => p \in crossed

(* Nobody is in a conversation whose creator was never a friend, unless    *)
(* the id was used before: the other members' rows of a deleted creator's  *)
(* conversation stay behind and join the next one of that id.  And nobody  *)
(* gets a receipt or a key request from one who was never a friend.        *)
EverFriends(u, v) == {<<u, v>>, <<v, u>>} \cap befriended # {}

OnlyFriends ==
    /\ \A m \in members \ leftover : LET by == rooms[m[1]] IN
          by \notin {None, m[2]} => EverFriends(by, m[2])
    /\ \A c \in Conns, v \in Names :
          <<"signal", v>> \in told[c] => EverFriends(v, who[c].u)
==============================================================================
