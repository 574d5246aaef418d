--------------------------- MODULE NexusSocialProofs ---------------------------
(***************************************************************************)
(* For any users, connections and conversations: no friend request and no  *)
(* conversation goes unnoticed, two users are joined by one row unless     *)
(* they asked each other at once, and only friends share a conversation or *)
(* a signal.  Behaviours of the other kinds leave friendships and          *)
(* conversations alone.                                                    *)
(***************************************************************************)
EXTENDS NexusAccountsProofs

Facts == ({"request", "signal"} \X Names) \cup ({"convo"} \X Rooms)

Asking == {"insert", "notify", "signal"}
Creating == {"create", "created", "notice"}
Greeting == {"greetPending", "greetRooms"}

AtSet == [pc : {"idle", "gone"} \cup Asking \cup Creating \cup Greeting,
          u : Names \cup {None}, id : {0}, x : Names \cup Rooms \cup {None, 0},
          tok : {0} \cup SUBSET Names]

SocialTyped ==
    /\ sock \in [Conns -> {"new", "open", "closed"}]
    /\ who \in [Conns -> [u : Names \cup {None}, id : {0}]]
    /\ clients \in [Names -> Conns \cup {None}]
    /\ at \in [Conns -> AtSet]
    /\ edges \in [Pairs -> {"none", "pending", "accepted"}]
    /\ rooms \in [Rooms -> Names \cup {None}]
    /\ members \subseteq Rooms \X Names /\ leftover \subseteq Rooms \X Names
    /\ told \in [Conns -> SUBSET Facts]
    /\ greeted \subseteq Conns
    /\ befriended \subseteq Pairs /\ crossed \subseteq Pairs

(* A registered connection is open and works for its user; a greeted one   *)
(* is logged in.                                                           *)
Registered ==
    /\ \A w \in Names, c \in Conns : clients[w] = c =>
          sock[c] = "open" /\ who[c].u = w /\ (at[c] # Idle => at[c].u = w)
    /\ \A c \in greeted : who[c] # Nobody

(* What a handler carries from one statement to the next.                  *)
Handlers ==
    \A c \in Conns :
       /\ at[c].pc # "idle" => at[c].u \in Names
       /\ at[c].pc \in Asking => at[c].x \in Names /\ at[c].x # at[c].u
       /\ at[c].pc \in Creating => at[c].x \in Rooms
       /\ at[c].pc \in {"create", "notice"} => at[c].tok \subseteq Names

(* A row that appeared in the other direction since a handler looked was   *)
(* requested at the same time.                                             *)
Inserting(c, u, v) == at[c].pc = "insert" /\ at[c].u = u /\ at[c].x = v

OneRow ==
    /\ \A c \in Conns, p \in Pairs :
          Inserting(c, p[1], p[2]) /\ edges[<<p[2], p[1]>>] # "none" => p \in crossed
    /\ \A c, d \in Conns, p \in Pairs :
          Inserting(c, p[1], p[2]) /\ Inserting(d, p[2], p[1]) => p \in crossed
    /\ \A p \in crossed : <<p[2], p[1]>> \in crossed
    /\ OneEdge

(* Members whose conversation is gone were left over, and what a handler   *)
(* is about to do for friends it does for those who were.                  *)
Friendly ==
    /\ \A p \in Pairs : edges[p] = "accepted" => p \in befriended
    /\ \A c \in Conns : at[c].pc = "signal" => EverFriends(at[c].u, at[c].x)
    /\ \A c \in Conns : at[c].pc = "create" =>
          \A v \in at[c].tok : v # at[c].u => EverFriends(at[c].u, v)
    /\ \A m \in members : rooms[m[1]] = None => m \in leftover
    /\ OnlyFriends

(* Whoever was not told is about to be, by the handler that inserts or by  *)
(* its own login.                                                          *)
Pending(p) == edges[p] = "pending" /\ clients[p[2]] \in greeted
ToldRequest(p) == <<"request", p[1]>> \in told[clients[p[2]]]
Asks(p) == \E d \in Conns : at[d].pc = "notify" /\ at[d].u = p[1] /\ at[d].x = p[2]

Joined(r, u) == rooms[r] # None /\ <<r, u>> \in members /\ clients[u] \in greeted
ToldRoom(r, u) == <<"convo", r>> \in told[clients[u]]
Announces(r, u) ==
    \E d \in Conns : /\ at[d].u = rooms[r] /\ at[d].x = r
                     /\ at[d].pc = "created" \/ (at[d].pc = "notice" /\ u \in at[d].tok)

Heard ==
    /\ \A p \in Pairs : Pending(p) =>
          ToldRequest(p) \/ Asks(p) \/ at[clients[p[2]]].pc = "greetPending"
    /\ \A r \in Rooms, u \in Names : Joined(r, u) =>
          ToldRoom(r, u) \/ Announces(r, u) \/ at[clients[u]].pc \in Greeting

Quiet ==
    /\ edges = [p \in Pairs |-> "none"]
    /\ rooms = [r \in Rooms |-> None] /\ members = {}
    /\ told = [c \in Conns |-> {}] /\ greeted = {} /\ befriended = {} /\ crossed = {}
    /\ flow \notin AccountFlows =>
          /\ sock = [c \in Conns |-> "new"] /\ who = [c \in Conns |-> Nobody]
          /\ clients = [u \in Names |-> None] /\ at = [c \in Conns |-> Idle]

Sound == SocialTyped /\ Registered /\ Handlers /\ OneRow /\ Friendly /\ Heard

SocialInv == flow \in Flows /\ IF flow \in SocialFlows THEN Sound ELSE Quiet

(***************************************************************************)
(* Lemmas.                                                                 *)
(***************************************************************************)

(* A connection that is logged in has a user and is between two requests. *)
LEMMA LoggedInUser ==
    ASSUME SocialTyped, NEW c \in Conns, LoggedIn(c)
    PROVE  who[c].u \in Names /\ at[c] = Idle /\ at[c].pc = "idle"
BY AccountsAssumption DEF LoggedIn, Ready, SocialTyped, Idle, Nobody

(* What a handler does next, for the ones that change nothing else of it. *)
LEMMA HandlerMoves ==
    ASSUME SocialTyped, NEW c \in Conns, NEW pc, NEW u, NEW x, Do(c, pc, u, 0, x),
           pc \in {"idle", "gone"} \cup Asking \cup Creating \cup Greeting,
           u \in Names, x \in Names \cup Rooms \cup {None, 0}
    PROVE  /\ at' \in [Conns -> AtSet]
           /\ at'[c] = [pc |-> pc, u |-> u, id |-> 0, x |-> x, tok |-> 0]
           /\ \A d \in Conns \ {c} : at'[d] = at[d]
BY DEF Do, SocialTyped, AtSet

LEMMA HandlerDone ==
    ASSUME SocialTyped, NEW c \in Conns, Done(c)
    PROVE  /\ at' \in [Conns -> AtSet]
           /\ at'[c] = Idle /\ at'[c].pc = "idle"
           /\ \A d \in Conns \ {c} : at'[d] = at[d]
BY DEF Done, SocialTyped, AtSet, Idle

(* A handler that tells nobody anything at this step leaves those who are  *)
(* about to be told about to be told.                                      *)
Telling == {"notify", "created", "notice"} \cup Greeting

LEMMA HeardKept ==
    ASSUME SocialTyped, Heard, NEW c \in Conns, at[c].pc \notin Telling,
           \A d \in Conns \ {c} : at'[d] = at[d],
           UNCHANGED <<clients, greeted, told>>,
           \A p \in Pairs : edges'[p] = "pending" => edges[p] = "pending" \/ Asks(p)',
           \A r \in Rooms, u \in Names : Joined(r, u)' =>
              (Joined(r, u) /\ rooms'[r] = rooms[r]) \/ Announces(r, u)'
    PROVE  Heard'
<1>1. ASSUME NEW p \in Pairs, Pending(p)'
      PROVE  ToldRequest(p)' \/ Asks(p)' \/ at'[clients'[p[2]]].pc = "greetPending"
  <2>1. Asks(p)' \/ (Pending(p) /\ clients[p[2]] \in Conns)
    BY <1>1 DEF Pending, SocialTyped
  <2>2. ASSUME Pending(p), clients[p[2]] \in Conns
        PROVE  ToldRequest(p)' \/ Asks(p)' \/ at'[clients'[p[2]]].pc = "greetPending"
    <3>1. CASE ToldRequest(p)
      BY <3>1 DEF ToldRequest
    <3>2. CASE Asks(p)
      BY <3>2 DEF Asks, Telling
    <3>3. CASE at[clients[p[2]]].pc = "greetPending"
      BY <2>2, <3>3 DEF Telling, Greeting
    <3> QED
      BY <2>2, <3>1, <3>2, <3>3 DEF Heard
  <2> QED
    BY <2>1, <2>2
<1>2. ASSUME NEW r \in Rooms, NEW u \in Names, Joined(r, u)'
      PROVE  ToldRoom(r, u)' \/ Announces(r, u)' \/ at'[clients'[u]].pc \in Greeting
  <2>1. Announces(r, u)' \/ (Joined(r, u) /\ rooms'[r] = rooms[r] /\ clients[u] \in Conns)
    BY <1>2 DEF Joined, SocialTyped
  <2>2. ASSUME Joined(r, u), rooms'[r] = rooms[r], clients[u] \in Conns
        PROVE  ToldRoom(r, u)' \/ Announces(r, u)' \/ at'[clients'[u]].pc \in Greeting
    <3>1. CASE ToldRoom(r, u)
      BY <3>1 DEF ToldRoom
    <3>2. CASE Announces(r, u)
      BY <2>2, <3>2 DEF Announces, Telling
    <3>3. CASE at[clients[u]].pc \in Greeting
      BY <2>2, <3>3 DEF Telling
    <3> QED
      BY <2>2, <3>1, <3>2, <3>3 DEF Heard
  <2> QED
    BY <2>1, <2>2
<1> QED
  BY <1>1, <1>2 DEF Heard

(* A friend_request is looked up: no row of either direction, or no insert. *)
LEMMA FriendRequestInv ==
    ASSUME Sound, NEW c \in Conns, NEW v \in Names, FriendRequest(c, v)
    PROVE  Sound'
<1> DEFINE u == who[c].u
<1>1. SocialTyped /\ u \in Names /\ v # u /\ at[c] = Idle /\ at[c].pc = "idle"
  BY LoggedInUser DEF FriendRequest, Sound
<1>2. /\ UNCHANGED <<sock, who, clients, edges, rooms, members, told, greeted, befriended, leftover>>
      /\ crossed' = IF \E d \in Conns : Inserting(d, v, u)
                    THEN crossed \cup {<<u, v>>, <<v, u>>} ELSE crossed
  BY DEF FriendRequest, Inserting
<1> DEFINE pc == IF RowExists(u, v) THEN "notify" ELSE "insert"
<1>3. Do(c, pc, u, 0, v) /\ pc \in Asking /\ pc # "signal"
  BY DEF FriendRequest, Asking
<1>4. /\ at' \in [Conns -> AtSet]
      /\ at'[c] = [pc |-> pc, u |-> u, id |-> 0, x |-> v, tok |-> 0]
      /\ \A d \in Conns \ {c} : at'[d] = at[d]
  BY <1>1, <1>3, HandlerMoves
<1>5. pc = "insert" => edges[<<u, v>>] = "none" /\ edges[<<v, u>>] = "none"
  BY DEF RowExists
<1> HIDE DEF u, pc
<1>6. SocialTyped'
  BY <1>1, <1>2, <1>4 DEF SocialTyped, Pairs
<1>7. Registered'
  BY <1>1, <1>2, <1>4 DEF Sound, Registered, u, Idle
<1>8. Handlers'
  BY <1>1, <1>3, <1>4 DEF Sound, Handlers, Asking, Creating
<1>9. OneRow'
  BY <1>1, <1>2, <1>3, <1>4, <1>5 DEF Sound, OneRow, OneEdge, Inserting, Asking, Pairs
<1>10. Friendly'
  BY <1>1, <1>2, <1>3, <1>4 DEF Sound, Friendly, OnlyFriends, EverFriends, Asking
<1>11. Heard'
  <2>1. at[c].pc \notin Telling
    BY <1>1 DEF Telling, Greeting
  <2>2. \A r \in Rooms, w \in Names : Joined(r, w)' => Joined(r, w) /\ rooms'[r] = rooms[r]
    BY <1>2 DEF Joined
  <2> QED
    BY <1>1, <1>2, <1>4, <2>1, <2>2, HeardKept DEF Sound
<1> QED
  BY <1>6, <1>7, <1>8, <1>9, <1>10, <1>11 DEF Sound

(* The INSERT: a row of the other direction was asked for meanwhile. *)
LEMMA SendRequestInv ==
    ASSUME Sound, NEW c \in Conns, sendFriendRequest(c)
    PROVE  Sound'
<1>0. PICK u \in Names, v \in Names : u = at[c].u /\ v = at[c].x /\ u # v
  BY DEF sendFriendRequest, Sound, Handlers, Asking
<1> DEFINE p == <<u, v>>
<1>1. /\ SocialTyped /\ at[c].pc = "insert" /\ p \in Pairs /\ <<v, u>> \in Pairs
      /\ u = at[c].u /\ u # v /\ Inserting(c, u, v)
  BY <1>0 DEF sendFriendRequest, Sound, Pairs, Inserting
<1>2. UNCHANGED <<sock, who, clients, rooms, members, told, greeted, befriended, crossed, leftover>>
  BY DEF sendFriendRequest
<1>3. CASE edges[p] = "none" /\ edges' = [edges EXCEPT ![p] = "pending"] /\ Do(c, "notify", u, 0, v)
  <2>1. /\ at' \in [Conns -> AtSet]
        /\ at'[c] = [pc |-> "notify", u |-> u, id |-> 0, x |-> v, tok |-> 0]
        /\ \A d \in Conns \ {c} : at'[d] = at[d]
    BY <1>1, <1>3, HandlerMoves DEF Asking
  <2>2. /\ edges' \in [Pairs -> {"none", "pending", "accepted"}] /\ edges'[p] = "pending"
        /\ \A q \in Pairs \ {p} : edges'[q] = edges[q]
    BY <1>1, <1>3 DEF SocialTyped
  <2>3. edges[<<v, u>>] # "none" => p \in crossed /\ <<v, u>> \in crossed
    BY <1>1 DEF Sound, OneRow
  <2>4. \A d \in Conns : Inserting(d, v, u) => <<v, u>> \in crossed
    BY <1>1 DEF Sound, OneRow
  <2>5. SocialTyped'
    BY <1>1, <1>2, <2>1, <2>2 DEF SocialTyped
  <2>6. Registered'
    BY <1>1, <1>2, <2>1 DEF Sound, Registered, Idle
  <2>7. Handlers'
    BY <1>1, <2>1 DEF Sound, Handlers, Asking, Creating
  <2>8. OneRow'
    BY <1>1, <1>2, <2>1, <2>2, <2>3, <2>4 DEF Sound, OneRow, OneEdge, Inserting, Pairs
  <2>9. Friendly'
    BY <1>1, <1>2, <2>1, <2>2 DEF Sound, Friendly, OnlyFriends, EverFriends
  <2>10. Heard'
    <3>1. at[c].pc \notin Telling
      BY <1>1 DEF Telling, Greeting
    <3>2. \A r \in Rooms, w \in Names : Joined(r, w)' => Joined(r, w) /\ rooms'[r] = rooms[r]
      BY <1>2 DEF Joined
    <3>3. Asks(p)'
      BY <2>1 DEF Asks, p
    <3>4. \A q \in Pairs : edges'[q] = "pending" => edges[q] = "pending" \/ Asks(q)'
      BY <2>2, <3>3
    <3> QED
      BY <1>1, <1>2, <2>1, <3>1, <3>2, <3>4, HeardKept DEF Sound
  <2> QED
    BY <2>5, <2>6, <2>7, <2>8, <2>9, <2>10 DEF Sound
<1>4. CASE Done(c) /\ edges' = edges
  <2>1. /\ at' \in [Conns -> AtSet] /\ at'[c] = Idle /\ at'[c].pc = "idle"
        /\ \A d \in Conns \ {c} : at'[d] = at[d]
    BY <1>1, <1>4, HandlerDone
  <2>2. SocialTyped'
    BY <1>1, <1>2, <1>4, <2>1 DEF SocialTyped
  <2>6. Registered'
    BY <1>1, <1>2, <2>1 DEF Sound, Registered
  <2>7. Handlers'
    BY <1>1, <2>1 DEF Sound, Handlers, Asking, Creating
  <2>3. OneRow'
    BY <1>1, <1>2, <1>4, <2>1 DEF Sound, OneRow, OneEdge, Inserting
  <2>4. Friendly'
    BY <1>1, <1>2, <1>4, <2>1 DEF Sound, Friendly, OnlyFriends, EverFriends
  <2>5. Heard'
    <3>1. at[c].pc \notin Telling
      BY <1>1 DEF Telling, Greeting
    <3>2. \A r \in Rooms, w \in Names : Joined(r, w)' => Joined(r, w) /\ rooms'[r] = rooms[r]
      BY <1>2 DEF Joined
    <3> QED
      BY <1>1, <1>2, <1>4, <2>1, <3>1, <3>2, HeardKept DEF Sound
  <2> QED
    BY <2>2, <2>3, <2>4, <2>5, <2>6, <2>7 DEF Sound
<1> QED
  BY <1>0, <1>3, <1>4 DEF sendFriendRequest

(* Whom a handler tells, and what of. *)
LEMMA TellFacts ==
    ASSUME SocialTyped, Registered, NEW us \in SUBSET Names, NEW fact \in Facts, Tell(us, fact)
    PROVE  /\ told' \in [Conns -> SUBSET Facts]
           /\ \A d \in Conns : told[d] \subseteq told'[d]
           /\ \A w \in us : clients[w] \in Conns => fact \in told'[clients[w]]
           /\ \A d \in Conns : \A f \in told'[d] \ told[d] :
                 f = fact /\ \E w \in us : clients[w] = d
BY DEF Tell, SocialTyped, Registered

(* The recipient of a stored request is told. *)
LEMMA NotifyRequestInv ==
    ASSUME Sound, NEW c \in Conns, NotifyRequest(c)
    PROVE  Sound'
<1>0. PICK u \in Names, v \in Names : u = at[c].u /\ v = at[c].x
  BY DEF NotifyRequest, Sound, Handlers, Asking
<1>1. /\ SocialTyped /\ Registered /\ at[c].pc = "notify"
      /\ UNCHANGED <<sock, who, clients, edges, rooms, members, greeted, befriended, crossed, leftover>>
  BY DEF NotifyRequest, Sound, tables
<1>2. /\ at' \in [Conns -> AtSet] /\ at'[c] = Idle /\ at'[c].pc = "idle"
      /\ \A d \in Conns \ {c} : at'[d] = at[d]
  BY <1>1, HandlerDone DEF NotifyRequest
<1> DEFINE fact == <<"request", u>>
<1>3. /\ told' \in [Conns -> SUBSET Facts]
      /\ \A d \in Conns : told[d] \subseteq told'[d]
      /\ clients[v] \in Conns => fact \in told'[clients[v]]
      /\ \A d \in Conns : \A f \in told'[d] \ told[d] : f = fact
  <2>1. fact \in Facts /\ Tell({v}, fact) /\ {v} \in SUBSET Names
    BY <1>0 DEF Facts, NotifyRequest
  <2> HIDE DEF fact
  <2>2. /\ told' \in [Conns -> SUBSET Facts]
        /\ \A d \in Conns : told[d] \subseteq told'[d]
        /\ \A w \in {v} : clients[w] \in Conns => fact \in told'[clients[w]]
        /\ \A d \in Conns : \A f \in told'[d] \ told[d] :
              f = fact /\ \E w \in {v} : clients[w] = d
    BY <1>1, <2>1, TellFacts
  <2> QED
    BY <2>2
<1>4. SocialTyped'
  BY <1>1, <1>2, <1>3 DEF SocialTyped
<1>5. Registered'
  BY <1>1, <1>2 DEF Registered
<1>6. Handlers'
  BY <1>1, <1>2 DEF Sound, Handlers, Asking, Creating
<1>7. OneRow'
  BY <1>1, <1>2 DEF Sound, OneRow, OneEdge, Inserting
<1>8. Friendly'
  <2>1. \A d \in Conns, w \in Names : <<"signal", w>> \in told'[d] => <<"signal", w>> \in told[d]
    BY <1>3
  <2> QED
    BY <1>1, <1>2, <2>1 DEF Sound, Friendly, OnlyFriends, EverFriends
<1>9. ASSUME NEW p \in Pairs, Pending(p)'
      PROVE  ToldRequest(p)' \/ Asks(p)' \/ at'[clients'[p[2]]].pc = "greetPending"
  <2>1. Pending(p) /\ clients[p[2]] \in Conns
    BY <1>1, <1>9 DEF Pending, SocialTyped
  <2>2. CASE ToldRequest(p)
    BY <1>1, <1>3, <2>1, <2>2 DEF ToldRequest
  <2>3. CASE Asks(p)
    <3>1. PICK d \in Conns : at[d].pc = "notify" /\ at[d].u = p[1] /\ at[d].x = p[2]
      BY <2>3 DEF Asks
    <3>2. CASE d = c
      BY <1>0, <1>1, <1>3, <2>1, <3>1, <3>2 DEF ToldRequest
    <3>3. CASE d # c
      BY <1>2, <3>1, <3>3 DEF Asks
    <3> QED
      BY <3>2, <3>3
  <2>4. CASE at[clients[p[2]]].pc = "greetPending"
    BY <1>1, <1>2, <2>1, <2>4
  <2> QED
    BY <2>1, <2>2, <2>3, <2>4 DEF Sound, Heard
<1>10. ASSUME NEW r \in Rooms, NEW w \in Names, Joined(r, w)'
       PROVE  ToldRoom(r, w)' \/ Announces(r, w)' \/ at'[clients'[w]].pc \in Greeting
  <2>1. Joined(r, w) /\ clients[w] \in Conns
    BY <1>1, <1>10 DEF Joined, SocialTyped
  <2>2. ToldRoom(r, w) => ToldRoom(r, w)'
    BY <1>1, <1>3, <2>1 DEF ToldRoom
  <2>3. Announces(r, w) => Announces(r, w)'
    BY <1>1, <1>2 DEF Announces
  <2>4. at[clients[w]].pc \in Greeting => at'[clients'[w]].pc \in Greeting
    BY <1>1, <1>2, <2>1 DEF Greeting
  <2> QED
    BY <2>1, <2>2, <2>3, <2>4 DEF Sound, Heard
<1>11. Heard'
  BY <1>9, <1>10 DEF Heard
<1> QED
  BY <1>4, <1>5, <1>6, <1>7, <1>8, <1>11 DEF Sound

(* A receipt or a key request reaches the friend's connection. *)
LEMMA SignalSendInv ==
    ASSUME Sound, NEW c \in Conns, SignalSend(c)
    PROVE  Sound'
<1>0. PICK u \in Names, v \in Names : u = at[c].u /\ v = at[c].x
  BY DEF SignalSend, Sound, Handlers, Asking
<1>1. /\ SocialTyped /\ Registered /\ at[c].pc = "signal"
      /\ UNCHANGED <<sock, who, clients, edges, rooms, members, greeted, befriended, crossed, leftover>>
  BY DEF SignalSend, Sound, tables
<1>2. /\ at' \in [Conns -> AtSet] /\ at'[c] = Idle /\ at'[c].pc = "idle"
      /\ \A d \in Conns \ {c} : at'[d] = at[d]
  BY <1>1, HandlerDone DEF SignalSend
<1> DEFINE fact == <<"signal", u>>
<1>3. /\ told' \in [Conns -> SUBSET Facts]
      /\ \A d \in Conns : told[d] \subseteq told'[d]
      /\ \A d \in Conns : \A f \in told'[d] \ told[d] : f = fact /\ clients[v] = d
  <2>1. fact \in Facts /\ Tell({v}, fact) /\ {v} \in SUBSET Names
    BY <1>0 DEF Facts, SignalSend
  <2> HIDE DEF fact
  <2>2. /\ told' \in [Conns -> SUBSET Facts]
        /\ \A d \in Conns : told[d] \subseteq told'[d]
        /\ \A w \in {v} : clients[w] \in Conns => fact \in told'[clients[w]]
        /\ \A d \in Conns : \A f \in told'[d] \ told[d] :
              f = fact /\ \E w \in {v} : clients[w] = d
    BY <1>1, <2>1, TellFacts
  <2> QED
    BY <2>2
<1>4. SocialTyped'
  BY <1>1, <1>2, <1>3 DEF SocialTyped
<1>5. Registered'
  BY <1>1, <1>2 DEF Registered
<1>6. Handlers'
  BY <1>1, <1>2 DEF Sound, Handlers, Asking, Creating
<1>7. OneRow'
  BY <1>1, <1>2 DEF Sound, OneRow, OneEdge, Inserting
<1>8. Friendly'
  <2>1. ASSUME NEW d \in Conns, NEW w \in Names, <<"signal", w>> \in told'[d]
        PROVE  EverFriends(w, who[d].u)
    <3>1. CASE <<"signal", w>> \in told[d]
      BY <3>1 DEF Sound, Friendly, OnlyFriends
    <3>2. CASE <<"signal", w>> \notin told[d]
      <4>1. w = u /\ clients[v] = d
        BY <1>3, <2>1, <3>2
      <4>2. who[d].u = v
        BY <1>1, <4>1 DEF Registered
      <4> QED
        BY <1>0, <1>1, <4>1, <4>2 DEF Sound, Friendly
    <3> QED
      BY <3>1, <3>2
  <2> QED
    BY <1>1, <1>2, <2>1 DEF Sound, Friendly, OnlyFriends, EverFriends
<1>9. Heard'
  <2>1. ASSUME NEW p \in Pairs, Pending(p)'
        PROVE  ToldRequest(p)' \/ Asks(p)' \/ at'[clients'[p[2]]].pc = "greetPending"
    <3>1. Pending(p) /\ clients[p[2]] \in Conns
      BY <1>1, <2>1 DEF Pending, SocialTyped
    <3>2. ToldRequest(p) => ToldRequest(p)'
      BY <1>1, <1>3, <3>1 DEF ToldRequest
    <3>3. Asks(p) => Asks(p)'
      BY <1>1, <1>2 DEF Asks
    <3>4. at[clients[p[2]]].pc = "greetPending" => at'[clients'[p[2]]].pc = "greetPending"
      BY <1>1, <1>2, <3>1
    <3> QED
      BY <3>1, <3>2, <3>3, <3>4 DEF Sound, Heard
  <2>2. ASSUME NEW r \in Rooms, NEW w \in Names, Joined(r, w)'
        PROVE  ToldRoom(r, w)' \/ Announces(r, w)' \/ at'[clients'[w]].pc \in Greeting
    <3>1. Joined(r, w) /\ clients[w] \in Conns
      BY <1>1, <2>2 DEF Joined, SocialTyped
    <3>2. ToldRoom(r, w) => ToldRoom(r, w)'
      BY <1>1, <1>3, <3>1 DEF ToldRoom
    <3>3. Announces(r, w) => Announces(r, w)'
      BY <1>1, <1>2 DEF Announces
    <3>4. at[clients[w]].pc \in Greeting => at'[clients'[w]].pc \in Greeting
      BY <1>1, <1>2, <3>1 DEF Greeting
    <3> QED
      BY <3>1, <3>2, <3>3, <3>4 DEF Sound, Heard
  <2> QED
    BY <2>1, <2>2 DEF Heard
<1> QED
  BY <1>4, <1>5, <1>6, <1>7, <1>8, <1>9 DEF Sound

(* A request is accepted, rejected, or a friend removed: in one statement, *)
(* of rows that are there.                                                 *)
LEMMA AcceptInv ==
    ASSUME Sound, NEW c \in Conns, NEW v \in Names, FriendAccept(c, v)
    PROVE  Sound'
<1>0. PICK u \in Names : u = who[c].u
  BY LoggedInUser DEF FriendAccept, acceptFriendRequest, Sound
<1> DEFINE p == <<v, u>>
<1>1. /\ SocialTyped /\ at[c].pc = "idle" /\ p \in Pairs /\ edges[p] = "pending"
      /\ UNCHANGED <<sock, who, clients, at, rooms, members, told, greeted, crossed, leftover>>
      /\ befriended' = befriended \cup {p} /\ edges' = [edges EXCEPT ![p] = "accepted"]
  BY <1>0, LoggedInUser DEF FriendAccept, acceptFriendRequest, Sound, Pairs, connVars
<1>2. /\ edges' \in [Pairs -> {"none", "pending", "accepted"}]
      /\ \A q \in Pairs : /\ edges'[q] = "none" <=> edges[q] = "none"
                          /\ edges'[q] = "pending" => edges[q] = "pending"
                          /\ edges'[q] = "accepted" => edges[q] = "accepted" \/ q = p
  BY <1>1 DEF SocialTyped
<1> HIDE DEF p
<1>3. SocialTyped'
  BY <1>1, <1>2 DEF SocialTyped
<1>4. Registered'
  BY <1>1 DEF Sound, Registered
<1>5. Handlers'
  BY <1>1 DEF Sound, Handlers
<1>6. OneRow'
  BY <1>1, <1>2 DEF Sound, OneRow, OneEdge, Inserting, Pairs
<1>7. Friendly'
  BY <1>1, <1>2 DEF Sound, Friendly, OnlyFriends, EverFriends
<1>8. Heard'
  <2>1. at[c].pc \notin Telling
    BY <1>1 DEF Telling, Greeting
  <2>2. \A r \in Rooms, w \in Names : Joined(r, w)' => Joined(r, w) /\ rooms'[r] = rooms[r]
    BY <1>1 DEF Joined
  <2> QED
    BY <1>1, <1>2, <2>1, <2>2, HeardKept DEF Sound
<1> QED
  BY <1>3, <1>4, <1>5, <1>6, <1>7, <1>8 DEF Sound

LEMMA RowsGoneInv ==
    ASSUME Sound, NEW c \in Conns, at[c].pc = "idle",
           edges' \in [Pairs -> {"none", "pending", "accepted"}],
           \A p \in Pairs : edges'[p] \in {"none", edges[p]},
           UNCHANGED <<sock, who, clients, at, rooms, members, told, greeted,
                       befriended, crossed, leftover>>
    PROVE  Sound'
<1>1. SocialTyped'
  BY DEF Sound, SocialTyped
<1>2. Registered'
  BY DEF Sound, Registered
<1>3. Handlers'
  BY DEF Sound, Handlers
<1>4. OneRow'
  BY DEF Sound, OneRow, OneEdge, Inserting, Pairs
<1>5. Friendly'
  BY DEF Sound, Friendly, OnlyFriends, EverFriends
<1>6. Heard'
  <2>1. at[c].pc \notin Telling
    BY DEF Telling, Greeting
  <2>2. \A r \in Rooms, w \in Names : Joined(r, w)' => Joined(r, w) /\ rooms'[r] = rooms[r]
    BY DEF Joined
  <2> QED
    BY <2>1, <2>2, HeardKept DEF Sound
<1> QED
  BY <1>1, <1>2, <1>3, <1>4, <1>5, <1>6 DEF Sound

LEMMA RejectInv ==
    ASSUME Sound, NEW c \in Conns, NEW v \in Names,
           FriendReject(c, v) \/ removeFriend(c, v)
    PROVE  Sound'
<1>1. at[c].pc = "idle" /\ who[c].u \in Names
  BY LoggedInUser DEF FriendReject, rejectFriendRequest, removeFriend, Sound
<1>2. UNCHANGED <<sock, who, clients, at, rooms, members, told, greeted,
                  befriended, crossed, leftover>>
  BY DEF FriendReject, rejectFriendRequest, removeFriend, connVars
<1>3. /\ edges' \in [Pairs -> {"none", "pending", "accepted"}]
      /\ \A p \in Pairs : edges'[p] \in {"none", edges[p]}
  BY DEF FriendReject, rejectFriendRequest, removeFriend, Sound, SocialTyped
<1> QED
  BY <1>1, <1>2, <1>3, RowsGoneInv

(* The friends table is read before a receipt is passed on, or a           *)
(* conversation created.                                                   *)
LEMMA FriendSignalInv ==
    ASSUME Sound, NEW c \in Conns, NEW v \in Names, FriendSignal(c, v)
    PROVE  Sound'
<1>0. PICK u \in Names : u = who[c].u
  BY LoggedInUser DEF FriendSignal, Sound
<1>1. /\ SocialTyped /\ at[c].pc = "idle" /\ at[c] = Idle /\ u # v /\ areFriends(u, v)
      /\ UNCHANGED <<sock, who, clients, edges, rooms, members, told, greeted, befriended, crossed, leftover>>
      /\ Do(c, "signal", u, 0, v)
  BY <1>0, LoggedInUser DEF FriendSignal, Sound, socialVars
<1>2. /\ at' \in [Conns -> AtSet]
      /\ at'[c] = [pc |-> "signal", u |-> u, id |-> 0, x |-> v, tok |-> 0]
      /\ \A d \in Conns \ {c} : at'[d] = at[d]
  BY <1>1, HandlerMoves DEF Asking
<1>3. EverFriends(u, v)
  BY <1>1 DEF areFriends, EverFriends, Sound, Friendly, Pairs
<1>4. SocialTyped'
  BY <1>1, <1>2 DEF SocialTyped
<1>5. Registered'
  BY <1>0, <1>1, <1>2 DEF Sound, Registered
<1>6. Handlers'
  BY <1>1, <1>2 DEF Sound, Handlers, Asking, Creating
<1>7. OneRow'
  BY <1>1, <1>2 DEF Sound, OneRow, OneEdge, Inserting
<1>8. Friendly'
  BY <1>1, <1>2, <1>3 DEF Sound, Friendly, OnlyFriends, EverFriends
<1>9. Heard'
  <2>1. at[c].pc \notin Telling
    BY <1>1 DEF Telling, Greeting
  <2>2. \A r \in Rooms, w \in Names : Joined(r, w)' => Joined(r, w) /\ rooms'[r] = rooms[r]
    BY <1>1 DEF Joined
  <2> QED
    BY <1>1, <1>2, <2>1, <2>2, HeardKept DEF Sound
<1> QED
  BY <1>4, <1>5, <1>6, <1>7, <1>8, <1>9 DEF Sound

LEMMA ConvoCreateInv ==
    ASSUME Sound, NEW c \in Conns, NEW r \in Rooms, NEW us \in Invites, ConvoCreate(c, r, us)
    PROVE  Sound'
<1>0. PICK u \in Names : u = who[c].u
  BY LoggedInUser DEF ConvoCreate, Sound
<1>0a. PICK tok \in SUBSET Names : tok = Eligible(u, us) /\ \A v \in tok : v = u \/ v \in getFriends(u)
  <2>1. us \in SUBSET Names
    BY SocialAssumption
  <2>2. /\ Eligible(u, us) \in SUBSET Names
        /\ \A v \in Eligible(u, us) : v = u \/ v \in getFriends(u)
    BY <2>1 DEF Eligible
  <2> QED
    BY <2>2
<1>1. /\ SocialTyped /\ at[c].pc = "idle" /\ at[c] = Idle
      /\ UNCHANGED <<sock, who, clients, edges, rooms, members, told, greeted, befriended, crossed, leftover>>
      /\ at' = [at EXCEPT ![c] = [pc |-> "create", u |-> u, id |-> 0, x |-> r, tok |-> tok]]
  BY <1>0, <1>0a, LoggedInUser DEF ConvoCreate, Sound, socialVars
<1>2. /\ at' \in [Conns -> AtSet]
      /\ at'[c] = [pc |-> "create", u |-> u, id |-> 0, x |-> r, tok |-> tok]
      /\ \A d \in Conns \ {c} : at'[d] = at[d]
  BY <1>1 DEF SocialTyped, AtSet, Creating
<1>3. \A v \in tok : v # u => EverFriends(u, v)
  BY <1>0a DEF getFriends, EverFriends, Sound, Friendly, Pairs
<1>4. SocialTyped'
  BY <1>1, <1>2 DEF SocialTyped
<1>5. Registered'
  BY <1>0, <1>1, <1>2 DEF Sound, Registered
<1>6. Handlers'
  BY <1>1, <1>2 DEF Sound, Handlers, Asking, Creating
<1>7. OneRow'
  BY <1>1, <1>2 DEF Sound, OneRow, OneEdge, Inserting
<1>8. Friendly'
  BY <1>1, <1>2, <1>3 DEF Sound, Friendly, OnlyFriends, EverFriends
<1>9. Heard'
  <2>1. at[c].pc \notin Telling
    BY <1>1 DEF Telling, Greeting
  <2>2. \A q \in Rooms, w \in Names : Joined(q, w)' => Joined(q, w) /\ rooms'[q] = rooms[q]
    BY <1>1 DEF Joined
  <2> QED
    BY <1>1, <1>2, <2>1, <2>2, HeardKept DEF Sound
<1> QED
  BY <1>4, <1>5, <1>6, <1>7, <1>8, <1>9 DEF Sound

(* Connections open and close. *)
LEMMA ConnectSocial ==
    ASSUME Sound, NEW c \in Conns, Connect(c), UNCHANGED socialVars
    PROVE  Sound'
<1>1. /\ SocialTyped /\ sock[c] = "new" /\ sock' = [sock EXCEPT ![c] = "open"]
      /\ UNCHANGED <<who, clients, at, edges, rooms, members, told, greeted, befriended, crossed, leftover>>
  BY DEF Connect, Sound, socialVars
<1>2. /\ sock' \in [Conns -> {"new", "open", "closed"}]
      /\ \A d \in Conns : sock[d] = "open" => sock'[d] = "open"
  BY <1>1 DEF SocialTyped
<1>3. SocialTyped'
  BY <1>1, <1>2 DEF SocialTyped
<1>4. Registered'
  BY <1>1, <1>2 DEF Sound, Registered
<1>5. Handlers'
  BY <1>1 DEF Sound, Handlers
<1>6. OneRow'
  BY <1>1 DEF Sound, OneRow, OneEdge, Inserting
<1>7. Friendly'
  BY <1>1 DEF Sound, Friendly, OnlyFriends, EverFriends
<1>8. Heard'
  BY <1>1 DEF Sound, Heard, Pending, ToldRequest, Asks, Joined, ToldRoom, Announces
<1> QED
  BY <1>3, <1>4, <1>5, <1>6, <1>7, <1>8 DEF Sound

LEMMA LeaveInv ==
    ASSUME Sound, NEW c \in Conns, Leave(c)
    PROVE  Sound'
<1>1. /\ SocialTyped /\ Registered /\ at[c].pc \in {"idle", "gone"}
      /\ UNCHANGED <<edges, rooms, members, befriended, crossed, leftover>>
      /\ told' = [told EXCEPT ![c] = {}] /\ greeted' = greeted \ {c}
      /\ sock' = [sock EXCEPT ![c] = "closed"] /\ who' = [who EXCEPT ![c] = Nobody]
  BY DEF Leave, Disconnect, Gone, Sound, tables, Idle
<1>2. /\ at' \in [Conns -> AtSet] /\ at'[c] = Idle /\ at'[c].pc = "idle"
      /\ \A d \in Conns \ {c} : at'[d] = at[d]
  <2>1. CASE Disconnect(c)
    BY <1>1, <2>1 DEF Disconnect, SocialTyped, Idle
  <2>2. CASE Gone(c)
    BY <1>1, <2>2, HandlerDone DEF Gone
  <2> QED
    BY <2>1, <2>2 DEF Leave
<1>3. /\ clients' \in [Names -> Conns \cup {None}]
      /\ \A w \in Names : clients'[w] = IF clients[w] = c THEN None ELSE clients[w]
  <2>1. CASE Disconnect(c)
    BY <1>1, <2>1 DEF Disconnect, SocialTyped
  <2>2. CASE Gone(c)
    <3>1. PICK u \in Names : u = at[c].u
      BY <2>2 DEF Gone, Sound, Handlers
    <3>2. at[c] # Idle
      BY <2>2 DEF Gone, Idle
    <3>3. \A w \in Names : clients[w] = c => w = u
      BY <1>1, <3>1, <3>2 DEF Registered
    <3>4. clients' = [clients EXCEPT ![u] = IF @ = c THEN None ELSE @]
      BY <2>2, <3>1 DEF Gone
    <3> QED
      BY <1>1, <3>3, <3>4 DEF SocialTyped
  <2> QED
    BY <2>1, <2>2 DEF Leave
<1>4. None \notin Conns
  BY AccountsAssumption
<1>5. SocialTyped'
  BY <1>1, <1>2, <1>3 DEF SocialTyped, Nobody, Facts
<1>6. Registered'
  BY <1>1, <1>2, <1>3, <1>4 DEF Registered, SocialTyped
<1>7. Handlers'
  BY <1>1, <1>2 DEF Sound, Handlers, Asking, Creating
<1>8. OneRow'
  BY <1>1, <1>2 DEF Sound, OneRow, OneEdge, Inserting
<1>9. Friendly'
  <2>1. \A d \in Conns : d # c => who'[d] = who[d] /\ told'[d] = told[d]
    BY <1>1 DEF SocialTyped
  <2>2. told'[c] = {}
    BY <1>1 DEF SocialTyped
  <2> QED
    BY <1>1, <1>2, <2>1, <2>2 DEF Sound, Friendly, OnlyFriends, EverFriends
<1>10. \A w \in Names : clients'[w] \in greeted' =>
          /\ clients'[w] = clients[w] /\ clients[w] \in greeted /\ clients[w] \in Conns \ {c}
          /\ told'[clients[w]] = told[clients[w]] /\ at'[clients[w]] = at[clients[w]]
  <2>1. \A w \in Names : clients'[w] \in greeted' =>
          clients'[w] = clients[w] /\ clients[w] \in greeted /\ clients[w] \in Conns \ {c}
    BY <1>1, <1>3, <1>4 DEF SocialTyped
  <2> QED
    BY <1>1, <1>2, <2>1 DEF SocialTyped
<1>11. Heard'
  <2>1. ASSUME NEW p \in Pairs, Pending(p)'
        PROVE  ToldRequest(p)' \/ Asks(p)' \/ at'[clients'[p[2]]].pc = "greetPending"
    <3>1. Pending(p) /\ p[2] \in Names
      BY <1>1, <1>10, <2>1 DEF Pending, Pairs
    <3>2. Asks(p) => Asks(p)'
      BY <1>1, <1>2 DEF Asks
    <3> QED
      BY <1>10, <2>1, <3>1, <3>2 DEF Sound, Heard, ToldRequest, Pending
  <2>2. ASSUME NEW r \in Rooms, NEW w \in Names, Joined(r, w)'
        PROVE  ToldRoom(r, w)' \/ Announces(r, w)' \/ at'[clients'[w]].pc \in Greeting
    <3>1. Joined(r, w)
      BY <1>1, <1>10, <2>2 DEF Joined
    <3>2. Announces(r, w) => Announces(r, w)'
      BY <1>1, <1>2 DEF Announces
    <3> QED
      BY <1>10, <2>2, <3>1, <3>2 DEF Sound, Heard, ToldRoom, Joined
  <2> QED
    BY <2>1, <2>2 DEF Heard
<1> QED
  BY <1>5, <1>6, <1>7, <1>8, <1>9, <1>11 DEF Sound

(* A login takes the place of the connection before it; after a password   *)
(* it goes on to read what awaits the user.                                *)
LEMMA SignInInv ==
    ASSUME Sound, NEW c \in Conns, NEW u \in Names, SignIn(c, u)
    PROVE  Sound'
<1> DEFINE o == clients[u]
<1>1. /\ SocialTyped /\ Registered /\ sock[c] = "open" /\ who[c] = Nobody /\ at[c] = Idle /\ at[c].pc = "idle"
      /\ UNCHANGED <<edges, rooms, members, befriended, crossed, leftover>>
  BY DEF SignIn, Ready, Sound, tables, Idle
<1>2. /\ sock' = [d \in Conns |-> IF d = o THEN "closed" ELSE sock[d]]
      /\ who' = [d \in Conns |-> IF d = c THEN [u |-> u, id |-> 0]
                                 ELSE IF d = o THEN Nobody ELSE who[d]]
      /\ clients' = [clients EXCEPT ![u] = c]
      /\ told' = [d \in Conns |-> IF d = o THEN {} ELSE told[d]]
  BY DEF SignIn, Signed
<1>3. \A w \in Names : clients[w] # c
  BY <1>1, AccountsAssumption DEF Registered, Nobody
<1>4. c \notin greeted /\ c # o
  BY <1>1, <1>3 DEF Sound, Registered
<1>5. /\ at' \in [Conns -> AtSet] /\ \A d \in Conns \ {c} : at'[d] = at[d]
      /\ \/ /\ at'[c] = [pc |-> "greetPending", u |-> u, id |-> 0, x |-> None, tok |-> 0]
            /\ greeted' = (greeted \ {o}) \cup {c}
         \/ at'[c] = at[c] /\ greeted' = greeted \ {o}
  <2>1. CASE Do(c, "greetPending", u, 0, None) /\ greeted' = (greeted \ {o}) \cup {c}
    BY <1>1, <2>1, HandlerMoves DEF Greeting
  <2>2. CASE UNCHANGED at /\ greeted' = greeted \ {o}
    BY <1>1, <2>2 DEF SocialTyped
  <2> QED
    BY <2>1, <2>2 DEF SignIn
<1>6. \A w \in Names \ {u} : clients'[w] = clients[w] /\ (clients[w] \in Conns => clients[w] # o)
  BY <1>1, <1>2 DEF Registered, SocialTyped
<1>6a. clients'[u] = c
  BY <1>1, <1>2 DEF SocialTyped
<1>6b. \A d \in Conns : d # o => sock'[d] = sock[d] /\ told'[d] = told[d] /\ (d # c => who'[d] = who[d])
  BY <1>2
<1>6c. who'[c].u = u /\ who'[c] # Nobody
  BY <1>2, AccountsAssumption DEF Nobody
<1> HIDE DEF o
<1>7. SocialTyped'
  BY <1>1, <1>2, <1>5 DEF SocialTyped, Nobody, Facts
<1>8. Registered'
  <2>1. ASSUME NEW w \in Names, NEW d \in Conns, clients'[w] = d
        PROVE  sock'[d] = "open" /\ who'[d].u = w /\ (at'[d] # Idle => at'[d].u = w)
    <3>1. CASE w = u
      BY <1>1, <1>4, <1>5, <1>6a, <1>6b, <1>6c, <2>1, <3>1
    <3>2. CASE w # u
      BY <1>1, <1>3, <1>5, <1>6, <1>6b, <2>1, <3>2 DEF Registered
    <3> QED
      BY <3>1, <3>2
  <2>2. ASSUME NEW d \in greeted' PROVE who'[d] # Nobody
    <3>1. d = c \/ (d \in greeted /\ d # o /\ d \in Conns)
      BY <1>1, <1>5, <2>2 DEF SocialTyped
    <3> QED
      BY <1>1, <1>6b, <1>6c, <3>1 DEF Registered
  <2> QED
    BY <2>1, <2>2 DEF Registered
<1>9. Handlers'
  BY <1>1, <1>5 DEF Sound, Handlers, Asking, Creating
<1>10. OneRow'
  BY <1>1, <1>5 DEF Sound, OneRow, OneEdge, Inserting
<1>11. Friendly'
  <2>1. ASSUME NEW d \in Conns, NEW v \in Names, <<"signal", v>> \in told'[d]
        PROVE  EverFriends(v, who'[d].u)
    <3>1. d # o /\ <<"signal", v>> \in told[d]
      BY <1>2, <2>1
    <3>2. EverFriends(v, who[d].u)
      BY <3>1 DEF Sound, Friendly, OnlyFriends
    <3>3. d # c
      BY <1>1, <3>2, AccountsAssumption DEF EverFriends, Nobody, SocialTyped, Pairs
    <3> QED
      BY <1>6b, <3>1, <3>2, <3>3
  <2>2. \A a, b : EverFriends(a, b)' <=> EverFriends(a, b)
    BY <1>1 DEF EverFriends
  <2> QED
    BY <1>1, <1>5, <2>1, <2>2 DEF Sound, Friendly, OnlyFriends
<1>12. \A w \in Names \ {u} : clients'[w] \in greeted' =>
          /\ clients'[w] = clients[w] /\ clients[w] \in greeted /\ clients[w] \in Conns \ {c}
          /\ told'[clients[w]] = told[clients[w]] /\ at'[clients[w]] = at[clients[w]]
  <2>1. \A w \in Names \ {u} : clients'[w] \in greeted' =>
          clients'[w] = clients[w] /\ clients[w] \in greeted /\ clients[w] \in Conns \ {c}
    BY <1>1, <1>3, <1>5, <1>6 DEF SocialTyped
  <2> QED
    BY <1>5, <1>6, <1>6b, <2>1
<1>13. clients'[u] \in greeted' => at'[clients'[u]].pc = "greetPending"
  BY <1>4, <1>5, <1>6a
<1>14. Heard'
  <2>1. ASSUME NEW p \in Pairs, Pending(p)', p[2] # u
        PROVE  ToldRequest(p)' \/ Asks(p)' \/ at'[clients'[p[2]]].pc = "greetPending"
    <3>1. Pending(p) /\ p[2] \in Names \ {u}
      BY <1>1, <1>12, <2>1 DEF Pending, Pairs
    <3>2. Asks(p) => Asks(p)'
      BY <1>1, <1>5 DEF Asks
    <3> QED
      BY <1>12, <2>1, <3>1, <3>2 DEF Sound, Heard, ToldRequest, Pending
  <2>2. ASSUME NEW r \in Rooms, NEW w \in Names, Joined(r, w)', w # u
        PROVE  ToldRoom(r, w)' \/ Announces(r, w)' \/ at'[clients'[w]].pc \in Greeting
    <3>1. Joined(r, w)
      BY <1>1, <1>12, <2>2 DEF Joined
    <3>2. Announces(r, w) => Announces(r, w)'
      BY <1>1, <1>5 DEF Announces
    <3> QED
      BY <1>12, <2>2, <3>1, <3>2 DEF Sound, Heard, ToldRoom, Joined
  <2> QED
    BY <1>13, <2>1, <2>2 DEF Heard, Pending, Joined, Greeting
<1> QED
  BY <1>7, <1>8, <1>9, <1>10, <1>11, <1>14 DEF Sound

(* The login reads what was asked while the user was away ... *)
LEMMA PendingRequestsInv ==
    ASSUME Sound, NEW c \in Conns, getPendingRequests(c)
    PROVE  Sound'
<1>0. PICK u \in Names : u = at[c].u
  BY DEF getPendingRequests, Sound, Handlers
<1>1. /\ SocialTyped /\ Registered /\ at[c].pc = "greetPending" /\ at[c] # Idle
      /\ UNCHANGED <<sock, who, clients, edges, rooms, members, greeted, befriended, crossed, leftover>>
      /\ told' = [told EXCEPT ![c] = @ \cup {<<"request", v>> : v \in RequestsTo(u)}]
      /\ Do(c, "greetRooms", u, 0, None)
  BY <1>0 DEF getPendingRequests, Sound, tables, Idle
<1>2. /\ at' \in [Conns -> AtSet]
      /\ at'[c] = [pc |-> "greetRooms", u |-> u, id |-> 0, x |-> None, tok |-> 0]
      /\ \A d \in Conns \ {c} : at'[d] = at[d]
  BY <1>1, HandlerMoves DEF Greeting
<1>3. /\ told' \in [Conns -> SUBSET Facts]
      /\ \A d \in Conns : told[d] \subseteq told'[d]
      /\ \A d \in Conns, v \in Names : <<"signal", v>> \in told'[d] => <<"signal", v>> \in told[d]
      /\ \A v \in RequestsTo(u) : <<"request", v>> \in told'[c]
  <2> DEFINE new == {<<"request", v>> : v \in RequestsTo(u)}
  <2>1. /\ new \subseteq Facts /\ \A v \in Names : <<"signal", v>> \notin new
        /\ \A v \in RequestsTo(u) : <<"request", v>> \in new
    <3>1. ASSUME NEW f \in new PROVE f \in Facts /\ \A v \in Names : f # <<"signal", v>>
      <4>1. PICK v \in Names : f = <<"request", v>>
        BY DEF RequestsTo
      <4> QED
        BY <4>1 DEF Facts
    <3>2. \A v \in RequestsTo(u) : <<"request", v>> \in new
      OBVIOUS
    <3> QED
      BY <3>1, <3>2
  <2>2. told' = [told EXCEPT ![c] = @ \cup new]
    BY <1>1
  <2> HIDE DEF new
  <2>3. told' \in [Conns -> SUBSET Facts] /\ \A d \in Conns : told[d] \subseteq told'[d]
    BY <1>1, <2>1, <2>2 DEF SocialTyped
  <2>4. told'[c] = told[c] \cup new /\ \A d \in Conns \ {c} : told'[d] = told[d]
    BY <1>1, <2>2 DEF SocialTyped
  <2> QED
    BY <2>1, <2>3, <2>4
<1>4. SocialTyped'
  BY <1>1, <1>2, <1>3 DEF SocialTyped
<1>5. Registered'
  BY <1>0, <1>1, <1>2 DEF Registered
<1>6. Handlers'
  BY <1>1, <1>2 DEF Sound, Handlers, Asking, Creating
<1>7. OneRow'
  BY <1>1, <1>2 DEF Sound, OneRow, OneEdge, Inserting
<1>8. Friendly'
  BY <1>1, <1>2, <1>3 DEF Sound, Friendly, OnlyFriends, EverFriends
<1>9. ASSUME NEW p \in Pairs, Pending(p)'
      PROVE  ToldRequest(p)' \/ Asks(p)' \/ at'[clients'[p[2]]].pc = "greetPending"
  <2>1. Pending(p) /\ clients[p[2]] \in Conns
    BY <1>1, <1>9 DEF Pending, SocialTyped
  <2>2. ToldRequest(p) => ToldRequest(p)'
    BY <1>1, <1>3, <2>1 DEF ToldRequest
  <2>3. Asks(p) => Asks(p)'
    BY <1>1, <1>2 DEF Asks
  <2>4. CASE at[clients[p[2]]].pc = "greetPending"
    <3>1. CASE clients[p[2]] = c
      <4>1. p[2] = u
        BY <1>0, <1>1, <3>1 DEF Registered, Pairs
      <4>2. p[1] \in RequestsTo(u)
        BY <2>1, <4>1 DEF RequestsTo, Pending, Pairs
      <4> QED
        BY <1>1, <1>3, <3>1, <4>2 DEF ToldRequest
    <3>2. CASE clients[p[2]] # c
      BY <1>1, <1>2, <2>1, <2>4, <3>2
    <3> QED
      BY <3>1, <3>2
  <2> QED
    BY <2>1, <2>2, <2>3, <2>4 DEF Sound, Heard
<1>10. ASSUME NEW r \in Rooms, NEW w \in Names, Joined(r, w)'
       PROVE  ToldRoom(r, w)' \/ Announces(r, w)' \/ at'[clients'[w]].pc \in Greeting
  <2>1. Joined(r, w) /\ clients[w] \in Conns
    BY <1>1, <1>10 DEF Joined, SocialTyped
  <2>2. ToldRoom(r, w) => ToldRoom(r, w)'
    BY <1>1, <1>3, <2>1 DEF ToldRoom
  <2>3. Announces(r, w) => Announces(r, w)'
    BY <1>1, <1>2 DEF Announces
  <2>4. at[clients[w]].pc \in Greeting => at'[clients'[w]].pc \in Greeting
    BY <1>1, <1>2, <2>1 DEF Greeting
  <2> QED
    BY <2>1, <2>2, <2>3, <2>4 DEF Sound, Heard
<1>11. Heard'
  BY <1>9, <1>10 DEF Heard
<1> QED
  BY <1>4, <1>5, <1>6, <1>7, <1>8, <1>11 DEF Sound

(* ... and the conversations the user is in. *)
LEMMA UserConversationsInv ==
    ASSUME Sound, NEW c \in Conns, userConversations(c)
    PROVE  Sound'
<1>0. PICK u \in Names : u = at[c].u
  BY DEF userConversations, Sound, Handlers
<1> DEFINE mine == {x \in Rooms : rooms[x] # None /\ <<x, u>> \in members}
<1>1. /\ SocialTyped /\ Registered /\ at[c].pc = "greetRooms" /\ at[c] # Idle
      /\ UNCHANGED <<sock, who, clients, edges, rooms, members, greeted, befriended, crossed, leftover>>
      /\ told' = [told EXCEPT ![c] = @ \cup {<<"convo", r>> : r \in mine}]
      /\ Done(c)
  BY <1>0 DEF userConversations, Sound, tables, Idle
<1>2. /\ at' \in [Conns -> AtSet] /\ at'[c] = Idle /\ at'[c].pc = "idle"
      /\ \A d \in Conns \ {c} : at'[d] = at[d]
  BY <1>1, HandlerDone
<1>3. /\ told' \in [Conns -> SUBSET Facts]
      /\ \A d \in Conns : told[d] \subseteq told'[d]
      /\ \A d \in Conns, v \in Names : <<"signal", v>> \in told'[d] => <<"signal", v>> \in told[d]
      /\ \A r \in mine : <<"convo", r>> \in told'[c]
  <2> DEFINE new == {<<"convo", r>> : r \in mine}
  <2>1. /\ new \subseteq Facts /\ \A v \in Names : <<"signal", v>> \notin new
        /\ \A r \in mine : <<"convo", r>> \in new
    <3>1. ASSUME NEW f \in new PROVE f \in Facts /\ \A v \in Names : f # <<"signal", v>>
      <4>1. PICK r \in Rooms : f = <<"convo", r>>
        OBVIOUS
      <4> QED
        BY <4>1 DEF Facts
    <3>2. \A r \in mine : <<"convo", r>> \in new
      OBVIOUS
    <3> QED
      BY <3>1, <3>2
  <2>2. told' = [told EXCEPT ![c] = @ \cup new]
    BY <1>1
  <2> HIDE DEF new
  <2>3. told' \in [Conns -> SUBSET Facts] /\ \A d \in Conns : told[d] \subseteq told'[d]
    BY <1>1, <2>1, <2>2 DEF SocialTyped
  <2>4. told'[c] = told[c] \cup new /\ \A d \in Conns \ {c} : told'[d] = told[d]
    BY <1>1, <2>2 DEF SocialTyped
  <2> QED
    BY <2>1, <2>3, <2>4
<1>4. SocialTyped'
  BY <1>1, <1>2, <1>3 DEF SocialTyped
<1>5. Registered'
  BY <1>1, <1>2 DEF Registered
<1>6. Handlers'
  BY <1>1, <1>2 DEF Sound, Handlers, Asking, Creating
<1>7. OneRow'
  BY <1>1, <1>2 DEF Sound, OneRow, OneEdge, Inserting
<1>8. Friendly'
  BY <1>1, <1>2, <1>3 DEF Sound, Friendly, OnlyFriends, EverFriends
<1>9. ASSUME NEW p \in Pairs, Pending(p)'
      PROVE  ToldRequest(p)' \/ Asks(p)' \/ at'[clients'[p[2]]].pc = "greetPending"
  <2>1. Pending(p) /\ clients[p[2]] \in Conns
    BY <1>1, <1>9 DEF Pending, SocialTyped
  <2>2. ToldRequest(p) => ToldRequest(p)'
    BY <1>1, <1>3, <2>1 DEF ToldRequest
  <2>3. Asks(p) => Asks(p)'
    BY <1>1, <1>2 DEF Asks
  <2>4. at[clients[p[2]]].pc = "greetPending" => at'[clients'[p[2]]].pc = "greetPending"
    BY <1>1, <1>2, <2>1
  <2> QED
    BY <2>1, <2>2, <2>3, <2>4 DEF Sound, Heard
<1>10. ASSUME NEW r \in Rooms, NEW w \in Names, Joined(r, w)'
       PROVE  ToldRoom(r, w)' \/ Announces(r, w)' \/ at'[clients'[w]].pc \in Greeting
  <2>1. Joined(r, w) /\ clients[w] \in Conns
    BY <1>1, <1>10 DEF Joined, SocialTyped
  <2>2. ToldRoom(r, w) => ToldRoom(r, w)'
    BY <1>1, <1>3, <2>1 DEF ToldRoom
  <2>3. Announces(r, w) => Announces(r, w)'
    BY <1>1, <1>2 DEF Announces
  <2>4. CASE at[clients[w]].pc \in Greeting
    <3>1. CASE clients[w] = c
      <4>1. w = u
        BY <1>0, <1>1, <3>1 DEF Registered
      <4>2. r \in mine
        BY <2>1, <4>1 DEF Joined
      <4> QED
        BY <1>1, <1>3, <3>1, <4>2 DEF ToldRoom
    <3>2. CASE clients[w] # c
      BY <1>1, <1>2, <2>1, <2>4, <3>2
    <3> QED
      BY <3>1, <3>2
  <2> QED
    BY <2>1, <2>2, <2>3, <2>4 DEF Sound, Heard
<1>11. Heard'
  BY <1>9, <1>10 DEF Heard
<1> QED
  BY <1>4, <1>5, <1>6, <1>7, <1>8, <1>11 DEF Sound

(* The members of a new conversation were friends of its creator, or left  *)
(* over from an earlier one of that id.                                    *)
LEMMA CreateConversationInv ==
    ASSUME Sound, NEW c \in Conns, createConversation(c)
    PROVE  Sound'
<1>0. PICK u \in Names, r \in Rooms, tok \in SUBSET Names :
        /\ u = at[c].u /\ r = at[c].x /\ tok = at[c].tok
        /\ \A v \in tok : v # u => EverFriends(u, v)
  BY DEF createConversation, Sound, Handlers, Creating, Friendly
<1>1. /\ SocialTyped /\ at[c].pc = "create" /\ u = at[c].u
      /\ UNCHANGED <<sock, who, clients, edges, told, greeted, befriended, crossed, leftover>>
  BY <1>0 DEF createConversation, Sound
<1>2. at[c].pc \notin Telling
  BY <1>1 DEF Telling, Greeting
<1>3. CASE rooms[r] = None /\ rooms' = [rooms EXCEPT ![r] = u]
           /\ members' = members \cup ({r} \X (tok \cup {u})) /\ Do(c, "created", u, 0, r)
  <2>1. /\ at' \in [Conns -> AtSet]
        /\ at'[c] = [pc |-> "created", u |-> u, id |-> 0, x |-> r, tok |-> 0]
        /\ \A d \in Conns \ {c} : at'[d] = at[d]
    BY <1>1, <1>3, HandlerMoves DEF Creating
  <2>2. /\ rooms' \in [Rooms -> Names \cup {None}] /\ rooms'[r] = u /\ rooms'[r] # None
        /\ \A q \in Rooms \ {r} : rooms'[q] = rooms[q]
    BY <1>1, <1>3, AccountsAssumption DEF SocialTyped
  <2>3. /\ members' \subseteq Rooms \X Names
        /\ \A m \in members' : m \in members \/ (m[1] = r /\ m[2] \in tok \cup {u})
        /\ \A q \in Rooms \ {r}, w \in Names : <<q, w>> \in members' => <<q, w>> \in members
    BY <1>1, <1>3 DEF SocialTyped
  <2>4. SocialTyped'
    BY <1>1, <2>1, <2>2, <2>3 DEF SocialTyped
  <2>5. Registered'
    BY <1>1, <2>1 DEF Sound, Registered, Idle
  <2>6. Handlers'
    BY <1>1, <2>1 DEF Sound, Handlers, Asking, Creating
  <2>7. OneRow'
    BY <1>1, <2>1 DEF Sound, OneRow, OneEdge, Inserting
  <2>8. Friendly'
    <3>1. \A a, b : EverFriends(a, b)' <=> EverFriends(a, b)
      BY <1>1 DEF EverFriends
    <3>2. ASSUME NEW m \in members' PROVE rooms'[m[1]] = None => m \in leftover'
      BY <1>1, <2>2, <2>3, <3>2 DEF Sound, Friendly, SocialTyped
    <3>3. ASSUME NEW m \in members' \ leftover', rooms'[m[1]] \notin {None, m[2]}
          PROVE  EverFriends(rooms'[m[1]], m[2])
      <4>1. CASE m[1] = r
        <5>1. m \notin members
          BY <1>1, <1>3, <3>3, <4>1 DEF Sound, Friendly
        <5> QED
          BY <1>0, <2>2, <2>3, <3>3, <4>1, <5>1
      <4>2. CASE m[1] # r
        <5>1. m \in members \ leftover /\ rooms'[m[1]] = rooms[m[1]]
          BY <1>1, <2>2, <2>3, <3>3, <4>2 DEF SocialTyped
        <5> QED
          BY <3>3, <5>1 DEF Sound, Friendly, OnlyFriends
      <4> QED
        BY <4>1, <4>2
    <3>4. OnlyFriends'
      BY <1>1, <3>1, <3>3 DEF Sound, Friendly, OnlyFriends
    <3>5. /\ \A p \in Pairs : edges'[p] = "accepted" => p \in befriended'
          /\ \A d \in Conns : at'[d].pc = "signal" => EverFriends(at'[d].u, at'[d].x)
          /\ \A d \in Conns : at'[d].pc = "create" =>
                \A v \in at'[d].tok : v # at'[d].u => EverFriends(at'[d].u, v)
      BY <1>1, <2>1 DEF Sound, Friendly
    <3> QED
      BY <3>1, <3>2, <3>4, <3>5 DEF Friendly
  <2>9. Heard'
    <3>1. ASSUME NEW q \in Rooms, NEW w \in Names, Joined(q, w)'
          PROVE  (Joined(q, w) /\ rooms'[q] = rooms[q]) \/ Announces(q, w)'
      <4>1. CASE q = r
        BY <2>1, <2>2, <4>1 DEF Announces
      <4>2. CASE q # r
        BY <1>1, <2>2, <2>3, <3>1, <4>2 DEF Joined
      <4> QED
        BY <4>1, <4>2
    <3> QED
      BY <1>1, <1>2, <2>1, <3>1, HeardKept DEF Sound
  <2> QED
    BY <2>4, <2>5, <2>6, <2>7, <2>8, <2>9 DEF Sound
<1>4. CASE Done(c) /\ UNCHANGED <<rooms, members>>
  <2>1. /\ at' \in [Conns -> AtSet] /\ at'[c] = Idle /\ at'[c].pc = "idle"
        /\ \A d \in Conns \ {c} : at'[d] = at[d]
    BY <1>1, <1>4, HandlerDone
  <2>2. SocialTyped'
    BY <1>1, <1>4, <2>1 DEF SocialTyped
  <2>3. Registered'
    BY <1>1, <2>1 DEF Sound, Registered
  <2>4. Handlers'
    BY <1>1, <2>1 DEF Sound, Handlers, Asking, Creating
  <2>5. OneRow'
    BY <1>1, <2>1 DEF Sound, OneRow, OneEdge, Inserting
  <2>6. Friendly'
    BY <1>1, <1>4, <2>1 DEF Sound, Friendly, OnlyFriends, EverFriends
  <2>7. Heard'
    <3>1. \A q \in Rooms, w \in Names : Joined(q, w)' => Joined(q, w) /\ rooms'[q] = rooms[q]
      BY <1>1, <1>4 DEF Joined
    <3> QED
      BY <1>1, <1>2, <2>1, <3>1, HeardKept DEF Sound
  <2> QED
    BY <2>2, <2>3, <2>4, <2>5, <2>6, <2>7 DEF Sound
<1> QED
  BY <1>0, <1>3, <1>4 DEF createConversation

LEMMA ConvoCreatedInv ==
    ASSUME Sound, NEW c \in Conns, ConvoCreated(c)
    PROVE  Sound'
<1>0. PICK u \in Names, r \in Rooms, tok \in SUBSET Names :
        u = at[c].u /\ r = at[c].x /\ tok = Members(r)
  <2>1. Members(at[c].x) \in SUBSET Names
    BY DEF Members
  <2> QED
    BY <2>1 DEF ConvoCreated, Sound, Handlers, Creating
<1>1. /\ SocialTyped /\ Registered /\ at[c].pc = "created" /\ at[c] # Idle
      /\ UNCHANGED <<sock, who, clients, edges, rooms, members, told, greeted, befriended, crossed, leftover>>
      /\ at' = [at EXCEPT ![c] = [pc |-> "notice", u |-> u, id |-> 0, x |-> r, tok |-> tok]]
  BY <1>0 DEF ConvoCreated, Sound, socialVars, Idle
<1>2. /\ at' \in [Conns -> AtSet]
      /\ at'[c].pc = "notice" /\ at'[c].u = u /\ at'[c].x = r /\ at'[c].tok = tok
      /\ \A d \in Conns \ {c} : at'[d] = at[d]
  BY <1>1 DEF SocialTyped, AtSet, Creating
<1>3. SocialTyped'
  BY <1>1, <1>2 DEF SocialTyped
<1>4. Registered'
  BY <1>0, <1>1, <1>2 DEF Registered
<1>5. Handlers'
  BY <1>1, <1>2 DEF Sound, Handlers, Asking, Creating
<1>6. OneRow'
  BY <1>1, <1>2 DEF Sound, OneRow, OneEdge, Inserting
<1>7. Friendly'
  BY <1>1, <1>2 DEF Sound, Friendly, OnlyFriends, EverFriends
<1>8. Heard'
  <2>1. ASSUME NEW p \in Pairs, Pending(p)'
        PROVE  ToldRequest(p)' \/ Asks(p)' \/ at'[clients'[p[2]]].pc = "greetPending"
    <3>1. Pending(p) /\ clients[p[2]] \in Conns
      BY <1>1, <2>1 DEF Pending, SocialTyped
    <3>2. ToldRequest(p) => ToldRequest(p)'
      BY <1>1 DEF ToldRequest
    <3>3. Asks(p) => Asks(p)'
      BY <1>1, <1>2 DEF Asks
    <3>4. at[clients[p[2]]].pc = "greetPending" => at'[clients'[p[2]]].pc = "greetPending"
      BY <1>1, <1>2, <3>1
    <3> QED
      BY <3>1, <3>2, <3>3, <3>4 DEF Sound, Heard
  <2>2. ASSUME NEW q \in Rooms, NEW w \in Names, Joined(q, w)'
        PROVE  ToldRoom(q, w)' \/ Announces(q, w)' \/ at'[clients'[w]].pc \in Greeting
    <3>1. Joined(q, w) /\ clients[w] \in Conns /\ rooms'[q] = rooms[q]
      BY <1>1, <2>2 DEF Joined, SocialTyped
    <3>2. ToldRoom(q, w) => ToldRoom(q, w)'
      BY <1>1 DEF ToldRoom
    <3>3. CASE Announces(q, w)
      <4>1. PICK d \in Conns : /\ at[d].u = rooms[q] /\ at[d].x = q
                               /\ at[d].pc = "created" \/ (at[d].pc = "notice" /\ w \in at[d].tok)
        BY <3>3 DEF Announces
      <4>2. CASE d = c
        <5>1. q = r /\ rooms'[q] = u /\ w \in tok
          BY <1>0, <3>1, <4>1, <4>2 DEF Joined, Members
        <5> QED
          BY <1>2, <5>1 DEF Announces
      <4>3. CASE d # c
        BY <1>2, <3>1, <4>1, <4>3 DEF Announces
      <4> QED
        BY <4>2, <4>3
    <3>4. at[clients[w]].pc \in Greeting => at'[clients'[w]].pc \in Greeting
      BY <1>1, <1>2, <3>1 DEF Greeting
    <3> QED
      BY <3>1, <3>2, <3>3, <3>4 DEF Sound, Heard
  <2> QED
    BY <2>1, <2>2 DEF Heard
<1> QED
  BY <1>3, <1>4, <1>5, <1>6, <1>7, <1>8 DEF Sound

(* The members read back are told. *)
LEMMA ConvoNoticeInv ==
    ASSUME Sound, NEW c \in Conns, ConvoNotice(c)
    PROVE  Sound'
<1>0. PICK u \in Names, r \in Rooms, tok \in SUBSET Names :
        u = at[c].u /\ r = at[c].x /\ tok = at[c].tok
  BY DEF ConvoNotice, Sound, Handlers, Creating
<1>1. /\ SocialTyped /\ Registered /\ at[c].pc = "notice"
      /\ UNCHANGED <<sock, who, clients, edges, rooms, members, greeted, befriended, crossed, leftover>>
  BY DEF ConvoNotice, Sound, tables
<1>2. /\ at' \in [Conns -> AtSet] /\ at'[c] = Idle /\ at'[c].pc = "idle"
      /\ \A d \in Conns \ {c} : at'[d] = at[d]
  BY <1>1, HandlerDone DEF ConvoNotice
<1> DEFINE fact == <<"convo", r>>
<1>3. /\ told' \in [Conns -> SUBSET Facts]
      /\ \A d \in Conns : told[d] \subseteq told'[d]
      /\ \A w \in tok : clients[w] \in Conns => fact \in told'[clients[w]]
      /\ \A d \in Conns : \A f \in told'[d] \ told[d] : f = fact
  <2>1. fact \in Facts /\ Tell(tok, fact)
    BY <1>0 DEF Facts, ConvoNotice
  <2> HIDE DEF fact
  <2>2. /\ told' \in [Conns -> SUBSET Facts]
        /\ \A d \in Conns : told[d] \subseteq told'[d]
        /\ \A w \in tok : clients[w] \in Conns => fact \in told'[clients[w]]
        /\ \A d \in Conns : \A f \in told'[d] \ told[d] :
              f = fact /\ \E w \in tok : clients[w] = d
    BY <1>1, <2>1, TellFacts
  <2> QED
    BY <2>2
<1>4. SocialTyped'
  BY <1>1, <1>2, <1>3 DEF SocialTyped
<1>5. Registered'
  BY <1>1, <1>2 DEF Registered
<1>6. Handlers'
  BY <1>1, <1>2 DEF Sound, Handlers, Asking, Creating
<1>7. OneRow'
  BY <1>1, <1>2 DEF Sound, OneRow, OneEdge, Inserting
<1>8. Friendly'
  <2>1. \A d \in Conns, w \in Names : <<"signal", w>> \in told'[d] => <<"signal", w>> \in told[d]
    BY <1>3
  <2> QED
    BY <1>1, <1>2, <2>1 DEF Sound, Friendly, OnlyFriends, EverFriends
<1>9. ASSUME NEW p \in Pairs, Pending(p)'
      PROVE  ToldRequest(p)' \/ Asks(p)' \/ at'[clients'[p[2]]].pc = "greetPending"
  <2>1. Pending(p) /\ clients[p[2]] \in Conns
    BY <1>1, <1>9 DEF Pending, SocialTyped
  <2>2. ToldRequest(p) => ToldRequest(p)'
    BY <1>1, <1>3, <2>1 DEF ToldRequest
  <2>3. Asks(p) => Asks(p)'
    BY <1>1, <1>2 DEF Asks
  <2>4. at[clients[p[2]]].pc = "greetPending" => at'[clients'[p[2]]].pc = "greetPending"
    BY <1>1, <1>2, <2>1
  <2> QED
    BY <2>1, <2>2, <2>3, <2>4 DEF Sound, Heard
<1>10. ASSUME NEW q \in Rooms, NEW w \in Names, Joined(q, w)'
       PROVE  ToldRoom(q, w)' \/ Announces(q, w)' \/ at'[clients'[w]].pc \in Greeting
  <2>1. Joined(q, w) /\ clients[w] \in Conns
    BY <1>1, <1>10 DEF Joined, SocialTyped
  <2>2. ToldRoom(q, w) => ToldRoom(q, w)'
    BY <1>1, <1>3, <2>1 DEF ToldRoom
  <2>3. CASE Announces(q, w)
    <3>1. PICK d \in Conns : /\ at[d].u = rooms[q] /\ at[d].x = q
                             /\ at[d].pc = "created" \/ (at[d].pc = "notice" /\ w \in at[d].tok)
      BY <2>3 DEF Announces
    <3>2. CASE d = c
      BY <1>0, <1>1, <1>3, <2>1, <3>1, <3>2 DEF ToldRoom
    <3>3. CASE d # c
      BY <1>1, <1>2, <3>1, <3>3 DEF Announces
    <3> QED
      BY <3>2, <3>3
  <2>4. at[clients[w]].pc \in Greeting => at'[clients'[w]].pc \in Greeting
    BY <1>1, <1>2, <2>1 DEF Greeting
  <2> QED
    BY <2>1, <2>2, <2>3, <2>4 DEF Sound, Heard
<1>11. Heard'
  BY <1>9, <1>10 DEF Heard
<1> QED
  BY <1>4, <1>5, <1>6, <1>7, <1>8, <1>11 DEF Sound

LEMMA LeaveConversationInv ==
    ASSUME Sound, NEW c \in Conns, NEW r \in Rooms, leaveConversation(c, r)
    PROVE  Sound'
<1>1. /\ SocialTyped /\ at[c].pc = "idle" /\ members' \subseteq members
      /\ UNCHANGED <<sock, who, clients, at, edges, rooms, told, greeted, befriended, crossed, leftover>>
  BY LoggedInUser DEF leaveConversation, Sound, connVars
<1>2. SocialTyped'
  BY <1>1 DEF SocialTyped
<1>3. Registered'
  BY <1>1 DEF Sound, Registered
<1>4. Handlers'
  BY <1>1 DEF Sound, Handlers
<1>5. OneRow'
  BY <1>1 DEF Sound, OneRow, OneEdge, Inserting
<1>6. Friendly'
  BY <1>1 DEF Sound, Friendly, OnlyFriends, EverFriends
<1>7. Heard'
  <2>1. at[c].pc \notin Telling
    BY <1>1 DEF Telling, Greeting
  <2>2. \A q \in Rooms, w \in Names : Joined(q, w)' => Joined(q, w) /\ rooms'[q] = rooms[q]
    BY <1>1 DEF Joined
  <2> QED
    BY <1>1, <2>1, <2>2, HeardKept DEF Sound
<1> QED
  BY <1>2, <1>3, <1>4, <1>5, <1>6, <1>7 DEF Sound

(* What outlives a deleted account's conversations is left over. *)
LEMMA DeleteSocialInv ==
    ASSUME Sound, NEW c \in Conns, deleteSocial(c)
    PROVE  Sound'
<1>0. PICK u \in Names : u = who[c].u
  BY LoggedInUser DEF deleteSocial, Sound
<1>1. /\ SocialTyped /\ at[c].pc = "idle" /\ at[c] = Idle
      /\ UNCHANGED <<sock, who, clients, told, greeted, befriended, crossed>>
      /\ Do(c, "gone", u, 0, 0)
      /\ leftover' = leftover \cup {m \in members' : rooms[m[1]] = u}
      /\ members' = {m \in members : m[2] # u}
      /\ rooms' = [r \in Rooms |-> IF rooms[r] = u THEN None ELSE rooms[r]]
      /\ edges' = [p \in Pairs |-> IF u \in {p[1], p[2]} THEN "none" ELSE edges[p]]
  BY <1>0, LoggedInUser DEF deleteSocial, Sound
<1>2. /\ at' \in [Conns -> AtSet]
      /\ at'[c] = [pc |-> "gone", u |-> u, id |-> 0, x |-> 0, tok |-> 0]
      /\ \A d \in Conns \ {c} : at'[d] = at[d]
  BY <1>1, HandlerMoves
<1>3. /\ edges' \in [Pairs -> {"none", "pending", "accepted"}]
      /\ \A p \in Pairs : edges'[p] \in {"none", edges[p]}
  BY <1>1 DEF SocialTyped
<1>4. /\ rooms' \in [Rooms -> Names \cup {None}]
      /\ \A r \in Rooms : rooms'[r] = None \/ (rooms'[r] = rooms[r] /\ rooms[r] # u)
      /\ \A r \in Rooms : rooms'[r] = None => rooms[r] \in {None, u}
  BY <1>1 DEF SocialTyped
<1>5. /\ members' \subseteq members /\ leftover' \subseteq Rooms \X Names
      /\ leftover \subseteq leftover'
      /\ \A m \in members' : rooms[m[1]] = u => m \in leftover'
  BY <1>1 DEF SocialTyped
<1>6. SocialTyped'
  BY <1>1, <1>2, <1>3, <1>4, <1>5 DEF SocialTyped
<1>7. Registered'
  BY <1>0, <1>1, <1>2 DEF Sound, Registered
<1>8. Handlers'
  BY <1>1, <1>2 DEF Sound, Handlers, Asking, Creating
<1>9. OneRow'
  BY <1>1, <1>2, <1>3 DEF Sound, OneRow, OneEdge, Inserting, Pairs
<1>10. Friendly'
  <2>1. \A a, b : EverFriends(a, b)' <=> EverFriends(a, b)
    BY <1>1 DEF EverFriends
  <2>2. \A m \in members' : m[1] \in Rooms
    BY <1>5 DEF Sound, SocialTyped
  <2>3. \A m \in members' : rooms'[m[1]] = None => m \in leftover'
    BY <1>4, <1>5, <2>2 DEF Sound, Friendly
  <2>4. OnlyFriends'
    BY <1>1, <1>4, <1>5, <2>1, <2>2 DEF Sound, Friendly, OnlyFriends
  <2>5. /\ \A p \in Pairs : edges'[p] = "accepted" => p \in befriended'
        /\ \A d \in Conns : at'[d].pc = "signal" => EverFriends(at'[d].u, at'[d].x)
        /\ \A d \in Conns : at'[d].pc = "create" =>
              \A v \in at'[d].tok : v # at'[d].u => EverFriends(at'[d].u, v)
    BY <1>1, <1>2, <1>3 DEF Sound, Friendly
  <2> QED
    BY <2>1, <2>3, <2>4, <2>5 DEF Friendly
<1>11. Heard'
  <2>1. at[c].pc \notin Telling
    BY <1>1 DEF Telling, Greeting
  <2>2. \A q \in Rooms, w \in Names : Joined(q, w)' => Joined(q, w) /\ rooms'[q] = rooms[q]
    BY <1>1, <1>4, <1>5 DEF Joined
  <2>3. \A p \in Pairs : edges'[p] = "pending" => edges[p] = "pending"
    BY <1>3
  <2> QED
    BY <1>1, <1>2, <2>1, <2>2, <2>3, HeardKept DEF Sound
<1> QED
  BY <1>6, <1>7, <1>8, <1>9, <1>10, <1>11 DEF Sound

(***************************************************************************)
(* The behaviours about friendships or conversations: every step.          *)
(***************************************************************************)
LEMMA FriendStepInv ==
    ASSUME Sound, NEW c \in Conns, FriendStep(c), People[flow] \subseteq Names
    PROVE  Sound'
<1>1. ASSUME NEW v \in Names, \/ FriendRequest(c, v) \/ FriendAccept(c, v)
                              \/ FriendReject(c, v) \/ removeFriend(c, v)
                              \/ FriendSignal(c, v)
      PROVE  Sound'
  BY <1>1, FriendRequestInv, AcceptInv, RejectInv, FriendSignalInv
<1> QED
  BY <1>1, SendRequestInv, NotifyRequestInv, SignalSendInv DEF FriendStep

LEMMA RoomStepInv ==
    ASSUME Sound, NEW c \in Conns, RoomStep(c)
    PROVE  Sound'
BY ConvoCreateInv, LeaveConversationInv, CreateConversationInv, ConvoCreatedInv,
   ConvoNoticeInv, DeleteSocialInv DEF RoomStep

LEMMA FlowStays ==
    ASSUME SocialNext
    PROVE  flow' = flow
<1>1. ASSUME AccountsNext PROVE flow' = flow
  <2>1. CASE \E c \in Conns : LoginStep(c) \/ Deletion(c)
    BY <2>1 DEF LoginStep, Deletion, Connect, issueSessionToken, Enter, Disconnect,
       Auth, DeleteRequest, deleteAccount, Gone, registerUser, verifyUser, verifyUserWrite
  <2>2. CASE \E c \in Conns : CodesStep(c) \/ TotpStep(c)
    BY <2>2 DEF CodesStep, TotpStep, Resend, ResendWrite, verifyPhoneLinkWrite,
       RequestPhoneLink, verifyPhoneLink, EnableTotp, ConfirmTotp, enableTOTP,
       DisableTotp, disableTOTP
  <2>3. CASE ResetStep
    BY <2>3 DEF ResetStep, ForgotPassword, createPasswordReset, consumePasswordReset,
       readPasswordReset
  <2>4. CASE TokensStep
    BY <2>4 DEF TokensStep, createQRLogin, approveQRLogin, QRLoginApprove, QRLoginCheck,
       SessionAuth, ExpireQR, revokeSession
  <2> QED
    BY <1>1, <2>1, <2>2, <2>3, <2>4 DEF AccountsNext
<1>2. ASSUME NEW c \in Conns, FriendStep(c) PROVE flow' = flow
  BY <1>2 DEF FriendStep, FriendRequest, FriendAccept, acceptFriendRequest, FriendReject, rejectFriendRequest,
     removeFriend, FriendSignal, sendFriendRequest, NotifyRequest, SignalSend
<1>3. ASSUME NEW c \in Conns, RoomStep(c) PROVE flow' = flow
  BY <1>3 DEF RoomStep, leaveConversation, ConvoCreate, createConversation, ConvoCreated,
     ConvoNotice, deleteSocial
<1>4. ASSUME NEW c \in Conns, NEW v, \/ Connect(c) \/ Leave(c) \/ getPendingRequests(c)
                                     \/ userConversations(c) \/ SignIn(c, v)
                                     \/ removeFriend(c, v)
      PROVE  flow' = flow
  BY <1>4 DEF Connect, Leave, Disconnect, Gone, getPendingRequests, userConversations,
     SignIn, removeFriend
<1> QED
  BY <1>1, <1>2, <1>3, <1>4 DEF SocialNext

LEMMA SocialInitInv ==
    ASSUME SocialInit
    PROVE  SocialInv
<1>1. CASE flow \in SocialFlows
  <2>1. SocialTyped
    BY <1>1 DEF SocialInit, AccountsInit, SocialTyped, AtSet, Idle, Nobody
  <2>2. Registered /\ Handlers /\ Heard
    BY AccountsAssumption DEF SocialInit, AccountsInit, Registered, Handlers, Heard, Idle, Asking,
       Creating, Pending, Joined
  <2>3. OneRow
    <3>1. \A p \in Pairs : edges[p] # "none" => p \in Friends0
      BY DEF SocialInit
    <3>2. OneEdge
      BY <3>1, SocialAssumption DEF OneEdge, Pairs
    <3> QED
      BY <3>2 DEF SocialInit, AccountsInit, OneRow, Inserting, Idle
  <2>4. Friendly
    BY DEF SocialInit, AccountsInit, Friendly, OnlyFriends, Idle
  <2> QED
    BY <1>1, <2>1, <2>2, <2>3, <2>4 DEF SocialInv, Sound, SocialInit, AccountsInit
<1>2. CASE flow \notin SocialFlows
  BY <1>2 DEF SocialInit, AccountsInit, SocialInv, SocialFlows, Quiet
<1> QED
  BY <1>1, <1>2

LEMMA SocialStepInv ==
    ASSUME SocialInv, SocialNext
    PROVE  SocialInv'
<1>1. flow' = flow
  BY FlowStays
<1>2. CASE flow \in SocialFlows
  <2>1. Sound
    BY <1>2 DEF SocialInv
  <2>2. ~AccountsNext
    BY <1>2 DEF SocialFlows, AccountFlows, AccountsNext
  <2>3. PICK c \in Conns :
          \/ Connect(c) /\ UNCHANGED socialVars
          \/ Leave(c)
          \/ getPendingRequests(c) \/ userConversations(c)
          \/ \E u \in People[flow] : SignIn(c, u)
          \/ flow = "friends" /\ FriendStep(c)
          \/ flow = "rooms" /\ (RoomStep(c) \/ \E v \in People[flow] : removeFriend(c, v))
    BY <2>2 DEF SocialNext
  <2>4. People[flow] \subseteq Names
    BY AccountsAssumption DEF SocialInv
  <2>5. Sound'
    BY <2>1, <2>3, <2>4, ConnectSocial, LeaveInv, PendingRequestsInv, UserConversationsInv,
       SignInInv, FriendStepInv, RoomStepInv, RejectInv
  <2> QED
    BY <1>1, <1>2, <2>5 DEF SocialInv
<1>3. CASE flow \notin SocialFlows
  <2>1. AccountsNext /\ UNCHANGED socialVars
    BY <1>3 DEF SocialNext
  <2>2. flow \in AccountFlows
    BY <2>1 DEF AccountsNext, AccountFlows
  <2> QED
    BY <1>1, <1>3, <2>1, <2>2 DEF SocialInv, socialVars, Quiet
<1> QED
  BY <1>2, <1>3

LEMMA SocialStutter ==
    ASSUME SocialInv, UNCHANGED allSocial
    PROVE  SocialInv'
<1>1. UNCHANGED <<flow, sock, who, clients, at, edges, rooms, members, told, greeted,
                  befriended, crossed, leftover>>
  BY DEF allSocial, accVars, connVars, socialVars
<1>2. CASE flow \in SocialFlows
  <2>1. SocialTyped' /\ Registered' /\ Handlers'
    BY <1>1, <1>2 DEF SocialInv, Sound, SocialTyped, Registered, Handlers
  <2>2. OneRow'
    BY <1>1, <1>2 DEF SocialInv, Sound, OneRow, OneEdge, Inserting
  <2>3. Friendly'
    BY <1>1, <1>2 DEF SocialInv, Sound, Friendly, OnlyFriends, EverFriends
  <2>4. Heard'
    BY <1>1, <1>2 DEF SocialInv, Sound, Heard, Pending, ToldRequest, Asks, Joined, ToldRoom,
       Announces
  <2> QED
    BY <1>1, <1>2, <2>1, <2>2, <2>3, <2>4 DEF SocialInv, Sound
<1>3. CASE flow \notin SocialFlows
  BY <1>1, <1>3 DEF SocialInv, Quiet
<1> QED
  BY <1>2, <1>3

(* Everything the model says of friendships and conversations follows. *)
LEMMA SocialFacts ==
    ASSUME SocialInv
    PROVE  OneEdge /\ OnlyFriends /\ NothingMissed
<1>1. CASE Sound
  <2>1. OneEdge /\ OnlyFriends
    BY <1>1 DEF Sound, OneRow, Friendly
  <2>2. ASSUME NEW p \in Pairs, edges[p] = "pending", AtRest(p[2])
        PROVE  <<"request", p[1]>> \in told[clients[p[2]]] \/ Busy({"notify"}, p[1], p[2])
    <3>1. Pending(p) /\ at[clients[p[2]]].pc # "greetPending"
      BY <2>2 DEF Pending, AtRest, Ready, Idle
    <3>2. ToldRequest(p) \/ Asks(p)
      BY <1>1, <3>1 DEF Sound, Heard
    <3> QED
      BY <3>2 DEF ToldRequest, Asks, Busy
  <2>3. ASSUME NEW r \in Rooms, NEW u \in Names,
               rooms[r] # None, <<r, u>> \in members, AtRest(u)
        PROVE  \/ <<"convo", r>> \in told[clients[u]]
               \/ Busy({"created", "notice"}, rooms[r], r)
    <3>1. Joined(r, u) /\ at[clients[u]].pc \notin Greeting
      BY <2>3 DEF Joined, AtRest, Ready, Idle, Greeting
    <3>2. ToldRoom(r, u) \/ Announces(r, u)
      BY <1>1, <3>1 DEF Sound, Heard
    <3> QED
      BY <3>2 DEF ToldRoom, Announces, Busy
  <2> QED
    BY <2>1, <2>2, <2>3 DEF NothingMissed
<1>2. CASE Quiet
  BY <1>2 DEF Quiet, OneEdge, OnlyFriends, NothingMissed, Pairs
<1> QED
  BY <1>1, <1>2 DEF SocialInv

(* The invariant holds throughout, whatever the handlers' order. *)
THEOREM SocialInvariant == SocialSpec => []SocialInv
<1>1. SocialInit => SocialInv
  BY SocialInitInv
<1>2. SocialInv /\ [SocialNext]_allSocial => SocialInv'
  BY SocialStepInv, SocialStutter
<1> QED
  BY <1>1, <1>2, PTL DEF SocialSpec

(* NothingMissed, of getPendingRequests, userConversations and the two     *)
(* notifying handlers: a request or a conversation stored while its user   *)
(* logs in is heard of, from the handler or from the login.                *)
THEOREM NobodyMissesAnything == SocialSpec => []NothingMissed
BY SocialInvariant, SocialFacts, PTL

(* OneEdge, of sendFriendRequest: two rows for one pair take two requests  *)
(* that were checked before either was inserted.                           *)
THEOREM OneRowPerPair == SocialSpec => []OneEdge
BY SocialInvariant, SocialFacts, PTL

(* OnlyFriends, of convo_create and the friends-only signals: membership   *)
(* and receipts are for those who were friends when the table was read.    *)
THEOREM FriendsOnly == SocialSpec => []OnlyFriends
BY SocialInvariant, SocialFacts, PTL

(* SocialTypeOK: the rows, the handlers' locals and what connections were  *)
(* told keep their types; a serial number stored anywhere has been drawn.  *)
THEOREM SocialTypes == SocialSpec => []SocialTypeOK
<1>1. ASSUME SocialInv, CredentialsInv PROVE SocialTypeOK
  <2>1. CASE flow \in AccountFlows
    <3>1. AccountsInv /\ Quiet
      BY <1>1, <2>1 DEF CredentialsInv, SocialInv, AccountFlows, SocialFlows
    <3>2. 0 .. fresh \subseteq Serials /\ fresh \in Serials
      BY <3>1, FreshIsNat DEF AccountsInv, Typed, Serials
    <3>3. AccountsTypeOK
      BY <3>1, <3>2
      DEF AccountsInv, Typed, ConnTyped, TableTyped, Drawn, AtType, RowType, SessionType,
          ResetType, QRType, AccountsTypeOK
    <3> QED
      BY <3>1, <3>3 DEF Quiet, SocialTypeOK
  <2>2. CASE flow \notin AccountFlows
    <3>1. flow \in Flows /\ Untouched
      BY <1>1, <2>2 DEF CredentialsInv, SocialInv
    <3>2. 0 \in Serials
      BY <3>1, AccountsAssumption DEF Serials
    <3>3. /\ sock \in [Conns -> {"new", "open", "closed"}]
          /\ who \in [Conns -> [u : Names \cup {None}, id : {0}]]
          /\ clients \in [Names -> Conns \cup {None}]
          /\ \A c \in Conns : at[c].u \in Names \cup {None} /\ at[c].id = 0
          /\ edges \in [Pairs -> {"none", "pending", "accepted"}]
          /\ rooms \in [Rooms -> Names \cup {None}] /\ members \subseteq Rooms \X Names
          /\ \A c \in Conns : told[c] \subseteq Facts
          /\ greeted \subseteq Conns /\ befriended \subseteq Pairs /\ crossed \subseteq Pairs
      <4>1. CASE Sound
        BY <4>1 DEF Sound, SocialTyped, AtSet
      <4>2. CASE Quiet
        BY <2>2, <4>2 DEF Quiet, Idle, Nobody
      <4> QED
        BY <1>1, <4>1, <4>2 DEF SocialInv
    <3>4. users \in [Names -> [id : Serials, verified : BOOLEAN, code : Serials,
                              phone : Phones \cup {None}, phoneOK : BOOLEAN,
                              secret : Serials, totpOn : BOOLEAN]]
      BY <3>1, <3>2 DEF Untouched, NoRow
    <3>5. AccountsTypeOK
      BY <3>1, <3>2, <3>3, <3>4 DEF AccountsTypeOK, Untouched
    <3> QED
      BY <3>3, <3>5 DEF SocialTypeOK, Facts
  <2> QED
    BY <2>1, <2>2
<1> QED
  BY <1>1, SocialInvariant, CredentialsHold, PTL
===============================================================================
