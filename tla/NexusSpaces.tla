------------------------------ MODULE NexusSpaces ------------------------------
(***************************************************************************)
(* One space (server) of the relay and the web clients that show it:       *)
(* membership, channels, channel messages and their history in             *)
(* nexus_server/main.go, and what web/src/Spaces.tsx does with the frames  *)
(* it gets.                                                                *)
(*                                                                         *)
(* Every user has one connection: a handler goroutine on the relay that    *)
(* takes requests from outbox in order, and an inbox of frames on their    *)
(* way to the browser.  Handlers of different users interleave between     *)
(* their database statements and the fan-out, which holds the registry's   *)
(* read lock.  React runs the effects of a state change before the next    *)
(* frame is handled.                                                       *)
(***************************************************************************)
EXTENDS Integers, Sequences, FiniteSets, SequencesExt

CONSTANTS
    Users,        \* users of the space, connected throughout
    Owner,        \* the one that created it
    Channels0,    \* the channels it was created with
    NewChannels,  \* channels its owner may add
    Opened,       \* channels users open
    None,         \* no channel is open
    Limit,        \* messages in a page of history (50 in the code)
    MaxMsgs,      \* bound on the messages posted
    MaxOut        \* bound on the frames on their way to and from a client
                  \* whose user asks for more

ASSUME SpaceAssumption ==
    /\ Owner \in Users
    /\ None \notin Channels0 \cup NewChannels /\ Opened \subseteq Channels0 \cup NewChannels
    /\ Limit \in Nat \ {0} /\ MaxMsgs \in Nat /\ MaxOut \in Nat

VARIABLES
    role,      \* server_members: the role of each user, or "none"
    chans,     \* rows of channels
    msgs,      \* channel_messages: the row with id i is msgs[i]
    handler,   \* what the handler of each user is doing
    inbox,     \* frames on their way to each browser
    outbox,    \* requests on their way to the relay
    mounted,   \* is the Spaces view of each user on screen?
    active,    \* activeChannel
    log,       \* messagesByChannel: ids, in the order shown
    posted,    \* how many messages were posted
    excused    \* history: ids each user was not sent, was sent with the view
               \* off screen, discarded with the view, was sent during its
               \* own history query of the channel, or saw give way to a
               \* page of newer ones

relayVars  == <<role, chans, msgs>>
clientVars == <<mounted, active, log>>
vars == <<relayVars, handler, inbox, outbox, clientVars, posted, excused>>

Channels == Channels0 \cup NewChannels
Ids == 1..MaxMsgs
Idle == [at |-> "idle"]

(* Every id on its way, on screen or excused is the id of a row.           *)
Rows == DOMAIN msgs
Handlers ==
    [at : {"idle"}] \cup [at : {"stored"}, id : Rows]
    \cup [at : {"fanout"}, id : Rows, to : SUBSET Users]
    \cup [at : {"answer"}, ch : Channels, page : Seq(Rows)]
Frames ==
    [t : {"msg"}, ch : Channels, id : Rows] \cup [t : {"history"}, ch : Channels, page : Seq(Rows)]
Requests == [t : {"post", "history"}, ch : Channels]

TypeOK ==
    /\ role \in [Users -> {"none", "member", "owner"}]
    /\ chans \subseteq Channels
    /\ msgs \in Seq([ch : Channels, by : Users])
    /\ handler \in [Users -> Handlers]
    /\ inbox \in [Users -> Seq(Frames)]
    /\ outbox \in [Users -> Seq(Requests)]
    /\ mounted \subseteq Users
    /\ active \in [Users -> Channels \cup {None}]
    /\ log \in [Users -> [Channels -> Seq(Rows)]]
    /\ posted \in 0..MaxMsgs
    /\ excused \in [Users -> SUBSET Rows]

Init ==
    /\ role = [u \in Users |-> IF u = Owner THEN "owner" ELSE "none"]
    /\ chans = Channels0
    /\ msgs = <<>>
    /\ handler = [u \in Users |-> Idle]
    /\ inbox = [u \in Users |-> <<>>]
    /\ outbox = [u \in Users |-> <<>>]
    /\ mounted = {}
    /\ active = [u \in Users |-> None]
    /\ log = [u \in Users |-> [ch \in Channels |-> <<>>]]
    /\ posted = 0
    /\ excused = [u \in Users |-> {}]
------------------------------------------------------------------------------
(* channelHistory: ORDER BY id DESC LIMIT n, reversed; a positive cursor   *)
(* asks for smaller ids.                                                   *)
RowIdsUpTo(ch, before) ==  \* variant: id <= cursor
    {i \in DOMAIN msgs : msgs[i].ch = ch /\ (before > 0 => i <= before)}

RowIds(ch, before) ==
    {i \in DOMAIN msgs : msgs[i].ch = ch /\ (before > 0 => i < before)}

(* The ids of S in ascending order. *)
Ascending(S) ==
    CHOOSE s \in [1..Cardinality(S) -> S] : \A i, j \in DOMAIN s : i < j => s[i] < s[j]

Oldest(S) ==  \* variant: ORDER BY id
    {i \in S : Cardinality({j \in S : j < i}) < Limit}

Newest(S) == {i \in S : Cardinality({j \in S : j > i}) < Limit}

channelHistory(ch, before) == Ascending(Newest(RowIds(ch, before)))

Members == {u \in Users : role[u] # "none"}

(* The requests of the three operations below are handled as they are     *)
(* made: from a Spaces view on screen, by an idle handler.                 *)
Asks(u) == u \in mounted /\ handler[u] = Idle /\ outbox[u] = <<>>

(* server_join: INSERT OR IGNORE.  The answer opens the first channel; the *)
(* model lets the user open any.                                           *)
JoinReplaces(u) ==  \* variant: INSERT OR REPLACE
    /\ Asks(u)
    /\ role' = [role EXCEPT ![u] = "member"]
    /\ UNCHANGED <<chans, msgs, handler, inbox, outbox, clientVars, posted, excused>>

JoinNoRole(u) ==  \* variant: the role column is left NULL
    /\ Asks(u)
    /\ role' = [role EXCEPT ![u] = IF @ = "none" THEN "null" ELSE @]
    /\ UNCHANGED <<chans, msgs, handler, inbox, outbox, clientVars, posted, excused>>

Join(u) ==
    /\ Asks(u)
    /\ role' = [role EXCEPT ![u] = IF @ = "none" THEN "member" ELSE @]
    /\ UNCHANGED <<chans, msgs, handler, inbox, outbox, clientVars, posted, excused>>

(* server_leave: refused for the owner.  The browser closes the space but  *)
(* keeps its messages.                                                     *)
Leave(u) ==
    /\ Asks(u) /\ inbox[u] = <<>>
    /\ role[u] # "owner"
    /\ role' = [role EXCEPT ![u] = "none"]
    /\ active' = [active EXCEPT ![u] = None]
    /\ UNCHANGED <<chans, msgs, handler, inbox, outbox, mounted, log, posted, excused>>

(* channel_create: "admin only", and nothing makes a member an admin.      *)
CreateChannel(u, ch) ==
    /\ Asks(u)
    /\ role[u] = "owner"
    /\ ch \in NewChannels \ chans
    /\ chans' = chans \cup {ch}
    /\ UNCHANGED <<role, msgs, handler, inbox, outbox, clientVars, posted, excused>>
------------------------------------------------------------------------------
(* channel_msg.  A user's membership changes only in its own handler, so   *)
(* the test and the INSERT are one step.                                   *)
Takes(u, t) == handler[u] = Idle /\ outbox[u] # <<>> /\ Head(outbox[u]).t = t
TakeNext(u) == outbox' = [outbox EXCEPT ![u] = Tail(@)]

MsgInsert(u) ==
    /\ Takes(u, "post")
    /\ TakeNext(u)
    /\ \/ /\ u \in Members
          /\ msgs' = Append(msgs, [ch |-> Head(outbox[u]).ch, by |-> u])
          /\ handler' = [handler EXCEPT ![u] = [at |-> "stored", id |-> Len(msgs')]]
       \/ u \notin Members /\ UNCHANGED <<msgs, handler>>
    /\ UNCHANGED <<role, chans, inbox, clientVars, posted, excused>>

(* broadcastChannelMsg reads the members ...                               *)
MsgRecipients(u) ==
    /\ handler[u].at = "stored"
    /\ handler' = [handler EXCEPT ![u] =
                     [at |-> "fanout", id |-> handler[u].id, to |-> Members]]
    /\ UNCHANGED <<relayVars, inbox, outbox, clientVars, posted, excused>>

(* ... and sends to those connected, under the read lock.                  *)
Racing(v, ch) == handler[v].at = "answer" /\ handler[v].ch = ch
MsgFanout(u) ==
    LET id == handler[u].id
        to == handler[u].to
        frame == [t |-> "msg", ch |-> msgs[id].ch, id |-> id] IN
    /\ handler[u].at = "fanout"
    /\ inbox' = [v \in Users |-> IF v \in to THEN Append(inbox[v], frame) ELSE inbox[v]]
    /\ excused' = [v \in Users |->
                     IF v \notin to \/ Racing(v, frame.ch)
                     THEN excused[v] \cup {id} ELSE excused[v]]
    /\ handler' = [handler EXCEPT ![u] = Idle]
    /\ UNCHANGED <<relayVars, outbox, clientVars, posted>>

(* channel_history: the page is read ...                                   *)
HistoryQuery(u) ==
    LET ch == Head(outbox[u]).ch IN
    /\ Takes(u, "history")
    /\ TakeNext(u)
    /\ handler' = IF u \in Members
                  THEN [handler EXCEPT ![u] =
                          [at |-> "answer", ch |-> ch, page |-> channelHistory(ch, 0)]]
                  ELSE handler
    /\ UNCHANGED <<relayVars, inbox, clientVars, posted, excused>>

(* ... and sent.                                                           *)
HistoryAnswer(u) ==
    /\ handler[u].at = "answer"
    /\ inbox' = [inbox EXCEPT ![u] =
                   Append(@, [t |-> "history", ch |-> handler[u].ch, page |-> handler[u].page])]
    /\ handler' = [handler EXCEPT ![u] = Idle]
    /\ UNCHANGED <<relayVars, outbox, clientVars, posted, excused>>
------------------------------------------------------------------------------
Room(u) == Len(outbox[u]) + Len(inbox[u]) < MaxOut

(* The effect on [activeChannel, messagesByChannel]: history is asked for  *)
(* while the open channel has no entry.                                    *)
Effect(u) ==
    outbox' = IF active'[u] # None /\ log'[u][active'[u]] = <<>>
              THEN [outbox EXCEPT ![u] = Append(@, [t |-> "history", ch |-> active'[u]])]
              ELSE outbox

Mount(u) ==
    /\ u \notin mounted
    /\ mounted' = mounted \cup {u}
    /\ UNCHANGED <<relayVars, handler, inbox, outbox, active, log, posted, excused>>

(* Leaving the Spaces view discards its state and its subscription.        *)
Unmount(u) ==
    /\ u \in mounted
    /\ mounted' = mounted \ {u}
    /\ active' = [active EXCEPT ![u] = None]
    /\ log' = [log EXCEPT ![u] = [ch \in Channels |-> <<>>]]
    /\ excused' = [excused EXCEPT ![u] = @ \cup UNION {ToSet(log[u][ch]) : ch \in Channels}]
    /\ UNCHANGED <<relayVars, handler, inbox, outbox, posted>>

OpenChannel(u, ch) ==
    /\ u \in mounted \cap Members
    /\ ch \in chans \cap Opened /\ active[u] # ch
    /\ Room(u)
    /\ active' = [active EXCEPT ![u] = ch]
    /\ UNCHANGED log
    /\ Effect(u)
    /\ UNCHANGED <<relayVars, handler, inbox, mounted, posted, excused>>

Post(u) ==
    /\ active[u] # None
    /\ posted < MaxMsgs /\ Room(u)
    /\ posted' = posted + 1
    /\ outbox' = [outbox EXCEPT ![u] = Append(@, [t |-> "post", ch |-> active[u]])]
    /\ UNCHANGED <<relayVars, handler, inbox, clientVars, excused>>

(* channel_msg_in appends unless the id is there; channel_history_result   *)
(* replaces the list (an empty page is omitted from the frame and changes  *)
(* nothing).                                                               *)
ShownAlways(shown, f) ==  \* variant: no test for the id
    IF f.t = "msg" THEN Append(shown, f.id) ELSE f.page

Shown(shown, f) ==
    IF f.t = "msg"
    THEN IF Contains(shown, f.id) THEN shown ELSE Append(shown, f.id)
    ELSE IF f.page = <<>> THEN shown ELSE f.page

(* What was shown and is older than the page that takes its place.         *)
LeftBehind(shown, f) ==
    IF f.t = "history" /\ f.page # <<>> THEN {i \in ToSet(shown) : i < f.page[1]} ELSE {}

Receive(u) ==
    LET f == Head(inbox[u]) IN
    /\ inbox[u] # <<>>
    /\ inbox' = [inbox EXCEPT ![u] = Tail(@)]
    /\ UNCHANGED active
    /\ \/ /\ u \notin mounted
          /\ excused' = IF f.t = "msg" THEN [excused EXCEPT ![u] = @ \cup {f.id}] ELSE excused
          /\ UNCHANGED <<log, outbox>>
       \/ /\ u \in mounted
          /\ log' = [log EXCEPT ![u][f.ch] = Shown(@, f)]
          /\ IF log' = log THEN UNCHANGED outbox ELSE Effect(u)
          /\ excused' = [excused EXCEPT ![u] = @ \cup LeftBehind(log[u][f.ch], f)]
    /\ UNCHANGED <<relayVars, handler, mounted, posted>>
------------------------------------------------------------------------------
Relay(u) ==
    \/ MsgInsert(u) \/ MsgRecipients(u) \/ MsgFanout(u)
    \/ HistoryQuery(u) \/ HistoryAnswer(u)

Client(u) ==
    \/ Join(u) \/ Leave(u) \/ Mount(u) \/ Unmount(u) \/ Post(u) \/ Receive(u)
    \/ \E ch \in Channels : CreateChannel(u, ch) \/ OpenChannel(u, ch)

Next == \E u \in Users : Relay(u) \/ Client(u)

Spec == Init /\ [][Next]_vars
------------------------------------------------------------------------------
(* The list on screen has no message twice, although the same message can  *)
(* come in a page of history and live.                                     *)
ShownOnce == \A u \in Users, ch \in Channels : IsInjective(log[u][ch])

(* The space keeps its owner, and nobody else becomes one: joining again   *)
(* with the invite code changes no role, and owners cannot leave.          *)
OwnerStays == \A u \in Users : role[u] = "owner" <=> u = Owner

(* Following the cursor from the newest page back, a client gets every     *)
(* message of the channel once and in order.                               *)
Walk(ch) ==
    LET back[n \in 0..Len(msgs)] ==
            LET page == channelHistory(ch, n) IN
            IF page = <<>> THEN <<>>
            ELSE IF page[1] = n THEN page  \* the cursor makes no progress
            ELSE back[page[1]] \o page
    IN back[0]
PagesCover == \A ch \in chans : Walk(ch) = Ascending(RowIds(ch, 0))

(* A browser at rest shows every message of a channel, however its live    *)
(* messages and its pages of history crossed, except what was sent to      *)
(* others only, came while the view was off screen or before it was left,  *)
(* was sent during the user's own history query, or is older than a page   *)
(* that took its place.                                                    *)
Settled(u) == inbox[u] = <<>> /\ \A v \in Users : handler[v] = Idle
NoGapUnlessRaced ==
    \A u \in Users, ch \in Channels :
        Settled(u) => RowIds(ch, 0) \ excused[u] \subseteq ToSet(log[u][ch])
------------------------------------------------------------------------------
(* A statement of the repository that does not hold: the comment in        *)
(* Spaces.tsx says "Load channels + history when active server/channel     *)
(* changes."  So messages of the newest page that are older than one that  *)
(* is shown should be shown too.                                           *)
HistoryIsLoaded ==
    \A u \in Users :
        LET page  == ToSet(channelHistory(active[u], 0))
            shown == ToSet(log[u][active[u]]) IN
        (Settled(u) /\ outbox[u] = <<>> /\ active[u] # None) =>
            \A i \in page, j \in shown : i < j => i \in shown
=============================================================================
