---------------------------- MODULE DesktopContacts ----------------------------
(***************************************************************************)
(* The contact lists of two desktops and the friendship the relay keeps    *)
(* for them (native_client/main.go: the friend cases of                    *)
(* HandleIncomingMessage, showFriendRequestDialog, showAddContactDialog,   *)
(* removeContact; the relay's side is NexusSocial, one row here).  A       *)
(* desktop changes its own list when the user clicks or a notification     *)
(* arrives and never compares it with the relay's.                         *)
(***************************************************************************)
EXTENDS Integers, Sequences

CONSTANTS Pair,      \* the two users
          NoFriends, Friends,   \* the relay's row: none, accepted, or who asked
          MaxAsks, MaxDrops,    \* bounds on requests and disconnects
          MaxDialogs            \* bound on the request dialogs of a desktop

ASSUME ContactsAssumption ==
    /\ \E a, b \in Pair : a # b /\ Pair = {a, b}
    /\ NoFriends \notin Pair /\ Friends \notin Pair /\ NoFriends # Friends
    /\ MaxAsks \in Nat /\ MaxDrops \in Nat /\ MaxDialogs \in Nat

VARIABLES
    row,       \* the relay's row for the two
    listed,    \* in the Contacts table of a desktop
    here,      \* connected
    toRelay, toUser,   \* messages on their way, in order
    dialogs,   \* open request dialogs
    asks, drops,
    missed,    \* history: for whom or by whom a message was lost, or whose
               \* own change crossed a notification
    unbacked   \* history: an acceptance found no pending row

mail == <<toRelay, toUser>>
contactsVars == <<row, listed, here, mail, dialogs, asks, drops, missed, unbacked>>

peer(c) == CHOOSE d \in Pair : d # c

ContactsInit ==
    /\ row = NoFriends
    /\ listed = [c \in Pair |-> FALSE] /\ here = [c \in Pair |-> FALSE]
    /\ toRelay = [c \in Pair |-> <<>>] /\ toUser = [c \in Pair |-> <<>>]
    /\ dialogs = [c \in Pair |-> 0]
    /\ asks = 0 /\ drops = 0 /\ missed = {} /\ unbacked = FALSE

(***************************************************************************)
(* The desktop.                                                            *)
(***************************************************************************)

(* SendMessage: without a connection the mesh delivers or nobody does, and *)
(* only a request means something to the other desktop.                    *)
Send(c, type) ==
    \/ /\ here[c]
       /\ toRelay' = [toRelay EXCEPT ![c] = Append(@, type)]
       /\ UNCHANGED <<toUser, missed>>
    \/ /\ ~ here[c]
       /\ missed' = missed \cup {c}
       /\ \/ UNCHANGED toUser
          \/ /\ type = "friend_request"
             /\ toUser' = [toUser EXCEPT ![peer(c)] = Append(@, type)]
       /\ UNCHANGED toRelay

(* showAddContactDialog.                                                   *)
AddContact(c) ==
    /\ asks < MaxAsks /\ asks' = asks + 1
    /\ Send(c, "friend_request")
    /\ UNCHANGED <<row, listed, here, dialogs, drops, unbacked>>

(* showFriendRequestDialog, answered: an accepted request lists the other  *)
(* whatever becomes of the message.                                        *)
AnswerRequest(c, accept) ==
    /\ dialogs[c] > 0
    /\ dialogs' = [dialogs EXCEPT ![c] = @ - 1]
    /\ Send(c, IF accept THEN "friend_accept" ELSE "friend_reject")
    /\ listed' = [listed EXCEPT ![c] = @ \/ accept]
    /\ UNCHANGED <<row, here, asks, drops, unbacked>>

removeContact(c) ==
    /\ listed[c]
    /\ listed' = [listed EXCEPT ![c] = FALSE]
    /\ Send(c, "friend_remove")
    /\ UNCHANGED <<row, here, dialogs, asks, drops, unbacked>>

\* The user has changed the list and the relay does not know yet.
Crossed(c) == \E i \in DOMAIN toRelay[c] : toRelay[c][i] \in {"friend_accept", "friend_remove"}
Cross(c) == missed' = IF Crossed(c) THEN missed \cup {c} ELSE missed

HandleKeeping(c) ==  \* variant: friend_removed leaves the row in Contacts
    /\ toUser[c] # <<>>
    /\ toUser' = [toUser EXCEPT ![c] = Tail(@)]
    /\ dialogs' = [dialogs EXCEPT ![c] = IF Head(toUser[c]) = "friend_request" THEN @ + 1 ELSE @]
    /\ dialogs'[c] <= MaxDialogs
    /\ listed' = [listed EXCEPT ![c] = @ \/ Head(toUser[c]) = "friend_accepted"]
    /\ Cross(c)
    /\ UNCHANGED <<row, here, toRelay, asks, drops, unbacked>>

(* The row goes, and the contact list is read again.                       *)
FriendRemoved(c) ==
    /\ listed' = [listed EXCEPT ![c] = FALSE]
    /\ Cross(c)

(* HandleIncomingMessage.                                                  *)
Handle(c) ==
    /\ toUser[c] # <<>>
    /\ toUser' = [toUser EXCEPT ![c] = Tail(@)]
    /\ \/ /\ Head(toUser[c]) = "friend_request"    \* and pending_requests
          /\ dialogs[c] < MaxDialogs
          /\ dialogs' = [dialogs EXCEPT ![c] = @ + 1]
          /\ UNCHANGED <<listed, missed>>
       \/ /\ Head(toUser[c]) = "friend_accepted"
          /\ listed' = [listed EXCEPT ![c] = TRUE]
          /\ Cross(c)
          /\ UNCHANGED dialogs
       \/ /\ Head(toUser[c]) = "friend_removed"
          /\ FriendRemoved(c)
          /\ UNCHANGED dialogs
    /\ UNCHANGED <<row, here, toRelay, asks, drops, unbacked>>

(***************************************************************************)
(* The relay and the connection.                                           *)
(***************************************************************************)

(* A password login is told of a pending request, a token login is not.    *)
(* Nothing tells either of friendships made or ended meanwhile:            *)
(* friend_status only updates contacts that are listed.                    *)
SignInHere(c) ==
    /\ ~ here[c]
    /\ here' = [here EXCEPT ![c] = TRUE]
    /\ \/ UNCHANGED toUser
       \/ /\ row = peer(c)
          /\ toUser' = [toUser EXCEPT ![c] = Append(@, "friend_request")]
    /\ UNCHANGED <<row, listed, toRelay, dialogs, asks, drops, missed, unbacked>>

(* The connection goes with what was on its way; a quit takes the dialogs. *)
DropHere(c) ==
    /\ here[c] /\ drops < MaxDrops /\ drops' = drops + 1
    /\ here' = [here EXCEPT ![c] = FALSE]
    /\ toRelay' = [toRelay EXCEPT ![c] = <<>>]
    /\ toUser' = [toUser EXCEPT ![c] = <<>>]
    /\ missed' = IF toRelay[c] = <<>> /\ toUser[c] = <<>> THEN missed ELSE missed \cup {c}
    /\ dialogs' \in {dialogs, [dialogs EXCEPT ![c] = 0]}
    /\ UNCHANGED <<row, listed, asks, unbacked>>

\* A notification for the other user, lost unless it is connected.
Notify(c, type) ==
    LET d == peer(c)
        changes == {"friend_accepted", "friend_removed"}
        loses == {x \in {d} : type \in changes /\ ~ here[d]}
        crosses == {x \in {c} : type \in changes /\ \E i \in DOMAIN toUser[c] : toUser[c][i] \in changes}
    IN /\ toUser' = IF here[d] THEN [toUser EXCEPT ![d] = Append(@, type)] ELSE toUser
       /\ missed' = missed \cup loses \cup crosses

(* The relay's four handlers.  It notifies whether a row changed or not.   *)
RelayHandles(c) ==
    LET d == peer(c) type == Head(toRelay[c]) IN
    /\ toRelay[c] # <<>>
    /\ toRelay' = [toRelay EXCEPT ![c] = Tail(@)]
    /\ \/ /\ type = "friend_request"
          /\ row' = IF row = NoFriends THEN c ELSE row
          /\ Notify(c, "friend_request")
          /\ UNCHANGED unbacked
       \/ /\ type = "friend_accept"
          /\ row' = IF row = d THEN Friends ELSE row
          /\ unbacked' = (unbacked \/ row # d)
          /\ Notify(c, "friend_accepted")
       \/ /\ type = "friend_reject"
          /\ row' = IF row = d THEN NoFriends ELSE row
          /\ UNCHANGED <<toUser, missed, unbacked>>
       \/ /\ type = "friend_remove"
          /\ row' = NoFriends
          /\ Notify(c, "friend_removed")
          /\ UNCHANGED unbacked
    /\ UNCHANGED <<listed, here, dialogs, asks, drops>>

ContactsNext ==
    \E c \in Pair :
       \/ AddContact(c) \/ removeContact(c) \/ Handle(c)
       \/ \E accept \in BOOLEAN : AnswerRequest(c, accept)
       \/ SignInHere(c) \/ DropHere(c) \/ RelayHandles(c)

ContactsSpec == ContactsInit /\ [][ContactsNext]_contactsVars

(***************************************************************************)
(* Properties.                                                             *)
(***************************************************************************)
ContactsTypeOK ==
    /\ row \in Pair \cup {NoFriends, Friends}
    /\ listed \in [Pair -> BOOLEAN] /\ here \in [Pair -> BOOLEAN]
    /\ \A c \in Pair : dialogs[c] \in 0..MaxDialogs
    /\ missed \subseteq Pair /\ unbacked \in BOOLEAN

(* A desktop lists the other user exactly if the relay has them as friends *)
(* once everything sent has arrived, unless a message of its own or for it *)
(* was lost, or somebody accepted a request that was no longer pending.    *)
ContactsFollow ==
    \A c \in Pair :
       /\ \A d \in Pair : toRelay[d] = <<>> /\ toUser[d] = <<>>
       /\ c \notin missed /\ ~ unbacked
       => listed[c] = (row = Friends)
=============================================================================
