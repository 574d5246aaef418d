------------------------------ MODULE DesktopKeys ------------------------------
(***************************************************************************)
(* Pairwise encryption between two desktops (native_client/main.go and     *)
(* internal/crypto/e2ee.go): keys are made at every login, handed over on  *)
(* request, pinned at first sight in the database and used from a cache in *)
(* memory.  The relay between them forwards what both ends being online    *)
(* allows, and queues chat messages for an absent one; it drops the key of *)
(* a presence that names no recipient.  A key is a serial number; a text   *)
(* encrypted by one key for another opens with that pair only.             *)
(***************************************************************************)
EXTENDS Integers, Sequences

CONSTANTS Desktops,    \* the two desktops
          MaxMade,     \* bound on the keys made
          MaxSends,    \* bound on the chat messages sent
          MaxExits,    \* bound on the quits and crashes
          MaxWaiting   \* bound on the messages waiting for a desktop

ASSUME KeysAssumption ==
    /\ \E a, b \in Desktops : a # b /\ Desktops = {a, b}
    /\ MaxMade \in Nat /\ MaxSends \in Nat /\ MaxExits \in Nat /\ MaxWaiting \in Nat

Nothing == 0           \* no key

VARIABLES
    PrivKey,     \* key pair in memory, or Nothing
    PeerKeys,    \* cached key of the other desktop, or Nothing
    KeyPins,     \* its pinned key in the database, or Nothing
    pinsKept,    \* the pins in the last encrypted copy of the database
    online,      \* logged in at the relay
    rekeying,    \* connect has its answer and is about to load the keys
    inbox,       \* what the read loop will see
    queue,       \* the relay's offline queue
    keysMade,    \* keys made so far, by whom: a sequence
    sends, exits,
    unread       \* history: how encrypted messages shown as a placeholder came

pinVars == <<PeerKeys, KeyPins, pinsKept>>
netVars == <<online, inbox, queue>>
keysVars == <<PrivKey, pinVars, netVars, rekeying, keysMade, sends, exits, unread>>

other(c) == CHOOSE d \in Desktops : d # c

KeysInit ==
    /\ PrivKey = [c \in Desktops |-> Nothing]
    /\ PeerKeys = [c \in Desktops |-> Nothing]
    /\ KeyPins = [c \in Desktops |-> Nothing]
    /\ pinsKept = [c \in Desktops |-> Nothing]
    /\ online = [c \in Desktops |-> FALSE]
    /\ rekeying = [c \in Desktops |-> FALSE]
    /\ inbox = [c \in Desktops |-> <<>>]
    /\ queue = [c \in Desktops |-> <<>>]
    /\ keysMade = <<>>
    /\ sends = 0 /\ exits = 0
    /\ unread = [c \in Desktops |-> {}]

Chat(by, to) == [type |-> "msg", by |-> by, to |-> to, queued |-> FALSE]
Request == [type |-> "key_request", by |-> Nothing, to |-> Nothing, queued |-> FALSE]
Presence(k) == [type |-> "presence", by |-> k, to |-> Nothing, queued |-> FALSE]

(***************************************************************************)
(* Login and keys.                                                         *)
(***************************************************************************)

(* The relay's answer, and with it everything its queue holds.             *)
Login(c) ==
    /\ ~ online[c] /\ ~ rekeying[c]
    /\ Len(keysMade) + (IF rekeying[other(c)] THEN 1 ELSE 0) < MaxMade
    /\ online' = [online EXCEPT ![c] = TRUE]
    /\ rekeying' = [rekeying EXCEPT ![c] = TRUE]
    /\ inbox' = [inbox EXCEPT ![c] =
                   @ \o [i \in DOMAIN queue[c] |-> [queue[c][i] EXCEPT !.queued = TRUE]]]
    /\ queue' = [queue EXCEPT ![c] = <<>>]
    /\ UNCHANGED <<PrivKey, pinVars, keysMade, sends, exits, unread>>

(* connect, once it has the answer: no Accounts row is ever inserted, so   *)
(* the pair is generated anew.  The presence that announces it names no    *)
(* recipient, and the relay forwards no key with such a one.               *)
LoadKeys(c) ==
    /\ rekeying[c]
    /\ rekeying' = [rekeying EXCEPT ![c] = FALSE]
    /\ keysMade' = Append(keysMade, c)
    /\ PrivKey' = [PrivKey EXCEPT ![c] = Len(keysMade')]
    /\ UNCHANGED <<pinVars, netVars, sends, exits, unread>>

(* The connection is lost with what was on its way.                        *)
Disconnect(c) ==
    /\ online[c]
    /\ online' = [online EXCEPT ![c] = FALSE]
    /\ inbox' = [inbox EXCEPT ![c] = <<>>]
    /\ UNCHANGED <<PrivKey, pinVars, queue, rekeying, keysMade, sends, exits, unread>>

(***************************************************************************)
(* SendMessage: encryptForPeer with the cached key; without one the text   *)
(* goes out as it is and the key is asked for.  The relay queues a text    *)
(* for an absent user and drops a request; without the relay, the mesh     *)
(* delivers to a running desktop or nobody.                                *)
(***************************************************************************)
encryptForSelf(c) ==  \* variant: sealed for the sender's own public key
    IF PrivKey[c] # Nothing /\ PeerKeys[c] # Nothing THEN Chat(PrivKey[c], PrivKey[c])
    ELSE Chat(Nothing, Nothing)

encryptForPeer(c) ==
    IF PrivKey[c] # Nothing /\ PeerKeys[c] # Nothing THEN Chat(PrivKey[c], PeerKeys[c])
    ELSE Chat(Nothing, Nothing)

Asks(c) == PrivKey[c] # Nothing /\ PeerKeys[c] = Nothing

SendMessage(c) ==
    LET d == other(c)
        out == <<encryptForPeer(c)>> \o (IF Asks(c) THEN <<Request>> ELSE <<>>)
    IN  /\ sends < MaxSends
        /\ sends' = sends + 1
        /\ Len(inbox[d]) + Len(queue[d]) < MaxWaiting
        /\ \/ /\ online[c] /\ online[d]
              /\ inbox' = [inbox EXCEPT ![d] = @ \o out]
              /\ UNCHANGED queue
           \/ /\ online[c] /\ ~ online[d]
              /\ queue' = [queue EXCEPT ![d] = Append(@, out[1])]
              /\ UNCHANGED inbox
           \/ /\ ~ online[c]
              /\ inbox' \in {inbox, [inbox EXCEPT ![d] = @ \o out]}
              /\ UNCHANGED queue
        /\ UNCHANGED <<PrivKey, pinVars, online, rekeying, keysMade, exits, unread>>

(***************************************************************************)
(* HandleIncomingMessage.                                                  *)
(***************************************************************************)

Head1(c) == inbox[c] # <<>> /\ inbox' = [inbox EXCEPT ![c] = Tail(@)]

(* A sealed text opens with the pair it was sealed with, and no other.     *)
Decrypt(m, senderPub, recipientPriv) == m.by = senderPub /\ m.to = recipientPriv

(* decryptFromPeer, by the cached key and the pair in memory.              *)
decryptFromPeer(c, m) == m.by = Nothing \/ Decrypt(m, PeerKeys[c], PrivKey[c])

ReceiveMsg(c) ==
    /\ inbox[c] # <<>> /\ Head(inbox[c]).type = "msg"
    /\ Head1(c)
    /\ LET m == Head(inbox[c]) IN
       unread' = IF decryptFromPeer(c, m) THEN unread
                 ELSE [unread EXCEPT ![c] = @ \cup {IF m.queued THEN "queued" ELSE
                                                IF PeerKeys[c] = Nothing THEN "early" ELSE "direct"}]
    /\ UNCHANGED <<PrivKey, pinVars, online, queue, rekeying, keysMade, sends, exits>>

(* "key_request": a presence with the key, forwarded if both are online.   *)
ReceiveRequest(c) ==
    /\ inbox[c] # <<>> /\ Head(inbox[c]).type = "key_request"
    /\ LET d == other(c)
           reply == IF PrivKey[c] # Nothing /\ online[c] /\ online[d]
                    THEN <<Presence(PrivKey[c])>> ELSE <<>>
       IN inbox' = [inbox EXCEPT ![c] = Tail(@), ![d] = @ \o reply]
    /\ UNCHANGED <<PrivKey, pinVars, online, queue, rekeying, keysMade, sends, exits, unread>>

(* acceptPeerKey: the first key seen is pinned, unless its INSERT fails;   *)
(* later ones must be the pinned one.                                      *)
acceptAnyKey(c, k) ==  \* variant: a key that is not the pinned one is used
    \/ /\ KeyPins[c] = Nothing
       /\ KeyPins' = [KeyPins EXCEPT ![c] = k]
       /\ PeerKeys' = [PeerKeys EXCEPT ![c] = k]
    \/ /\ KeyPins[c] # Nothing
       /\ PeerKeys' = [PeerKeys EXCEPT ![c] = k]
       /\ UNCHANGED KeyPins

acceptPeerKey(c, k) ==
    \/ /\ KeyPins[c] = Nothing
       /\ KeyPins' = [KeyPins EXCEPT ![c] = k]
       /\ PeerKeys' = [PeerKeys EXCEPT ![c] = k]
    \/ /\ KeyPins[c] = k
       /\ PeerKeys' = [PeerKeys EXCEPT ![c] = k]
       /\ UNCHANGED KeyPins
    \/ /\ KeyPins[c] \in {Nothing} \cup (DOMAIN keysMade \ {k})
       /\ UNCHANGED <<KeyPins, PeerKeys>>

ReceivePresence(c) ==
    /\ inbox[c] # <<>> /\ Head(inbox[c]).type = "presence"
    /\ Head1(c)
    /\ acceptPeerKey(c, Head(inbox[c]).by)
    /\ UNCHANGED <<PrivKey, pinsKept, online, queue, rekeying, keysMade, sends, exits, unread>>

(***************************************************************************)
(* The process ends and is started again: the pair and the cache are gone, *)
(* the pins are those of the database the next run opens.                  *)
(***************************************************************************)
Exit(c) ==
    /\ exits < MaxExits /\ exits' = exits + 1
    /\ PrivKey' = [PrivKey EXCEPT ![c] = Nothing]
    /\ PeerKeys' = [PeerKeys EXCEPT ![c] = Nothing]
    /\ online' = [online EXCEPT ![c] = FALSE]
    /\ rekeying' = [rekeying EXCEPT ![c] = FALSE]
    /\ inbox' = [inbox EXCEPT ![c] = <<>>]
    /\ UNCHANGED <<queue, keysMade, sends, unread>>

QuitApp(c) == Exit(c) /\ pinsKept' = [pinsKept EXCEPT ![c] = KeyPins[c]] /\ UNCHANGED KeyPins
CrashApp(c) == Exit(c) /\ KeyPins' = [KeyPins EXCEPT ![c] = pinsKept[c]] /\ UNCHANGED pinsKept

KeysNext ==
    \E c \in Desktops :
       \/ Login(c) \/ LoadKeys(c) \/ Disconnect(c) \/ SendMessage(c)
       \/ ReceiveMsg(c) \/ ReceiveRequest(c) \/ ReceivePresence(c)
       \/ QuitApp(c) \/ CrashApp(c)

KeysSpec == KeysInit /\ [][KeysNext]_keysVars

(***************************************************************************)
(* Properties.                                                             *)
(***************************************************************************)

Keys == {Nothing} \cup DOMAIN keysMade

KeysTypeOK ==
    /\ PrivKey \in [Desktops -> Keys] /\ PeerKeys \in [Desktops -> Keys]
    /\ KeyPins \in [Desktops -> Keys] /\ pinsKept \in [Desktops -> Keys]
    /\ online \in [Desktops -> BOOLEAN] /\ rekeying \in [Desktops -> BOOLEAN]
    /\ keysMade \in Seq(Desktops)
    /\ \A c \in Desktops : \A i \in DOMAIN inbox[c] : inbox[c][i].by \in Keys
    /\ \A c \in Desktops : unread[c] \subseteq {"queued", "early", "direct"}

(* The key a desktop encrypts with is the pinned one, and one the other    *)
(* desktop made itself, across restarts, crashes and reordered handovers.  *)
CacheIsPinned ==
    \A c \in Desktops :
       /\ PeerKeys[c] # Nothing => PeerKeys[c] = KeyPins[c]
       /\ KeyPins[c] # Nothing => keysMade[KeyPins[c]] = other(c)

MadeBy(c) == {k \in DOMAIN keysMade : keysMade[k] = c}

(* A desktop that holds the other's key reads whatever comes to it while    *)
(* both are online, as long as each of them has made one pair and neither  *)
(* was started again.                                                      *)
Readable ==
    \A c \in Desktops : "direct" \in unread[c] =>
       \/ exits > 0
       \/ \E d \in Desktops : \E j, k \in MadeBy(d) : j # k
=================================================================================
