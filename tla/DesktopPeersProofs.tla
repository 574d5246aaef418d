-------------------------- MODULE DesktopPeersProofs --------------------------
(***************************************************************************)
(* Proofs about what a desktop keeps of its peers: the keys it has pinned, *)
(* the contacts it lists and the files it receives.                        *)
(***************************************************************************)
EXTENDS DesktopKeys, DesktopContacts, DesktopCalls, SequenceTheorems, TLAPS

(***************************************************************************)
(* The keys, for any number of keys, messages and restarts: a desktop      *)
(* encrypts with the key it has pinned, and only keys the other desktop    *)
(* made are pinned.                                                        *)
(***************************************************************************)
Msg == [type : {"msg", "key_request", "presence"}, by : Nat, to : Nat, queued : BOOLEAN]

KeysTyped ==
    /\ PrivKey \in [Desktops -> Nat] /\ PeerKeys \in [Desktops -> Nat]
    /\ KeyPins \in [Desktops -> Nat] /\ pinsKept \in [Desktops -> Nat]
    /\ keysMade \in Seq(Desktops)
    /\ inbox \in [Desktops -> Seq(Msg)] /\ queue \in [Desktops -> Seq(Msg)]

(* A message a desktop may find: if it hands a key over, the key is the    *)
(* other desktop's; if it is a sealed text, it is by a key of the other's  *)
(* and for one of its own.                                                 *)
Good(m, c) ==
    /\ m.type = "presence" => m.by \in MadeBy(other(c))
    /\ m.type = "msg" /\ m.by # Nothing => m.by \in MadeBy(other(c)) /\ m.to \in MadeBy(c)
    /\ m.type = "key_request" => m.by = Nothing

Fits(s, c) == \A i \in DOMAIN s : Good(s[i], c)

(* What the cache and the pins rest on: a desktop has a pair it made       *)
(* itself, what is on its way are keys their owners made, nothing but      *)
(* chats is queued, and the pins of the last copy are good ones too.       *)
OwnPair == \A c \in Desktops : PrivKey[c] # Nothing => PrivKey[c] \in MadeBy(c)
HandedOver == \A c \in Desktops : Fits(inbox[c], c)
OnlyChatsQueued ==
    \A c \in Desktops : Fits(queue[c], c) /\ \A i \in DOMAIN queue[c] : queue[c][i].type = "msg"
PinsAreTheirs ==
    \A c \in Desktops :
       /\ PeerKeys[c] # Nothing => PeerKeys[c] = KeyPins[c]
       /\ KeyPins[c] # Nothing => KeyPins[c] \in MadeBy(other(c))
       /\ pinsKept[c] # Nothing => pinsKept[c] \in MadeBy(other(c))

KeysInv == KeysTyped /\ OwnPair /\ HandedOver /\ OnlyChatsQueued /\ PinsAreTheirs

(***************************************************************************)
(* Lemmas.                                                                 *)
(***************************************************************************)

(* The other desktop is another one, whose other one is the first. *)
LEMMA TheOther ==
    ASSUME NEW c \in Desktops
    PROVE  other(c) \in Desktops /\ other(c) # c /\ other(other(c)) = c
<1>1. PICK a, b \in Desktops : a # b /\ Desktops = {a, b}
  BY KeysAssumption
<1>2. \A x \in Desktops : \E d \in Desktops : d # x
  BY <1>1
<1>3. \A x \in Desktops : other(x) \in Desktops /\ other(x) # x
  BY <1>2 DEF other
<1> QED
  BY <1>1, <1>3

(* The frames the program makes. *)
LEMMA Frames ==
    ASSUME NEW j \in Nat, NEW k \in Nat
    PROVE  /\ Chat(j, k) \in Msg /\ Chat(j, k).type = "msg"
           /\ Request \in Msg /\ Request.type = "key_request"
           /\ Presence(k) \in Msg /\ Presence(k).type = "presence" /\ Presence(k).by = k
BY DEF Chat, Request, Presence, Msg, Nothing

(* What is added to an inbox that fits, and fits itself, leaves one that does. *)
LEMMA FitsConcat ==
    ASSUME NEW c \in Desktops, NEW s \in Seq(Msg), NEW t \in Seq(Msg), Fits(s, c), Fits(t, c)
    PROVE  s \o t \in Seq(Msg) /\ Fits(s \o t, c)
<1>1. s \o t \in Seq(Msg) /\ Len(s \o t) = Len(s) + Len(t)
  BY SMT
<1>2. SUFFICES ASSUME NEW i \in 1..(Len(s) + Len(t))
               PROVE  Good((s \o t)[i], c)
  BY <1>1, SMT DEF Fits
<1>3. CASE i <= Len(s)
  <2>1. (s \o t)[i] = s[i] /\ i \in DOMAIN s
    BY <1>3, SMT
  <2> QED
    BY <2>1 DEF Fits
<1>4. CASE i > Len(s)
  <2>1. (s \o t)[i] = t[i - Len(s)] /\ i - Len(s) \in DOMAIN t
    BY <1>4, SMT
  <2> QED
    BY <2>1 DEF Fits
<1> QED
  BY <1>3, <1>4, SMT

(* The rest of an inbox that fits does. *)
LEMMA FitsTail ==
    ASSUME NEW c \in Desktops, NEW s \in Seq(Msg), s # <<>>, Fits(s, c)
    PROVE  /\ Tail(s) \in Seq(Msg) /\ Fits(Tail(s), c)
           /\ Head(s) \in Msg /\ Good(Head(s), c)
<1>1. /\ Tail(s) \in Seq(Msg) /\ Len(Tail(s)) = Len(s) - 1
      /\ \A i \in 1..(Len(s) - 1) : Tail(s)[i] = s[i + 1]
      /\ Head(s) = s[1] /\ Len(s) \in Nat \ {0} /\ DOMAIN s = 1..Len(s)
      /\ DOMAIN Tail(s) = 1..(Len(s) - 1)
  BY SMT
<1>2. \A i \in 1..(Len(s) - 1) : i + 1 \in DOMAIN s
  BY <1>1, SMT
<1>3. Fits(Tail(s), c)
  BY <1>1, <1>2 DEF Fits
<1>4. 1 \in DOMAIN s
  BY <1>1, SMT
<1>5. Head(s) \in Msg
  BY <1>1, <1>4, SMT
<1> QED
  BY <1>1, <1>3, <1>4, <1>5 DEF Fits

(* Keys made later change nothing about those made. *)
LEMMA MadeStays ==
    ASSUME KeysTyped, NEW c \in Desktops, keysMade' = Append(keysMade, c), NEW d
    PROVE  /\ MadeBy(d) \subseteq MadeBy(d)'
           /\ Len(keysMade') \in MadeBy(c)'
           /\ keysMade' \in Seq(Desktops) /\ Len(keysMade') \in Nat \ {0}
<1>1. /\ keysMade' \in Seq(Desktops) /\ Len(keysMade') = Len(keysMade) + 1
      /\ DOMAIN keysMade = 1..Len(keysMade) /\ DOMAIN keysMade' = 1..(Len(keysMade) + 1)
      /\ \A i \in 1..Len(keysMade) : keysMade'[i] = keysMade[i]
      /\ keysMade'[Len(keysMade) + 1] = c /\ Len(keysMade) \in Nat
  BY SMT DEF KeysTyped
<1>2. 1..Len(keysMade) \subseteq 1..(Len(keysMade) + 1) /\ Len(keysMade) + 1 \in 1..(Len(keysMade) + 1)
  BY <1>1, SMT
<1>3. MadeBy(d) \subseteq MadeBy(d)'
  BY <1>1, <1>2 DEF MadeBy
<1>4. Len(keysMade') \in MadeBy(c)'
  BY <1>1, <1>2 DEF MadeBy
<1> QED
  BY <1>1, <1>3, <1>4, SMT

(***************************************************************************)
(* The steps.                                                              *)
(***************************************************************************)

LEMMA KeysInitInv == KeysInit => KeysInv
<1> SUFFICES ASSUME KeysInit PROVE KeysInv
  OBVIOUS
<1>1. <<>> \in Seq(Msg) /\ <<>> \in Seq(Desktops) /\ DOMAIN <<>> = {}
  BY SMT
<1>2. KeysTyped
  BY <1>1 DEF KeysInit, KeysTyped, Nothing
<1> QED
  BY <1>1, <1>2 DEF KeysInit, KeysInv, OwnPair, HandedOver, OnlyChatsQueued, PinsAreTheirs, Fits, Nothing

(* Steps that leave the keys alone have only the messages to answer for. *)
LEMMA MailInv ==
    ASSUME KeysInv, UNCHANGED <<PrivKey, pinVars, keysMade>>,
           inbox' \in [Desktops -> Seq(Msg)], queue' \in [Desktops -> Seq(Msg)],
           \A c \in Desktops : Fits(inbox'[c], c),
           \A c \in Desktops : Fits(queue'[c], c),
           \A c \in Desktops : \A i \in DOMAIN queue'[c] : queue'[c][i].type = "msg"
    PROVE  KeysInv'
<1>1. /\ PrivKey' = PrivKey /\ PeerKeys' = PeerKeys /\ KeyPins' = KeyPins
      /\ pinsKept' = pinsKept /\ keysMade' = keysMade
  BY DEF pinVars
<1>2. KeysTyped'
  BY <1>1 DEF KeysInv, KeysTyped
<1>3. \A c : MadeBy(c)' = MadeBy(c)
  BY <1>1 DEF MadeBy
<1>4. OwnPair' /\ PinsAreTheirs'
  BY <1>1, <1>3 DEF KeysInv, OwnPair, PinsAreTheirs, other
<1>5. HandedOver' /\ OnlyChatsQueued'
  BY <1>3 DEF HandedOver, OnlyChatsQueued, Fits, Good, other
<1> QED
  BY <1>2, <1>4, <1>5 DEF KeysInv

(* The relay replays chats only. *)
LEMMA LoginInv ==
    ASSUME KeysInv, NEW c \in Desktops, Login(c)
    PROVE  KeysInv'
<1> DEFINE replay == [i \in DOMAIN queue[c] |-> [queue[c][i] EXCEPT !.queued = TRUE]]
<1>1. queue[c] \in Seq(Msg) /\ inbox[c] \in Seq(Msg) /\ inbox \in [Desktops -> Seq(Msg)]
      /\ queue \in [Desktops -> Seq(Msg)]
  BY DEF KeysInv, KeysTyped
<1>2. \A i \in DOMAIN queue[c] : queue[c][i] \in Msg /\ Good(queue[c][i], c)
  BY <1>1, SMT DEF KeysInv, OnlyChatsQueued, Fits
<1>3. \A i \in DOMAIN queue[c] : replay[i] \in Msg /\ Good(replay[i], c)
  BY <1>2 DEF Msg, Good
<1>4. replay \in Seq(Msg) /\ DOMAIN replay = DOMAIN queue[c]
  BY <1>1, <1>3, SMTT(30)
<1>5. Fits(replay, c)
  BY <1>3, <1>4 DEF Fits
<1>6. Fits(inbox[c], c)
  BY DEF KeysInv, HandedOver
<1> HIDE DEF replay
<1>7. inbox[c] \o replay \in Seq(Msg) /\ Fits(inbox[c] \o replay, c)
  BY <1>1, <1>4, <1>5, <1>6, FitsConcat
<1>8. /\ inbox' = [inbox EXCEPT ![c] = inbox[c] \o replay]
      /\ queue' = [queue EXCEPT ![c] = <<>>]
      /\ UNCHANGED <<PrivKey, pinVars, keysMade>>
  BY DEF Login, replay
<1>9. inbox' \in [Desktops -> Seq(Msg)] /\ \A d \in Desktops : Fits(inbox'[d], d)
  BY <1>1, <1>7, <1>8 DEF KeysInv, HandedOver
<1>10. <<>> \in Seq(Msg) /\ DOMAIN <<>> = {}
  BY SMT
<1>11. /\ queue' \in [Desktops -> Seq(Msg)]
       /\ \A d \in Desktops : Fits(queue'[d], d)
       /\ \A d \in Desktops : \A i \in DOMAIN queue'[d] : queue'[d][i].type = "msg"
  BY <1>1, <1>8, <1>10 DEF KeysInv, OnlyChatsQueued, Fits
<1> QED
  BY <1>8, <1>9, <1>11, MailInv

(* The new pair is the desktop's own; pins and messages name older ones. *)
LEMMA LoadKeysInv ==
    ASSUME KeysInv, NEW c \in Desktops, LoadKeys(c)
    PROVE  KeysInv'
<1>1. /\ keysMade' = Append(keysMade, c)
      /\ PrivKey' = [PrivKey EXCEPT ![c] = Len(keysMade')]
      /\ PeerKeys' = PeerKeys /\ KeyPins' = KeyPins /\ pinsKept' = pinsKept
      /\ inbox' = inbox /\ queue' = queue
  BY DEF LoadKeys, pinVars, netVars
<1>2. KeysTyped
  BY DEF KeysInv
<1>3. /\ \A d : MadeBy(d) \subseteq MadeBy(d)'
      /\ Len(keysMade') \in MadeBy(c)'
      /\ keysMade' \in Seq(Desktops) /\ Len(keysMade') \in Nat \ {0}
  BY <1>1, <1>2, MadeStays
<1>4. KeysTyped'
  BY <1>1, <1>2, <1>3 DEF KeysTyped
<1>5. OwnPair'
  BY <1>1, <1>2, <1>3 DEF KeysInv, OwnPair, KeysTyped
<1>6. HandedOver' /\ OnlyChatsQueued' /\ PinsAreTheirs'
  <2>1. HandedOver' /\ OnlyChatsQueued'
    <3>1. ASSUME NEW d \in Desktops PROVE Fits(inbox[d], d)' /\ Fits(queue[d], d)'
      BY <1>1, <1>3 DEF KeysInv, HandedOver, OnlyChatsQueued, Fits, Good, other
    <3> QED
      BY <1>1, <3>1 DEF KeysInv, HandedOver, OnlyChatsQueued
  <2>2. PinsAreTheirs'
    BY <1>1, <1>3 DEF KeysInv, PinsAreTheirs, other
  <2> QED
    BY <2>1, <2>2
<1> QED
  BY <1>4, <1>5, <1>6 DEF KeysInv

LEMMA DisconnectInv ==
    ASSUME KeysInv, NEW c \in Desktops, Disconnect(c)
    PROVE  KeysInv'
<1>1. /\ inbox' = [inbox EXCEPT ![c] = <<>>] /\ queue' = queue
      /\ UNCHANGED <<PrivKey, pinVars, keysMade>>
  BY DEF Disconnect
<1>2. <<>> \in Seq(Msg) /\ DOMAIN <<>> = {}
  BY SMT
<1>3. Fits(<<>>, c)
  BY <1>2 DEF Fits
<1>4. inbox' \in [Desktops -> Seq(Msg)] /\ \A d \in Desktops : Fits(inbox'[d], d)
  BY <1>1, <1>2, <1>3 DEF KeysInv, KeysTyped, HandedOver
<1> QED
  BY <1>1, <1>4, MailInv DEF KeysInv, KeysTyped, OnlyChatsQueued

(* A chat, and a request for the key, hand nothing over. *)
LEMMA SendInv ==
    ASSUME KeysInv, NEW c \in Desktops, SendMessage(c)
    PROVE  KeysInv'
<1> DEFINE d == other(c)
           chat == encryptForPeer(c)
           out == <<chat>> \o (IF Asks(c) THEN <<Request>> ELSE <<>>)
<1>1. d \in Desktops
  BY TheOther
<1>2. /\ PrivKey[c] \in Nat /\ PeerKeys[c] \in Nat
      /\ inbox[d] \in Seq(Msg) /\ queue[d] \in Seq(Msg) /\ Fits(inbox[d], d) /\ Fits(queue[d], d)
      /\ inbox \in [Desktops -> Seq(Msg)] /\ queue \in [Desktops -> Seq(Msg)]
  BY <1>1 DEF KeysInv, KeysTyped, HandedOver, OnlyChatsQueued
<1>3. chat \in Msg /\ chat.type = "msg" /\ Good(chat, d)
  <2>1. chat \in Msg /\ chat.type = "msg"
    BY <1>2, Frames DEF encryptForPeer, Nothing
  <2>2. other(d) = c
    BY TheOther
  <2>3. /\ PrivKey[c] # Nothing => PrivKey[c] \in MadeBy(c)
        /\ PeerKeys[c] # Nothing => PeerKeys[c] \in MadeBy(d)
    BY DEF KeysInv, OwnPair, PinsAreTheirs
  <2>4. \/ PrivKey[c] # Nothing /\ PeerKeys[c] # Nothing /\ chat.by = PrivKey[c] /\ chat.to = PeerKeys[c]
        \/ chat.by = Nothing
    BY DEF encryptForPeer, Chat
  <2> HIDE DEF chat, d
  <2> QED
    BY <2>1, <2>2, <2>3, <2>4 DEF Good
<1>4. Request \in Msg /\ Good(Request, d)
  BY Frames DEF Good, Request
<1> HIDE DEF chat, d
<1>5. /\ <<chat>> \in Seq(Msg) /\ <<Request>> \in Seq(Msg) /\ <<>> \in Seq(Msg)
      /\ <<chat>> \o <<>> = <<chat>>
      /\ out[1] = chat
  BY <1>3, <1>4, SMT
<1>6. /\ Fits(<<chat>>, d) /\ Fits(<<Request>>, d)
      /\ Fits(<<>>, d)
  BY <1>3, <1>4, SMT DEF Fits
<1>7. out \in Seq(Msg) /\ Fits(out, d)
  BY <1>1, <1>5, <1>6, FitsConcat
<1> HIDE DEF out
<1>8. inbox[d] \o out \in Seq(Msg) /\ Fits(inbox[d] \o out, d)
  BY <1>1, <1>2, <1>7, FitsConcat
<1>9. Append(queue[d], chat) \in Seq(Msg) /\ Fits(Append(queue[d], chat), d)
      /\ \A i \in DOMAIN Append(queue[d], chat) : Append(queue[d], chat)[i].type = "msg"
  <2>1. \A i \in 1..Len(queue[d]) : queue[d][i].type = "msg" /\ Good(queue[d][i], d)
    BY <1>1, <1>2, SMT DEF KeysInv, OnlyChatsQueued, Fits
  <2> DEFINE q == queue[d]
  <2>2. q \in Seq(Msg)
    BY <1>2
  <2> HIDE DEF q
  <2>3. /\ Append(q, chat) \in Seq(Msg)
        /\ DOMAIN Append(q, chat) = 1..(Len(q) + 1)
        /\ \A i \in 1..(Len(q) + 1) :
              Append(q, chat)[i] = IF i = Len(q) + 1 THEN chat ELSE q[i]
    BY <1>3, <2>2, SMT
  <2>4. \A i \in 1..(Len(q) + 1) : i = Len(q) + 1 \/ i \in 1..Len(q)
    BY <2>2, SMT
  <2> QED
    BY <1>3, <2>1, <2>3, <2>4 DEF q, Fits
<1>10. /\ inbox' \in {inbox, [inbox EXCEPT ![d] = inbox[d] \o out]}
       /\ queue' \in {queue, [queue EXCEPT ![d] = Append(queue[d], chat)]}
       /\ UNCHANGED <<PrivKey, pinVars, keysMade>>
  BY <1>5 DEF SendMessage, d, out, chat
<1>11. inbox' \in [Desktops -> Seq(Msg)] /\ \A e \in Desktops : Fits(inbox'[e], e)
  BY <1>1, <1>2, <1>8, <1>10 DEF KeysInv, HandedOver
<1>12. /\ queue' \in [Desktops -> Seq(Msg)]
       /\ \A e \in Desktops : Fits(queue'[e], e)
       /\ \A e \in Desktops : \A i \in DOMAIN queue'[e] : queue'[e][i].type = "msg"
  BY <1>1, <1>2, <1>9, <1>10 DEF KeysInv, OnlyChatsQueued
<1> QED
  BY <1>10, <1>11, <1>12, MailInv

(* The head of an inbox leaves the rest. *)
LEMMA TakeOne ==
    ASSUME KeysInv, NEW c \in Desktops, inbox[c] # <<>>
    PROVE  /\ [inbox EXCEPT ![c] = Tail(inbox[c])] \in [Desktops -> Seq(Msg)]
           /\ \A d \in Desktops : Fits([inbox EXCEPT ![c] = Tail(inbox[c])][d], d)
           /\ Head(inbox[c]).by \in Nat
           /\ Good(Head(inbox[c]), c)
<1>1. inbox \in [Desktops -> Seq(Msg)] /\ inbox[c] \in Seq(Msg) /\ Fits(inbox[c], c)
  BY DEF KeysInv, KeysTyped, HandedOver
<1>2. /\ Tail(inbox[c]) \in Seq(Msg) /\ Fits(Tail(inbox[c]), c)
      /\ Head(inbox[c]) \in Msg /\ Good(Head(inbox[c]), c)
  BY <1>1, FitsTail
<1> QED
  BY <1>1, <1>2 DEF KeysInv, HandedOver, Msg

LEMMA ReceiveMsgInv ==
    ASSUME KeysInv, NEW c \in Desktops, ReceiveMsg(c)
    PROVE  KeysInv'
BY TakeOne, MailInv DEF ReceiveMsg, Head1, KeysInv, KeysTyped, OnlyChatsQueued

(* The answer to a request is the key the desktop has, which is its own. *)
LEMMA ReceiveRequestInv ==
    ASSUME KeysInv, NEW c \in Desktops, ReceiveRequest(c)
    PROVE  KeysInv'
<1> DEFINE d == other(c)
           key == PrivKey[c] # Nothing /\ online[c] /\ online[d]
           reply == IF key THEN <<Presence(PrivKey[c])>> ELSE <<>>
           rest == [inbox EXCEPT ![c] = Tail(inbox[c])]
<1>1. d \in Desktops /\ d # c /\ other(d) = c
  BY TheOther
<1>2. /\ rest \in [Desktops -> Seq(Msg)] /\ \A e \in Desktops : Fits(rest[e], e)
      /\ inbox \in [Desktops -> Seq(Msg)]
  BY TakeOne DEF ReceiveRequest, KeysInv, KeysTyped
<1>3. PrivKey[c] \in Nat /\ (PrivKey[c] # Nothing => PrivKey[c] \in MadeBy(c))
  BY DEF KeysInv, KeysTyped, OwnPair
<1>4. inbox' = [inbox EXCEPT ![c] = Tail(inbox[c]), ![d] = inbox[d] \o reply]
  BY <1>1 DEF ReceiveRequest
<1>5. inbox' = [rest EXCEPT ![d] = rest[d] \o reply]
  BY <1>1, <1>2, <1>4
<1>6. reply \in Seq(Msg) /\ Fits(reply, d)
  <2>1. CASE key
    <3>1. Presence(PrivKey[c]) \in Msg /\ Presence(PrivKey[c]).by = PrivKey[c]
      BY <1>3, Frames
    <3>2. <<Presence(PrivKey[c])>> \in Seq(Msg)
      BY <3>1, SMT
    <3>3. \A i \in DOMAIN <<Presence(PrivKey[c])>> :
             <<Presence(PrivKey[c])>>[i] = Presence(PrivKey[c])
      BY SMT
    <3>4. Fits(<<Presence(PrivKey[c])>>, d)
      BY <1>1, <1>3, <2>1, <3>1, <3>3, Frames DEF Fits, Good
    <3> QED
      BY <2>1, <3>2, <3>4
  <2>2. CASE ~ key
    <3>1. <<>> \in Seq(Msg) /\ DOMAIN <<>> = {}
      BY SMT
    <3> QED
      BY <2>2, <3>1 DEF Fits
  <2> QED
    BY <2>1, <2>2
<1> HIDE DEF d, reply, rest
<1>7. rest[d] \o reply \in Seq(Msg) /\ Fits(rest[d] \o reply, d)
  BY <1>1, <1>2, <1>6, FitsConcat
<1>8. inbox' \in [Desktops -> Seq(Msg)] /\ \A e \in Desktops : Fits(inbox'[e], e)
  BY <1>1, <1>2, <1>5, <1>7
<1> QED
  BY <1>8, MailInv DEF ReceiveRequest, KeysInv, KeysTyped, OnlyChatsQueued

(* What a presence hands over is pinned if nothing was, and used if pinned. *)
LEMMA ReceivePresenceInv ==
    ASSUME KeysInv, NEW c \in Desktops, ReceivePresence(c)
    PROVE  KeysInv'
<1> DEFINE k == Head(inbox[c]).by
<1>1. /\ inbox' = [inbox EXCEPT ![c] = Tail(inbox[c])]
      /\ inbox[c] # <<>> /\ Head(inbox[c]).type = "presence"
      /\ acceptPeerKey(c, k)
      /\ PrivKey' = PrivKey /\ pinsKept' = pinsKept /\ queue' = queue /\ keysMade' = keysMade
  BY DEF ReceivePresence, Head1
<1>2. /\ inbox' \in [Desktops -> Seq(Msg)] /\ \A d \in Desktops : Fits(inbox'[d], d)
      /\ k \in Nat /\ k \in MadeBy(other(c))
  BY <1>1, TakeOne DEF Good
<1>3. \A d : MadeBy(d)' = MadeBy(d)
  BY <1>1 DEF MadeBy
<1> HIDE DEF k
<1>4. KeyPins \in [Desktops -> Nat] /\ PeerKeys \in [Desktops -> Nat]
  BY DEF KeysInv, KeysTyped
<1>5. /\ KeyPins' \in [Desktops -> Nat] /\ PeerKeys' \in [Desktops -> Nat]
      /\ \A d \in Desktops :
           /\ PeerKeys'[d] # Nothing => PeerKeys'[d] = KeyPins'[d]
           /\ KeyPins'[d] # Nothing => KeyPins'[d] \in MadeBy(other(d))
  BY <1>1, <1>2, <1>4 DEF acceptPeerKey, KeysInv, PinsAreTheirs
<1>6. KeysTyped'
  BY <1>1, <1>2, <1>5 DEF KeysInv, KeysTyped
<1>7. PinsAreTheirs'
  BY <1>1, <1>3, <1>5 DEF KeysInv, PinsAreTheirs, other
<1>8. OwnPair' /\ OnlyChatsQueued'
  BY <1>1, <1>3 DEF KeysInv, OwnPair, OnlyChatsQueued, Fits, Good, other
<1>9. HandedOver'
  BY <1>2, <1>3 DEF HandedOver, Fits, Good, other
<1> QED
  BY <1>6, <1>7, <1>8, <1>9 DEF KeysInv

(* A restart empties the cache; the pins are those of a good database. *)
LEMMA ExitInv ==
    ASSUME KeysInv, NEW c \in Desktops, QuitApp(c) \/ CrashApp(c)
    PROVE  KeysInv'
<1>1. /\ PrivKey' = [PrivKey EXCEPT ![c] = Nothing]
      /\ PeerKeys' = [PeerKeys EXCEPT ![c] = Nothing]
      /\ inbox' = [inbox EXCEPT ![c] = <<>>]
      /\ queue' = queue /\ keysMade' = keysMade
      /\ \/ KeyPins' = KeyPins /\ pinsKept' = [pinsKept EXCEPT ![c] = KeyPins[c]]
         \/ KeyPins' = [KeyPins EXCEPT ![c] = pinsKept[c]] /\ pinsKept' = pinsKept
  BY DEF QuitApp, CrashApp, Exit
<1>2. <<>> \in Seq(Msg) /\ DOMAIN <<>> = {} /\ Nothing \in Nat
  BY SMT DEF Nothing
<1>3. \A d : MadeBy(d)' = MadeBy(d)
  BY <1>1 DEF MadeBy
<1>4. KeysTyped'
  BY <1>1, <1>2 DEF KeysInv, KeysTyped
<1>5. OwnPair' /\ OnlyChatsQueued'
  BY <1>1, <1>3 DEF KeysInv, KeysTyped, OwnPair, OnlyChatsQueued, Fits, Good, other
<1>6. HandedOver'
  BY <1>1, <1>2, <1>3 DEF KeysInv, KeysTyped, HandedOver, Fits, Good, other
<1>7. PinsAreTheirs'
  BY <1>1, <1>3 DEF KeysInv, KeysTyped, PinsAreTheirs, other
<1> QED
  BY <1>4, <1>5, <1>6, <1>7 DEF KeysInv

(***************************************************************************)
(* The theorems.                                                           *)
(***************************************************************************)

(* Pairs, pins, caches and what is on its way agree after every step. *)
THEOREM KeysInvariant == KeysSpec => []KeysInv
<1>1. KeysInv /\ [KeysNext]_keysVars => KeysInv'
  <2> SUFFICES ASSUME KeysInv, [KeysNext]_keysVars PROVE KeysInv'
    OBVIOUS
  <2>1. CASE UNCHANGED keysVars
    BY <2>1, MailInv
    DEF keysVars, netVars, KeysInv, KeysTyped, HandedOver, OnlyChatsQueued
  <2>2. CASE KeysNext
    <3>1. PICK c \in Desktops :
             \/ Login(c) \/ LoadKeys(c) \/ Disconnect(c) \/ SendMessage(c)
             \/ ReceiveMsg(c) \/ ReceiveRequest(c) \/ ReceivePresence(c)
             \/ QuitApp(c) \/ CrashApp(c)
      BY <2>2 DEF KeysNext
    <3> QED
      BY <3>1, LoginInv, LoadKeysInv, DisconnectInv, SendInv, ReceiveMsgInv,
         ReceiveRequestInv, ReceivePresenceInv, ExitInv
  <2> QED
    BY <2>1, <2>2
<1> QED
  BY KeysInitInv, <1>1, PTL DEF KeysSpec

(* What may not be readable: nothing, while no desktop was started again   *)
(* and none has made a second pair.                                        *)
FirstPairs ==
    /\ exits = 0
    /\ \A d \in Desktops : \A j, k \in MadeBy(d) : j = k

KeysHistory ==
    /\ exits \in Nat
    /\ online \in [Desktops -> BOOLEAN] /\ rekeying \in [Desktops -> BOOLEAN]
    /\ unread \in [Desktops -> SUBSET {"queued", "early", "direct"}]
    /\ exits = 0 => \A c \in Desktops : MadeBy(c) # {} => PrivKey[c] # Nothing
    /\ FirstPairs => \A c \in Desktops : "direct" \notin unread[c]

(* A text sealed with the first pairs of both opens. *)
LEMMA Opens ==
    ASSUME KeysInv, KeysHistory, FirstPairs, NEW c \in Desktops, NEW m, Good(m, c),
           m.type = "msg", PeerKeys[c] # Nothing
    PROVE  decryptFromPeer(c, m)
<1>1. CASE m.by = Nothing
  BY <1>1 DEF decryptFromPeer
<1>2. CASE m.by # Nothing
  <2>1. m.by \in MadeBy(other(c)) /\ m.to \in MadeBy(c) /\ other(c) \in Desktops
    BY <1>2, TheOther DEF Good
  <2>2. PeerKeys[c] \in MadeBy(other(c))
    BY DEF KeysInv, PinsAreTheirs
  <2>3. PrivKey[c] \in MadeBy(c)
    BY <2>1 DEF KeysHistory, FirstPairs, KeysInv, OwnPair
  <2> QED
    BY <2>1, <2>2, <2>3 DEF FirstPairs, decryptFromPeer, Decrypt
<1> QED
  BY <1>1, <1>2

(* Whoever made its first pair keeps it until the desktop is started again. *)
LEMMA KeysHistoryStep ==
    ASSUME KeysInv, KeysInv', KeysHistory, [KeysNext]_keysVars
    PROVE  KeysHistory'
<1>1. CASE UNCHANGED keysVars
  BY <1>1 DEF keysVars, netVars, KeysHistory, FirstPairs, MadeBy
<1>2. ASSUME NEW c \in Desktops, ReceiveMsg(c) PROVE KeysHistory'
  <2>1. UNCHANGED <<PrivKey, online, rekeying, keysMade, exits>>
    BY <1>2 DEF ReceiveMsg
  <2>2. /\ inbox[c] # <<>> /\ Head(inbox[c]).type = "msg"
        /\ LET m == Head(inbox[c]) IN
           unread' = IF decryptFromPeer(c, m) THEN unread
                     ELSE [unread EXCEPT ![c] = @ \cup {IF m.queued THEN "queued" ELSE
                                                    IF PeerKeys[c] = Nothing THEN "early" ELSE "direct"}]
    BY <1>2 DEF ReceiveMsg
  <2>3. unread' \in [Desktops -> SUBSET {"queued", "early", "direct"}]
    BY <2>2 DEF KeysHistory
  <2>4. Good(Head(inbox[c]), c)
    BY <2>2, TakeOne
  <2>5. (FirstPairs' <=> FirstPairs) /\ \A d : MadeBy(d)' = MadeBy(d)
    BY <2>1 DEF FirstPairs, MadeBy
  <2>6. ASSUME FirstPairs, NEW d \in Desktops PROVE "direct" \notin unread'[d]
    BY <2>2, <2>3, <2>4, <2>6, Opens DEF KeysHistory
  <2> QED
    BY <2>1, <2>3, <2>5, <2>6 DEF KeysHistory
<1>3. ASSUME NEW c \in Desktops, LoadKeys(c) PROVE KeysHistory'
  <2>1. /\ keysMade' = Append(keysMade, c) /\ PrivKey' = [PrivKey EXCEPT ![c] = Len(keysMade')]
        /\ rekeying' = [rekeying EXCEPT ![c] = FALSE]
        /\ UNCHANGED <<online, exits, unread>>
    BY <1>3 DEF LoadKeys, netVars
  <2>2. /\ \A d : MadeBy(d) \subseteq MadeBy(d)'
        /\ Len(keysMade') \in Nat \ {0}
    BY <2>1, MadeStays DEF KeysInv
  <2>3. FirstPairs' => FirstPairs
    BY <2>1, <2>2 DEF FirstPairs
  <2>4. ASSUME NEW d \in Desktops, MadeBy(d)' # {}, exits = 0 PROVE PrivKey'[d] # Nothing
    <3>1. CASE d = c
      BY <2>1, <2>2, <3>1 DEF KeysInv, KeysTyped, Nothing
    <3>2. CASE d # c
      <4>1. PICK k \in DOMAIN keysMade' : keysMade'[k] = d
        BY <2>4 DEF MadeBy
      <4>2. k \in DOMAIN keysMade /\ keysMade[k] = d
        <5>1. /\ keysMade \in Seq(Desktops) /\ DOMAIN keysMade = 1 .. Len(keysMade) /\ Len(keysMade) \in Nat
              /\ DOMAIN Append(keysMade, c) = 1 .. (Len(keysMade) + 1)
              /\ Append(keysMade, c)[Len(keysMade) + 1] = c
              /\ \A i \in 1 .. Len(keysMade) : Append(keysMade, c)[i] = keysMade[i]
          <6>1. keysMade \in Seq(Desktops)
            BY DEF KeysInv, KeysTyped
          <6> QED
            BY <1>3, <6>1
        <5>2. k \in 1 .. (Len(keysMade) + 1) /\ Append(keysMade, c)[k] = d
          BY <2>1, <4>1, <5>1
        <5>3. k # Len(keysMade) + 1
          BY <3>2, <5>1, <5>2
        <5>4. k \in 1 .. Len(keysMade)
          BY <5>1, <5>2, <5>3
        <5> QED
          BY <5>1, <5>2, <5>4
      <4> QED
        BY <2>1, <2>4, <3>2, <4>2 DEF KeysHistory, MadeBy, KeysInv, KeysTyped
    <3> QED
      BY <3>1, <3>2
  <2> QED
    BY <2>1, <2>3, <2>4 DEF KeysHistory
<1>4. ASSUME NEW c \in Desktops, QuitApp(c) \/ CrashApp(c) PROVE KeysHistory'
  <2>1. /\ exits' = exits + 1 /\ unread' = unread
        /\ online' = [online EXCEPT ![c] = FALSE] /\ rekeying' = [rekeying EXCEPT ![c] = FALSE]
    BY <1>4 DEF QuitApp, CrashApp, Exit
  <2> QED
    BY <2>1 DEF KeysHistory, FirstPairs
<1>5. ASSUME NEW c \in Desktops,
             Login(c) \/ Disconnect(c) \/ SendMessage(c) \/ ReceiveRequest(c) \/ ReceivePresence(c)
      PROVE  KeysHistory'
  <2>1. /\ UNCHANGED <<PrivKey, keysMade, exits, unread>>
        /\ online' \in [Desktops -> BOOLEAN] /\ rekeying' \in [Desktops -> BOOLEAN]
    BY <1>5 DEF Login, Disconnect, SendMessage, ReceiveRequest, ReceivePresence, KeysHistory
  <2> QED
    BY <2>1 DEF KeysHistory, FirstPairs, MadeBy
<1> QED
  BY <1>1, <1>2, <1>3, <1>4, <1>5 DEF KeysNext

(* Two desktops on their first pairs read whatever comes to them directly. *)
THEOREM FirstPairsReadable == KeysSpec => [](KeysHistory /\ Readable)
<1>1. KeysInit => KeysHistory
  <2> SUFFICES ASSUME KeysInit PROVE KeysHistory
    OBVIOUS
  <2>1. \A c \in Desktops : MadeBy(c) = {}
    <3>1. keysMade = <<>> /\ DOMAIN <<>> = {}
      BY DEF KeysInit
    <3> QED
      BY <3>1 DEF MadeBy
  <2> QED
    BY <2>1 DEF KeysInit, KeysHistory
<1>2. KeysHistory => Readable
  BY DEF KeysHistory, FirstPairs, Readable
<1> QED
  BY <1>1, <1>2, KeysInvariant, KeysHistoryStep, PTL DEF KeysSpec

(* Keys name pairs that were made.                                         *)
THEOREM KeysTyping == KeysSpec => []KeysTypeOK
<1>1. KeysInv /\ KeysHistory => KeysTypeOK
  <2> SUFFICES ASSUME KeysInv, KeysHistory PROVE KeysTypeOK
    OBVIOUS
  <2>1. \A d : MadeBy(d) \subseteq Keys
    BY DEF MadeBy, Keys
  <2>2. /\ PrivKey \in [Desktops -> Nat] /\ PeerKeys \in [Desktops -> Nat]
        /\ KeyPins \in [Desktops -> Nat] /\ pinsKept \in [Desktops -> Nat]
        /\ keysMade \in Seq(Desktops) /\ Nothing \in Keys
    BY DEF KeysInv, KeysTyped, Keys
  <2>3. \A c \in Desktops :
           PrivKey[c] \in Keys /\ PeerKeys[c] \in Keys /\ KeyPins[c] \in Keys /\ pinsKept[c] \in Keys
    BY <2>1, <2>2 DEF KeysInv, OwnPair, PinsAreTheirs
  <2>4. ASSUME NEW c \in Desktops, NEW i \in DOMAIN inbox[c] PROVE inbox[c][i].by \in Keys
    <3>1. inbox[c] \in Seq(Msg) /\ Good(inbox[c][i], c)
      BY DEF KeysInv, KeysTyped, HandedOver, Fits
    <3>2. inbox[c][i] \in Msg
      BY <3>1
    <3> QED
      BY <2>1, <2>2, <3>1, <3>2 DEF Good, Msg
  <2>5. PrivKey \in [Desktops -> Keys] /\ PeerKeys \in [Desktops -> Keys]
        /\ KeyPins \in [Desktops -> Keys] /\ pinsKept \in [Desktops -> Keys]
    BY <2>2, <2>3
  <2> QED
    BY <2>2, <2>4, <2>5 DEF KeysTypeOK, KeysHistory
<1> QED
  BY <1>1, KeysInvariant, FirstPairsReadable, PTL

(* A desktop encrypts with the pinned key, and the other desktop made it. *)
THEOREM CacheIsPinnedAlways == KeysSpec => []CacheIsPinned
<1>1. KeysInv => CacheIsPinned
  BY DEF KeysInv, PinsAreTheirs, MadeBy, CacheIsPinned
<1> QED
  BY KeysInvariant, <1>1, PTL
(***************************************************************************)
(* The contacts, for any number of requests, drops and dialogs.  What a    *)
(* desktop lists is settled by the last change on its way to it, and when  *)
(* there is none, by the last of its own on its way to the relay.          *)
(***************************************************************************)
ToRelay == {"friend_request", "friend_accept", "friend_reject", "friend_remove"}
ToUser == {"friend_request", "friend_accepted", "friend_removed"}
Own == {"friend_accept", "friend_remove"}
Changes == {"friend_accepted", "friend_removed"}

ContactsTyped ==
    /\ row \in Pair \cup {NoFriends, Friends}
    /\ listed \in [Pair -> BOOLEAN] /\ here \in [Pair -> BOOLEAN]
    /\ dialogs \in [Pair -> 0 .. MaxDialogs]
    /\ missed \subseteq Pair /\ unbacked \in BOOLEAN
    /\ toRelay \in [Pair -> Seq(ToRelay)] /\ toUser \in [Pair -> Seq(ToUser)]

(* The last message in s of a kind in A is its i-th; or there is none. *)
Latest(s, A, i) == i \in DOMAIN s /\ s[i] \in A /\ \A j \in DOMAIN s : s[j] \in A => j <= i
Without(s, A) == \A j \in DOMAIN s : s[j] \notin A

Settled(c) ==
    /\ \A i \in Nat : Latest(toUser[c], Changes, i) =>
                        (row = Friends <=> toUser[c][i] = "friend_accepted")
    /\ Without(toUser[c], Changes) =>
          /\ \A i \in Nat : Latest(toRelay[c], Own, i) =>
                              (listed[c] <=> toRelay[c][i] = "friend_accept")
          /\ Without(toRelay[c], Own) => (listed[c] <=> row = Friends)

Follows(c) == c \in missed \/ unbacked \/ Settled(c)

ContactsInv == ContactsTyped /\ \A c \in Pair : Follows(c)

(***************************************************************************)
(* Lemmas.                                                                 *)
(***************************************************************************)
LEMMA ThePeer ==
    ASSUME NEW c \in Pair
    PROVE  peer(c) \in Pair /\ peer(c) # c /\ peer(peer(c)) = c /\ \A d \in Pair : d = c \/ d = peer(c)
<1>1. PICK a, b \in Pair : a # b /\ Pair = {a, b}
  BY ContactsAssumption DEF ContactsAssumption
<1>2. \A x \in Pair : \E d \in Pair : d # x
  BY <1>1
<1>3. \A x \in Pair : peer(x) \in Pair /\ peer(x) # x
  BY <1>2 DEF peer
<1> QED
  BY <1>1, <1>3

(* A message at the end of the way is the latest of its kind ...           *)
LEMMA LatestAppend ==
    ASSUME NEW T, NEW s \in Seq(T), NEW x \in T, NEW A, x \in A
    PROVE  /\ ~ Without(Append(s, x), A)
           /\ \A i \in Nat : Latest(Append(s, x), A, i) => Append(s, x)[i] = x
<1>1. /\ Len(s) \in Nat /\ DOMAIN Append(s, x) = 1 .. (Len(s) + 1)
      /\ Append(s, x)[Len(s) + 1] = x
  OBVIOUS
<1> QED
  BY <1>1 DEF Without, Latest

(* ... and leaves the latest of another kind as it is.                     *)
LEMMA LatestKept ==
    ASSUME NEW T, NEW s \in Seq(T), NEW x \in T, NEW A, x \notin A
    PROVE  /\ Without(Append(s, x), A) => Without(s, A)
           /\ \A i \in Nat : Latest(Append(s, x), A, i) =>
                                Latest(s, A, i) /\ Append(s, x)[i] = s[i]
<1>1. /\ Len(s) \in Nat /\ DOMAIN s = 1 .. Len(s)
      /\ DOMAIN Append(s, x) = 1 .. (Len(s) + 1)
      /\ Append(s, x)[Len(s) + 1] = x
      /\ \A i \in 1 .. Len(s) : Append(s, x)[i] = s[i]
  OBVIOUS
<1>2. \A i \in Nat : i \in 1 .. (Len(s) + 1) <=> i \in 1 .. Len(s) \/ i = Len(s) + 1
  BY <1>1
<1> QED
  BY <1>1, <1>2 DEF Without, Latest

(* What is left when the first message has arrived. *)
LEMMA LatestTail ==
    ASSUME NEW T, NEW s \in Seq(T), s # <<>>, NEW A
    PROVE  /\ \A i \in Nat : Latest(Tail(s), A, i) => i + 1 \in Nat /\ Latest(s, A, i + 1) /\ Tail(s)[i] = s[i + 1]
           /\ Without(Tail(s), A) /\ Head(s) \notin A => Without(s, A)
           /\ Without(Tail(s), A) /\ Head(s) \in A => Latest(s, A, 1) /\ s[1] = Head(s)
           /\ Without(s, A) => Without(Tail(s), A) /\ Head(s) \notin A
<1>1. /\ Len(s) \in Nat /\ Len(s) > 0 /\ DOMAIN s = 1 .. Len(s)
      /\ Tail(s) \in Seq(T) /\ DOMAIN Tail(s) = 1 .. (Len(s) - 1)
      /\ \A i \in 1 .. (Len(s) - 1) : Tail(s)[i] = s[i + 1]
      /\ Head(s) = s[1]
  OBVIOUS
<1>2. \A j \in 1 .. Len(s) : j = 1 \/ (j - 1 \in 1 .. (Len(s) - 1) /\ Tail(s)[j - 1] = s[j])
  BY <1>1
<1>3. ASSUME NEW i \in Nat, Latest(Tail(s), A, i)
      PROVE  i + 1 \in Nat /\ Latest(s, A, i + 1) /\ Tail(s)[i] = s[i + 1]
  <2>1. i \in 1 .. (Len(s) - 1) /\ Tail(s)[i] = s[i + 1] /\ Tail(s)[i] \in A
    BY <1>1, <1>3 DEF Latest
  <2>2. ASSUME NEW j \in 1 .. Len(s), s[j] \in A PROVE j <= i + 1
    <3>1. CASE j = 1
      BY <3>1
    <3>2. CASE j - 1 \in 1 .. (Len(s) - 1) /\ Tail(s)[j - 1] = s[j]
      <4>1. j - 1 <= i
        BY <1>1, <1>3, <2>2, <3>2 DEF Latest
      <4> QED
        BY <4>1
    <3> QED
      BY <1>2, <3>1, <3>2
  <2> QED
    BY <1>1, <2>1, <2>2 DEF Latest
<1>4. Without(Tail(s), A) => \A j \in 1 .. Len(s) : j # 1 => s[j] \notin A
  BY <1>1, <1>2 DEF Without
<1>5. Without(s, A) => Without(Tail(s), A) /\ Head(s) \notin A
  <2>1. \A i \in 1 .. (Len(s) - 1) : i + 1 \in 1 .. Len(s) /\ 1 \in 1 .. Len(s)
    BY <1>1
  <2> QED
    BY <1>1, <2>1 DEF Without
<1> QED
  BY <1>1, <1>3, <1>4, <1>5 DEF Without, Latest

(* Nothing of a kind has gone and nothing has come, so the latest of it,   *)
(* if there is one, is the same.                                           *)
From(t, s, A) ==
    /\ Without(t, A) => Without(s, A)
    /\ \A i \in Nat : Latest(t, A, i) => \E k \in Nat : Latest(s, A, k) /\ t[i] = s[k]

(* What queues lose and gain without changing what comes last of the kinds in A. *)
LEMMA FromRules ==
    ASSUME NEW T, NEW s \in Seq(T), NEW A
    PROVE  /\ From(s, s, A)
           /\ \A x \in T : x \notin A => From(Append(s, x), s, A)
           /\ s # <<>> /\ Head(s) \notin A => From(Tail(s), s, A)
<1>1. From(s, s, A)
  BY DEF From
<1>2. ASSUME NEW x \in T, x \notin A PROVE From(Append(s, x), s, A)
  <2>1. /\ Without(Append(s, x), A) => Without(s, A)
        /\ \A i \in Nat : Latest(Append(s, x), A, i) => Latest(s, A, i) /\ Append(s, x)[i] = s[i]
    BY <1>2, LatestKept
  <2> QED
    BY <2>1 DEF From
<1>3. ASSUME s # <<>>, Head(s) \notin A PROVE From(Tail(s), s, A)
  <2>1. /\ \A i \in Nat : Latest(Tail(s), A, i) =>
              i + 1 \in Nat /\ Latest(s, A, i + 1) /\ Tail(s)[i] = s[i + 1]
        /\ Without(Tail(s), A) => Without(s, A)
    BY <1>3, LatestTail
  <2> QED
    BY <2>1 DEF From
<1> QED
  BY <1>1, <1>2, <1>3

(* A step that neither changes the list or the friendship nor moves a      *)
(* change of them.                                                         *)
LEMMA FollowsStays ==
    ASSUME NEW d \in Pair, Follows(d), missed \subseteq missed', unbacked => unbacked',
           row' = Friends <=> row = Friends, listed'[d] = listed[d],
           From(toUser'[d], toUser[d], Changes), From(toRelay'[d], toRelay[d], Own)
    PROVE  Follows(d)'
<1>1. CASE d \in missed \/ unbacked
  BY <1>1 DEF Follows
<1>2. CASE Settled(d)
  <2>1. ASSUME NEW i \in Nat, Latest(toUser'[d], Changes, i)
        PROVE  row' = Friends <=> toUser'[d][i] = "friend_accepted"
    <3>1. PICK k \in Nat : Latest(toUser[d], Changes, k) /\ toUser'[d][i] = toUser[d][k]
      BY <2>1 DEF From
    <3> QED
      BY <1>2, <3>1 DEF Settled
  <2>2. ASSUME Without(toUser'[d], Changes), NEW i \in Nat, Latest(toRelay'[d], Own, i)
        PROVE  listed'[d] <=> toRelay'[d][i] = "friend_accept"
    <3>1. PICK k \in Nat : Latest(toRelay[d], Own, k) /\ toRelay'[d][i] = toRelay[d][k]
      BY <2>2 DEF From
    <3>2. Without(toUser[d], Changes)
      BY <2>2 DEF From
    <3> QED
      BY <1>2, <3>1, <3>2 DEF Settled
  <2>3. ASSUME Without(toUser'[d], Changes), Without(toRelay'[d], Own)
        PROVE  listed'[d] <=> row' = Friends
    BY <1>2, <2>3 DEF Settled, From
  <2> QED
    BY <2>1, <2>2, <2>3 DEF Settled, Follows
<1> QED
  BY <1>1, <1>2 DEF Follows

(* What a desktop sends, by the relay or the mesh. *)
LEMMA SendTyped ==
    ASSUME ContactsTyped, NEW c \in Pair, NEW type \in ToRelay, Send(c, type)
    PROVE  /\ toRelay' \in [Pair -> Seq(ToRelay)] /\ toUser' \in [Pair -> Seq(ToUser)]
           /\ missed \subseteq missed' /\ missed' \subseteq Pair
           /\ ~ here[c] => c \in missed'
           /\ \A d \in Pair : From(toUser'[d], toUser[d], Changes)
           /\ here[c] => toRelay'[c] = Append(toRelay[c], type) /\ toUser' = toUser
           /\ ~ here[c] => toRelay' = toRelay
           /\ \A d \in Pair \ {c} : toRelay'[d] = toRelay[d]
<1> USE DEF ContactsTyped
<1>1. peer(c) \in Pair /\ \A d \in Pair : From(toUser[d], toUser[d], Changes)
  BY ThePeer, FromRules
<1>2. CASE here[c]
  <2>1. Append(toRelay[c], type) \in Seq(ToRelay)
    OBVIOUS
  <2> QED
    BY <1>1, <1>2, <2>1 DEF Send
<1>3. CASE ~ here[c] /\ UNCHANGED toUser
  BY <1>1, <1>3 DEF Send
<1>4. CASE ~ here[c] /\ type = "friend_request"
           /\ toUser' = [toUser EXCEPT ![peer(c)] = Append(@, type)]
  <2>1. "friend_request" \in ToUser /\ "friend_request" \notin Changes
    BY DEF ToUser, Changes
  <2>2. From(Append(toUser[peer(c)], "friend_request"), toUser[peer(c)], Changes)
    BY <1>1, <2>1, FromRules
  <2>3. Append(toUser[peer(c)], "friend_request") \in Seq(ToUser)
    BY <1>1, <2>1
  <2>4. toUser' \in [Pair -> Seq(ToUser)] /\ \A d \in Pair : From(toUser'[d], toUser[d], Changes)
    BY <1>1, <1>4, <2>2, <2>3
  <2> QED
    BY <1>4, <2>4 DEF Send
<1> QED
  BY <1>2, <1>3, <1>4 DEF Send

(***************************************************************************)
(* The steps.                                                              *)
(***************************************************************************)
LEMMA ContactsInitInv == ContactsInit => ContactsInv
<1> SUFFICES ASSUME ContactsInit PROVE ContactsInv
  OBVIOUS
<1>1. ContactsTyped
  <2>1. <<>> \in Seq(ToRelay) /\ <<>> \in Seq(ToUser) /\ 0 \in 0 .. MaxDialogs
    BY ContactsAssumption DEF ContactsAssumption
  <2> QED
    BY <2>1 DEF ContactsInit, ContactsTyped
<1>2. \A c \in Pair : Settled(c)
  BY ContactsAssumption DEF ContactsAssumption, ContactsInit, Settled, Latest, Without
<1> QED
  BY <1>1, <1>2 DEF ContactsInv, Follows

LEMMA AddContactInv ==
    ASSUME ContactsInv, NEW c \in Pair,
           AddContact(c) \/ AnswerRequest(c, FALSE)
    PROVE  ContactsInv'
<1> USE DEF ContactsInv, ContactsTyped
<1>1. PICK type \in ToRelay \ Own : Send(c, type) /\ UNCHANGED <<row, here, unbacked>>
  BY DEF AddContact, AnswerRequest, ToRelay, Own
<1>2. listed' = listed /\ dialogs' \in [Pair -> 0 .. MaxDialogs]
  BY ContactsAssumption DEF ContactsAssumption, AddContact, AnswerRequest
<1>3. \A d \in Pair : From(toRelay'[d], toRelay[d], Own)
  <2>1. /\ \A d \in Pair : toRelay[d] \in Seq(ToRelay) /\ From(toRelay[d], toRelay[d], Own)
        /\ From(Append(toRelay[c], type), toRelay[c], Own)
    BY <1>1, FromRules
  <2> QED
    BY <1>1, <2>1, SendTyped
<1> QED
  BY <1>1, <1>2, <1>3, SendTyped, FollowsStays DEF Follows

(* A change of the user's own, after which it is the latest on its way to  *)
(* the relay and what the desktop lists.                                   *)
LEMMA OwnChangeInv ==
    ASSUME ContactsInv, NEW c \in Pair, AnswerRequest(c, TRUE) \/ removeContact(c)
    PROVE  ContactsInv'
<1> USE DEF ContactsInv, ContactsTyped
<1>1. PICK type \in Own :
         /\ Send(c, type) /\ UNCHANGED <<row, here, unbacked>>
         /\ listed' = [listed EXCEPT ![c] = (type = "friend_accept")]
  BY DEF AnswerRequest, removeContact, Own
<1>2. dialogs' \in [Pair -> 0 .. MaxDialogs]
  BY ContactsAssumption DEF ContactsAssumption, AnswerRequest, removeContact
<1>3. type \in ToRelay
  BY DEF Own, ToRelay
<1>4. ContactsTyped'
  BY <1>1, <1>2, <1>3, SendTyped
<1>5. ASSUME NEW d \in Pair, d # c PROVE Follows(d)'
  BY <1>1, <1>3, <1>5, SendTyped, FromRules, FollowsStays DEF Follows
<1>6. Follows(c)'
  <2>1. CASE ~ here[c]
    BY <1>1, <1>3, <2>1, SendTyped DEF Follows
  <2>2. CASE here[c] /\ (c \in missed \/ unbacked)
    BY <1>1, <1>3, <2>2, SendTyped DEF Follows
  <2>3. CASE here[c] /\ Settled(c)
    <3>1. /\ ~ Without(toRelay'[c], Own) /\ toUser' = toUser
          /\ \A i \in Nat : Latest(toRelay'[c], Own, i) => toRelay'[c][i] = type
      <4>1. toRelay[c] \in Seq(ToRelay) /\ toRelay'[c] = Append(toRelay[c], type) /\ toUser' = toUser
        BY <1>1, <1>3, <2>3, SendTyped
      <4>2. /\ ~ Without(Append(toRelay[c], type), Own)
            /\ \A i \in Nat : Latest(Append(toRelay[c], type), Own, i) => Append(toRelay[c], type)[i] = type
        <5> HIDE DEF ContactsInv, ContactsTyped
        <5> QED
          BY <1>1, <1>3, <4>1, LatestAppend
      <4> QED
        BY <4>1, <4>2
    <3> QED
      BY <1>1, <2>3, <3>1 DEF Settled, Follows
  <2> QED
    BY <2>1, <2>2, <2>3 DEF Follows
<1> QED
  BY <1>4, <1>5, <1>6 DEF Follows

(* A notification arrives.  A change is the next to go from the way to the *)
(* desktop, and what the desktop lists from now on.                        *)
LEMMA HandleInv ==
    ASSUME ContactsInv, NEW c \in Pair, Handle(c)
    PROVE  ContactsInv'
<1> DEFINE m == Head(toUser[c])
<1>1. /\ toUser[c] \in Seq(ToUser) /\ toUser[c] # <<>> /\ m \in ToUser
      /\ Tail(toUser[c]) \in Seq(ToUser)
      /\ \A d \in Pair : /\ toUser[d] \in Seq(ToUser) /\ toRelay[d] \in Seq(ToRelay)
                         /\ Follows(d)
                         /\ From(toUser[d], toUser[d], Changes) /\ From(toRelay[d], toRelay[d], Own)
  <2>1. \A d \in Pair : toUser[d] \in Seq(ToUser) /\ toRelay[d] \in Seq(ToRelay) /\ Follows(d)
    BY DEF ContactsInv, ContactsTyped
  <2>2. toUser[c] # <<>>
    BY DEF Handle
  <2>3. m \in ToUser /\ Tail(toUser[c]) \in Seq(ToUser)
    BY <2>1, <2>2
  <2> QED
    BY <2>1, <2>2, <2>3, FromRules
<1>2. /\ toUser' = [toUser EXCEPT ![c] = Tail(@)]
      /\ UNCHANGED <<row, here, toRelay, unbacked>>
  BY DEF Handle
<1>3. toUser' \in [Pair -> Seq(ToUser)] /\ toUser'[c] = Tail(toUser[c]) /\ \A d \in Pair \ {c} : toUser'[d] = toUser[d]
  BY <1>1, <1>2 DEF ContactsInv, ContactsTyped
<1>4. CASE m = "friend_request"
  <2>1. /\ listed' = listed /\ missed' = missed
        /\ dialogs[c] < MaxDialogs /\ dialogs' = [dialogs EXCEPT ![c] = @ + 1]
    BY <1>4 DEF Handle
  <2>2. dialogs' \in [Pair -> 0 .. MaxDialogs]
    BY <2>1, ContactsAssumption DEF ContactsAssumption, ContactsInv, ContactsTyped
  <2>3. ContactsTyped'
    BY <1>2, <1>3, <2>1, <2>2 DEF ContactsInv, ContactsTyped
  <2>4. From(toUser'[c], toUser[c], Changes)
    <3>1. m \notin Changes
      BY <1>4 DEF Changes
    <3> QED
      BY <1>1, <1>3, <3>1, FromRules
  <2>5. \A d \in Pair : From(toUser'[d], toUser[d], Changes) /\ From(toRelay'[d], toRelay[d], Own)
    BY <1>1, <1>2, <1>3, <2>4
  <2>6. \A d \in Pair : Follows(d)'
    BY <1>1, <1>2, <2>1, <2>5, FollowsStays
  <2> QED
    BY <2>3, <2>6 DEF ContactsInv
<1>5. CASE m \in Changes
  <2>1. /\ listed' = [listed EXCEPT ![c] = (m = "friend_accepted")]
        /\ Cross(c) /\ dialogs' = dialogs
    BY <1>5 DEF Handle, FriendRemoved, Changes
  <2>2. missed \subseteq missed' /\ missed' \subseteq Pair /\ (Crossed(c) => c \in missed')
    BY <2>1 DEF Cross, ContactsInv, ContactsTyped
  <2>3. ContactsTyped'
    BY <1>2, <1>3, <2>1, <2>2 DEF ContactsInv, ContactsTyped
  <2>4. listed'[c] = (m = "friend_accepted") /\ \A d \in Pair \ {c} : listed'[d] = listed[d]
    BY <2>1 DEF ContactsInv, ContactsTyped
  <2>5. ASSUME NEW d \in Pair, d # c PROVE Follows(d)'
    BY <1>1, <1>2, <1>3, <2>2, <2>4, <2>5, FollowsStays
  <2>6. Follows(c)'
    <3>1. CASE Crossed(c) \/ c \in missed \/ unbacked
      BY <1>2, <2>2, <3>1 DEF Follows
    <3>2. CASE ~ Crossed(c) /\ Settled(c)
      <4>1. Without(toRelay'[c], Own) /\ \A i \in Nat : ~ Latest(toRelay'[c], Own, i)
        BY <1>2, <3>2 DEF Crossed, Own, Without, Latest
      <4>2. /\ \A i \in Nat : Latest(Tail(toUser[c]), Changes, i) =>
                  /\ i + 1 \in Nat /\ Latest(toUser[c], Changes, i + 1)
                  /\ Tail(toUser[c])[i] = toUser[c][i + 1]
            /\ Without(Tail(toUser[c]), Changes) => Latest(toUser[c], Changes, 1) /\ toUser[c][1] = m
        BY <1>1, <1>5, LatestTail
      <4>3. ASSUME NEW i \in Nat, Latest(toUser'[c], Changes, i)
            PROVE  row' = Friends <=> toUser'[c][i] = "friend_accepted"
        BY <1>2, <1>3, <3>2, <4>2, <4>3, ZenonT(30) DEF Settled
      <4>4. ASSUME Without(toUser'[c], Changes) PROVE listed'[c] <=> row' = Friends
        BY <1>2, <1>3, <2>4, <3>2, <4>2, <4>4 DEF Settled
      <4> QED
        BY <4>1, <4>3, <4>4 DEF Settled, Follows
    <3> QED
      BY <1>1, <3>1, <3>2 DEF Follows
  <2> QED
    BY <2>3, <2>5, <2>6 DEF ContactsInv
<1> QED
  BY <1>1, <1>4, <1>5 DEF ToUser, Changes

LEMMA SignInHereInv ==
    ASSUME ContactsInv, NEW c \in Pair, SignInHere(c)
    PROVE  ContactsInv'
<1>1. /\ UNCHANGED <<row, listed, toRelay, dialogs, missed, unbacked>>
      /\ here' = [here EXCEPT ![c] = TRUE]
      /\ toUser' = toUser \/ toUser' = [toUser EXCEPT ![c] = Append(@, "friend_request")]
  BY DEF SignInHere
<1>2. /\ \A d \in Pair : toUser[d] \in Seq(ToUser) /\ toRelay[d] \in Seq(ToRelay) /\ Follows(d)
      /\ toUser \in [Pair -> Seq(ToUser)]
  BY DEF ContactsInv, ContactsTyped
<1>3. "friend_request" \in ToUser /\ "friend_request" \notin Changes
  BY DEF ToUser, Changes
<1>4. \A d \in Pair : /\ From(toUser[d], toUser[d], Changes) /\ From(toRelay[d], toRelay[d], Own)
                      /\ From(Append(toUser[d], "friend_request"), toUser[d], Changes)
                      /\ Append(toUser[d], "friend_request") \in Seq(ToUser)
  <2>1. \A d \in Pair : From(toUser[d], toUser[d], Changes) /\ From(toRelay[d], toRelay[d], Own)
    BY <1>2, FromRules
  <2>2. \A d \in Pair : From(Append(toUser[d], "friend_request"), toUser[d], Changes)
    BY <1>2, <1>3, FromRules
  <2>3. \A d \in Pair : Append(toUser[d], "friend_request") \in Seq(ToUser)
    BY <1>2, <1>3
  <2> QED
    BY <2>1, <2>2, <2>3
<1>5. toUser' \in [Pair -> Seq(ToUser)] /\ \A d \in Pair : From(toUser'[d], toUser[d], Changes)
  BY <1>1, <1>2, <1>4
<1>6. ContactsTyped'
  BY <1>1, <1>5 DEF ContactsInv, ContactsTyped
<1>7. \A d \in Pair : Follows(d)'
  BY <1>1, <1>2, <1>4, <1>5, FollowsStays
<1> QED
  BY <1>6, <1>7 DEF ContactsInv

(* What was on its way is lost, and then the two are known to have missed  *)
(* something; or nothing was.                                              *)
LEMMA DropHereInv ==
    ASSUME ContactsInv, NEW c \in Pair, DropHere(c)
    PROVE  ContactsInv'
<1>1. /\ UNCHANGED <<row, listed, unbacked>> /\ here' = [here EXCEPT ![c] = FALSE]
      /\ toRelay' = [toRelay EXCEPT ![c] = <<>>] /\ toUser' = [toUser EXCEPT ![c] = <<>>]
      /\ missed' = IF toRelay[c] = <<>> /\ toUser[c] = <<>> THEN missed ELSE missed \cup {c}
      /\ dialogs' \in {dialogs, [dialogs EXCEPT ![c] = 0]}
  BY DEF DropHere
<1>2. dialogs' \in [Pair -> 0 .. MaxDialogs]
  BY <1>1, ContactsAssumption DEF ContactsAssumption, ContactsInv, ContactsTyped
<1>3. /\ toRelay' \in [Pair -> Seq(ToRelay)] /\ toUser' \in [Pair -> Seq(ToUser)]
      /\ missed \subseteq missed' /\ missed' \subseteq Pair
  BY <1>1 DEF ContactsInv, ContactsTyped
<1>4. ContactsTyped'
  BY <1>1, <1>2, <1>3 DEF ContactsInv, ContactsTyped
<1>5. \A d \in Pair : /\ Follows(d) /\ From(toUser[d], toUser[d], Changes)
                      /\ From(toRelay[d], toRelay[d], Own)
  BY FromRules DEF ContactsInv, ContactsTyped
<1>6. ASSUME NEW d \in Pair PROVE Follows(d)'
  <2>1. CASE d = c /\ (toRelay[c] # <<>> \/ toUser[c] # <<>>)
    BY <1>1, <2>1 DEF Follows
  <2>2. CASE toUser'[d] = toUser[d] /\ toRelay'[d] = toRelay[d]
    BY <1>1, <1>3, <1>5, <2>2, FollowsStays
  <2> QED
    BY <1>1, <2>1, <2>2 DEF ContactsInv, ContactsTyped
<1> QED
  BY <1>4, <1>6 DEF ContactsInv

(* What the relay tells the other of the two. *)
LEMMA Notified ==
    ASSUME ContactsTyped, NEW c \in Pair, NEW t \in ToUser, Notify(c, t)
    PROVE  /\ toUser' \in [Pair -> Seq(ToUser)]
           /\ missed \subseteq missed' /\ missed' \subseteq Pair
           /\ toUser'[c] = toUser[c]
           /\ t \notin Changes => \A d \in Pair : From(toUser'[d], toUser[d], Changes)
           /\ t \in Changes =>
                /\ here[peer(c)] => toUser'[peer(c)] = Append(toUser[peer(c)], t)
                /\ ~ here[peer(c)] => peer(c) \in missed'
                /\ ~ Without(toUser[c], Changes) => c \in missed'
<1>1. peer(c) \in Pair /\ peer(c) # c
  BY ThePeer
<1>2. /\ toUser \in [Pair -> Seq(ToUser)] /\ missed \subseteq Pair
      /\ Append(toUser[peer(c)], t) \in Seq(ToUser)
  <2>1. toUser \in [Pair -> Seq(ToUser)] /\ missed \subseteq Pair
    BY DEF ContactsTyped
  <2> QED
    BY <1>1, <2>1
<1>3. toUser' = IF here[peer(c)] THEN [toUser EXCEPT ![peer(c)] = Append(@, t)] ELSE toUser
  BY DEF Notify
<1>4. toUser' \in [Pair -> Seq(ToUser)] /\ \A d \in Pair \ {peer(c)} : toUser'[d] = toUser[d]
  BY <1>1, <1>2, <1>3
<1>5. toUser'[peer(c)] = IF here[peer(c)] THEN Append(toUser[peer(c)], t) ELSE toUser[peer(c)]
  BY <1>1, <1>2, <1>3
<1>6. ASSUME t \notin Changes, NEW d \in Pair PROVE From(toUser'[d], toUser[d], Changes)
  <2>1. From(toUser[d], toUser[d], Changes) /\ From(Append(toUser[d], t), toUser[d], Changes)
    BY <1>2, <1>6, FromRules
  <2> QED
    BY <1>4, <1>5, <2>1
<1>7. missed \subseteq missed' /\ missed' \subseteq Pair
  BY <1>1, <1>2 DEF Notify
<1>8. t \in Changes => /\ ~ here[peer(c)] => peer(c) \in missed'
                       /\ ~ Without(toUser[c], Changes) => c \in missed'
  BY DEF Notify, Changes, Without
<1> QED
  BY <1>1, <1>4, <1>5, <1>6, <1>7, <1>8

(* The relay handles what a desktop sent.  A change is the next to go from *)
(* the way to the relay, is what the friendship becomes, and goes last on  *)
(* the way to the other.                                                   *)
LEMMA RelayHandlesInv ==
    ASSUME ContactsInv, NEW c \in Pair, RelayHandles(c)
    PROVE  ContactsInv'
<1> DEFINE m == Head(toRelay[c])
           d == peer(c)
<1>1. d \in Pair /\ d # c /\ (\A x \in Pair : x = c \/ x = d) /\ c # Friends /\ d # Friends /\ NoFriends # Friends
  BY ThePeer, ContactsAssumption DEF ContactsAssumption
<1>2. /\ toRelay[c] \in Seq(ToRelay) /\ toRelay[c] # <<>> /\ m \in ToRelay
      /\ Tail(toRelay[c]) \in Seq(ToRelay)
      /\ \A x \in Pair : toUser[x] \in Seq(ToUser) /\ toRelay[x] \in Seq(ToRelay) /\ Follows(x)
  <2>1. \A x \in Pair : toUser[x] \in Seq(ToUser) /\ toRelay[x] \in Seq(ToRelay) /\ Follows(x)
    BY DEF ContactsInv, ContactsTyped
  <2>2. toRelay[c] # <<>>
    BY DEF RelayHandles
  <2> QED
    BY <2>1, <2>2
<1>3. /\ toRelay' = [toRelay EXCEPT ![c] = Tail(@)]
      /\ UNCHANGED <<listed, here, dialogs>>
  BY DEF RelayHandles
<1>4. toRelay' \in [Pair -> Seq(ToRelay)] /\ toRelay'[c] = Tail(toRelay[c]) /\ toRelay'[d] = toRelay[d]
  BY <1>1, <1>2, <1>3 DEF ContactsInv, ContactsTyped
<1>5. row \in Pair \cup {NoFriends, Friends} /\ ContactsTyped
  BY DEF ContactsInv, ContactsTyped
<1>6. CASE m \in {"friend_request", "friend_reject"}
  <2>1. /\ row' \in Pair \cup {NoFriends, Friends} /\ (row' = Friends <=> row = Friends)
        /\ unbacked' = unbacked
        /\ toUser' \in [Pair -> Seq(ToUser)] /\ missed \subseteq missed' /\ missed' \subseteq Pair
        /\ \A x \in Pair : From(toUser'[x], toUser[x], Changes)
    <3>1. CASE m = "friend_request"
      <4>1. row' = (IF row = NoFriends THEN c ELSE row) /\ unbacked' = unbacked /\ Notify(c, "friend_request")
        BY <3>1 DEF RelayHandles
      <4>2. "friend_request" \in ToUser /\ "friend_request" \notin Changes
        BY DEF ToUser, Changes
      <4> QED
        BY <1>1, <1>5, <4>1, <4>2, Notified
    <3>2. CASE m = "friend_reject"
      <4>1. row' = (IF row = d THEN NoFriends ELSE row) /\ UNCHANGED <<toUser, missed, unbacked>>
        BY <3>2 DEF RelayHandles
      <4>2. \A x \in Pair : From(toUser[x], toUser[x], Changes)
        BY <1>2, FromRules
      <4> QED
        BY <1>1, <1>5, <4>1, <4>2 DEF ContactsTyped
    <3> QED
      BY <1>6, <3>1, <3>2
  <2>2. ContactsTyped'
    BY <1>3, <1>4, <1>5, <2>1 DEF ContactsTyped
  <2>3. From(toRelay'[c], toRelay[c], Own) /\ From(toRelay'[d], toRelay[d], Own)
    <3>1. m \notin Own
      BY <1>6 DEF Own
    <3>2. From(Tail(toRelay[c]), toRelay[c], Own) /\ From(toRelay[d], toRelay[d], Own)
      BY <1>1, <1>2, <3>1, FromRules
    <3> QED
      BY <1>4, <3>2
  <2>4. Follows(c)' /\ Follows(d)'
    BY <1>1, <1>2, <1>3, <2>1, <2>3, FollowsStays
  <2> QED
    BY <1>1, <2>2, <2>4 DEF ContactsInv
<1>7. CASE m \in Own
  <2>1. PICK t \in Changes :
           /\ Notify(c, t) /\ (t = "friend_accepted" <=> m = "friend_accept")
           /\ row' \in Pair \cup {NoFriends, Friends} /\ unbacked' \in BOOLEAN /\ (unbacked => unbacked')
           /\ unbacked' \/ (row' = Friends <=> m = "friend_accept")
    <3>1. CASE m = "friend_accept"
      <4>1. /\ Notify(c, "friend_accepted") /\ row' = (IF row = d THEN Friends ELSE row)
            /\ unbacked' = (unbacked \/ row # d)
        BY <3>1 DEF RelayHandles
      <4> QED
        BY <1>1, <1>5, <3>1, <4>1 DEF Changes
    <3>2. CASE m = "friend_remove"
      <4>1. Notify(c, "friend_removed") /\ row' = NoFriends /\ unbacked' = unbacked
        BY <3>2 DEF RelayHandles
      <4> QED
        BY <1>1, <1>5, <3>2, <4>1 DEF Changes, ContactsTyped
    <3> QED
      BY <1>7, <3>1, <3>2 DEF Own
  <2>2. t \in ToUser
    BY DEF ToUser, Changes
  <2>3. /\ toUser' \in [Pair -> Seq(ToUser)] /\ missed \subseteq missed' /\ missed' \subseteq Pair
        /\ toUser'[c] = toUser[c]
        /\ here[d] => toUser'[d] = Append(toUser[d], t)
        /\ ~ here[d] => d \in missed'
        /\ ~ Without(toUser[c], Changes) => c \in missed'
    BY <1>5, <2>1, <2>2, Notified
  <2>4. ContactsTyped'
    BY <1>3, <1>4, <1>5, <2>1, <2>3 DEF ContactsTyped
  <2>5. Follows(c)'
    <3>1. CASE c \in missed' \/ unbacked'
      BY <3>1 DEF Follows
    <3>2. CASE c \notin missed' /\ ~ unbacked'
      <4>1. Settled(c) /\ Without(toUser[c], Changes)
        BY <1>2, <2>1, <2>3, <3>2 DEF Follows
      <4>2. /\ \A i \in Nat : Latest(Tail(toRelay[c]), Own, i) =>
                  /\ i + 1 \in Nat /\ Latest(toRelay[c], Own, i + 1)
                  /\ Tail(toRelay[c])[i] = toRelay[c][i + 1]
            /\ Without(Tail(toRelay[c]), Own) => Latest(toRelay[c], Own, 1) /\ toRelay[c][1] = m
        BY <1>2, <1>7, LatestTail
      <4>3. \A i \in Nat : ~ Latest(toUser'[c], Changes, i)
        BY <2>3, <4>1 DEF Without, Latest
      <4>4. ASSUME NEW i \in Nat, Latest(toRelay'[c], Own, i)
            PROVE  listed'[c] <=> toRelay'[c][i] = "friend_accept"
        BY <1>3, <1>4, <4>1, <4>2, <4>4 DEF Settled
      <4>5. ASSUME Without(toRelay'[c], Own) PROVE listed'[c] <=> row' = Friends
        BY <1>3, <1>4, <2>1, <3>2, <4>1, <4>2, <4>5 DEF Settled
      <4> QED
        BY <4>3, <4>4, <4>5 DEF Settled, Follows
    <3> QED
      BY <3>1, <3>2
  <2>6. Follows(d)'
    <3>1. CASE ~ here[d] \/ unbacked'
      BY <2>3, <3>1 DEF Follows
    <3>2. CASE here[d] /\ ~ unbacked'
      <4>1. /\ ~ Without(Append(toUser[d], t), Changes)
            /\ \A i \in Nat : Latest(Append(toUser[d], t), Changes, i) => Append(toUser[d], t)[i] = t
        BY <1>1, <1>2, <2>2, LatestAppend
      <4>2. row' = Friends <=> t = "friend_accepted"
        BY <2>1, <3>2
      <4>3. /\ ~ Without(toUser'[d], Changes)
            /\ \A i \in Nat : Latest(toUser'[d], Changes, i) =>
                                (row' = Friends <=> toUser'[d][i] = "friend_accepted")
        BY <2>3, <3>2, <4>1, <4>2
      <4> QED
        BY <4>3 DEF Settled, Follows
    <3> QED
      BY <3>1, <3>2
  <2> QED
    BY <1>1, <2>4, <2>5, <2>6 DEF ContactsInv
<1> QED
  BY <1>2, <1>6, <1>7 DEF ToRelay, Own

(***************************************************************************)
(* The theorems.                                                           *)
(***************************************************************************)

(* What is on its way to and from a desktop settles what it lists.  The    *)
(* last change on the way to it is what the friendship is; without one,    *)
(* the last of its own on the way to the relay is what it lists; without   *)
(* either, it lists the other exactly if they are friends.                 *)
THEOREM ContactsInvariant == ContactsSpec => []ContactsInv
<1>1. ContactsInv /\ [ContactsNext]_contactsVars => ContactsInv'
  <2> SUFFICES ASSUME ContactsInv, [ContactsNext]_contactsVars PROVE ContactsInv'
    OBVIOUS
  <2>1. CASE UNCHANGED contactsVars
    BY <2>1 DEF contactsVars, mail, ContactsInv, ContactsTyped, Follows, Settled
  <2>2. CASE ContactsNext
    <3>1. PICK c \in Pair :
             \/ AddContact(c) \/ removeContact(c) \/ Handle(c)
             \/ AnswerRequest(c, TRUE) \/ AnswerRequest(c, FALSE)
             \/ SignInHere(c) \/ DropHere(c) \/ RelayHandles(c)
      BY <2>2 DEF ContactsNext
    <3> QED
      BY <3>1, AddContactInv, OwnChangeInv, HandleInv, SignInHereInv, DropHereInv, RelayHandlesInv
  <2> QED
    BY <2>1, <2>2
<1> QED
  BY ContactsInitInv, <1>1, PTL DEF ContactsSpec

(* The relay's row and what the desktops list have their types.            *)
THEOREM ContactsTyping == ContactsSpec => []ContactsTypeOK
<1>1. ContactsInv => ContactsTypeOK
  BY DEF ContactsInv, ContactsTyped, ContactsTypeOK
<1> QED
  BY ContactsInvariant, <1>1, PTL

(* Once everything sent has arrived, a desktop lists the other user        *)
(* exactly if the relay has them as friends, unless something was lost.    *)
THEOREM ContactsAgree == ContactsSpec => []ContactsFollow
<1>1. ContactsInv => ContactsFollow
  <2> SUFFICES ASSUME ContactsInv, NEW c \in Pair,
                      \A d \in Pair : toRelay[d] = <<>> /\ toUser[d] = <<>>,
                      c \notin missed, ~ unbacked
               PROVE  listed[c] = (row = Friends)
    BY DEF ContactsFollow
  <2>1. Settled(c) /\ listed[c] \in BOOLEAN
    BY DEF ContactsInv, ContactsTyped, Follows
  <2>2. Without(toUser[c], Changes) /\ Without(toRelay[c], Own)
    BY DEF Without
  <2> QED
    BY <2>1, <2>2 DEF Settled
<1> QED
  BY ContactsInvariant, <1>1, PTL

(***************************************************************************)
(* The files, for any number of offers, files and chunks.  A frame does    *)
(* not say which file and which place in it it has, so the frames of a     *)
(* channel are labelled with that: frames follow one another as SendFile   *)
(* wrote them, up to where the channel was cut.                            *)
(***************************************************************************)
Label == [f : Nat \ {0}, n : Nat, p : Nat]
Frame(l) ==
    IF l.p = 0 THEN [kind |-> "HDR", name |-> l.f, size |-> l.n]
    ELSE IF l.p <= l.n THEN [kind |-> "D", chunk |-> <<l.f, l.p>>]
    ELSE [kind |-> "END"]

FileFrames == {Frame(l) : l \in Label}

Labels(w, L, s) ==
    /\ L \in Seq(Label) /\ w \in Seq(FileFrames) /\ Len(w) = Len(L)
    /\ \A i \in 1 .. Len(L) : w[i] = Frame(L[i]) /\ L[i].f <= s /\ L[i].p <= L[i].n + 1
    /\ \A i, j \in 1 .. Len(L) : i < j =>
          /\ L[i].f <= L[j].f
          /\ L[i].p = L[i].n + 1 => L[i].f < L[j].f
    /\ \A i, j \in 1 .. Len(L) : j = i + 1 =>
          IF L[i].p = L[i].n + 1 THEN L[j].p = 0
          ELSE L[j].f = L[i].f /\ L[j].n = L[i].n /\ L[j].p = L[i].p + 1

EndsWhole(L) == Len(L) > 0 => L[Len(L)].p = L[Len(L)].n + 1

(* The file being received is the part of one that its channel goes on     *)
(* with, and the files on the way are newer than those received.           *)
Part(f, n, k) == [name |-> f, size |-> n, data |-> [i \in 1 .. k |-> <<f, i>>]]
GoesOn(L, r, g) ==
    /\ Len(L) > 0 /\ L[1].p > 0 => r = Part(L[1].f, L[1].n, L[1].p - 1)
    /\ \A i \in 1 .. Len(L), j \in DOMAIN g : g[j].name < L[i].f

Received == [name : Nat, size : Nat, data : Seq(Nat \X Nat)]

ReceivedWhole(g) ==
    /\ \A i \in DOMAIN g : g[i] = File(g[i].name, g[i].size)
    /\ \A i, j \in DOMAIN g : i < j => g[i].name < g[j].name

CallsTyped ==
    /\ CallsTypeOK /\ MaxFiles \in Nat
    /\ \A c \in Offers : wire[c] # <<>> => call[c] \in {"open", "closed"}
    /\ rx \in Received /\ got \in Seq(Received)

CallsInv ==
    /\ CallsTyped /\ DOMAIN wire = Offers
    /\ \A c \in Offers : \E L : /\ Labels(wire[c], L, sent) /\ (call[c] = "open" => EndsWhole(L))
                                /\ ~ mixed => GoesOn(L, rx, got)
    /\ ~ mixed => ReceivedWhole(got) /\ \A j \in DOMAIN got : got[j].name <= sent

(***************************************************************************)
(* Lemmas.                                                                 *)
(***************************************************************************)

(* The frames left when the first has arrived, and those before a cut.     *)
LEMMA LabelsOfTail ==
    ASSUME NEW w, NEW L, NEW s \in Nat, Labels(w, L, s), w # <<>>
    PROVE  /\ Labels(Tail(w), Tail(L), s) /\ (EndsWhole(L) => EndsWhole(Tail(L)))
           /\ Len(L) > 0 /\ L[1] \in Label /\ Head(w) = Frame(L[1]) /\ L[1].f <= s /\ L[1].p <= L[1].n + 1
           /\ Len(Tail(L)) = Len(L) - 1 /\ \A i \in 1 .. Len(L) - 1 : Tail(L)[i] = L[i + 1]
<1>1. /\ L \in Seq(Label) /\ w \in Seq(FileFrames) /\ Len(w) = Len(L)
      /\ \A i \in 1 .. Len(L) : w[i] = Frame(L[i]) /\ L[i].f <= s /\ L[i].p <= L[i].n + 1
  BY DEF Labels
<1>2. Len(L) \in Nat /\ Len(L) > 0 /\ L # <<>> /\ 1 \in 1 .. Len(L) /\ L[1] \in Label
  BY <1>1
<1>3. /\ Tail(L) \in Seq(Label) /\ Len(Tail(L)) = Len(L) - 1
      /\ Tail(w) \in Seq(FileFrames) /\ Len(Tail(w)) = Len(L) - 1 /\ Head(w) = w[1]
      /\ \A i \in 1 .. Len(L) - 1 : Tail(L)[i] = L[i + 1] /\ Tail(w)[i] = w[i + 1] /\ i + 1 \in 1 .. Len(L)
  BY <1>1, <1>2
<1>4. Labels(Tail(w), Tail(L), s)
  BY <1>2, <1>3 DEF Labels
<1>5. EndsWhole(L) => EndsWhole(Tail(L))
  BY <1>2, <1>3 DEF EndsWhole
<1> QED
  BY <1>1, <1>2, <1>3, <1>4, <1>5

(* Frames cut short keep the labels of those that are left. *)
LEMMA LabelsOfCut ==
    ASSUME NEW w, NEW L, NEW s \in Nat, Labels(w, L, s), NEW n \in Nat, n <= Len(w)
    PROVE  /\ Labels(SubSeq(w, 1, n), SubSeq(L, 1, n), s)
           /\ Len(SubSeq(L, 1, n)) = n /\ n <= Len(L)
           /\ \A i \in 1 .. n : SubSeq(L, 1, n)[i] = L[i]
<1>1. /\ L \in Seq(Label) /\ w \in Seq(FileFrames) /\ Len(w) = Len(L) /\ Len(L) \in Nat
  BY DEF Labels
<1>2. /\ SubSeq(L, 1, n) \in Seq(Label) /\ Len(SubSeq(L, 1, n)) = n
      /\ SubSeq(w, 1, n) \in Seq(FileFrames) /\ Len(SubSeq(w, 1, n)) = n
      /\ \A i \in 1 .. n : SubSeq(L, 1, n)[i] = L[i] /\ SubSeq(w, 1, n)[i] = w[i] /\ i \in 1 .. Len(L)
  BY <1>1
<1>3. Labels(SubSeq(w, 1, n), SubSeq(L, 1, n), s)
  BY <1>1, <1>2 DEF Labels
<1> QED
  BY <1>1, <1>2, <1>3

(* A file is sent: its frames and, behind those on the way, their labels.  *)
LEMMA Joined ==
    ASSUME NEW T, NEW s \in Seq(T), NEW t \in Seq(T)
    PROVE  /\ s \o t \in Seq(T) /\ Len(s \o t) = Len(s) + Len(t)
           /\ \A i \in 1 .. Len(s) : (s \o t)[i] = s[i]
           /\ \A i \in 1 .. Len(t) : (s \o t)[Len(s) + i] = t[i]
OBVIOUS

(* A list, an element, a list and an element, joined. *)
LEMMA JoinedFour ==
    ASSUME NEW w \in Seq(FileFrames), NEW h \in FileFrames,
           NEW ds \in Seq(FileFrames), NEW e \in FileFrames
    PROVE  /\ w \o <<h>> \o ds \o <<e>> \in Seq(FileFrames)
           /\ Len(w \o <<h>> \o ds \o <<e>>) = Len(w) + Len(ds) + 2
           /\ \A i \in 1 .. Len(w) : (w \o <<h>> \o ds \o <<e>>)[i] = w[i]
           /\ (w \o <<h>> \o ds \o <<e>>)[Len(w) + 1] = h
           /\ \A i \in 1 .. Len(ds) : (w \o <<h>> \o ds \o <<e>>)[Len(w) + 1 + i] = ds[i]
           /\ (w \o <<h>> \o ds \o <<e>>)[Len(w) + Len(ds) + 2] = e
<1>1. /\ <<h>> \in Seq(FileFrames) /\ Len(<<h>>) = 1 /\ <<h>>[1] = h /\ <<e>> \in Seq(FileFrames) /\ Len(<<e>>) = 1 /\ <<e>>[1] = e
      /\ Len(w) \in Nat /\ Len(ds) \in Nat /\ 1 \in 1 .. 1
  OBVIOUS
<1>2. /\ w \o <<h>> \in Seq(FileFrames) /\ Len(w \o <<h>>) = Len(w) + 1
      /\ \A i \in 1 .. Len(w) : (w \o <<h>>)[i] = w[i]
      /\ (w \o <<h>>)[Len(w) + 1] = h
  <2>1. \A i \in 1 .. 1 : (w \o <<h>>)[Len(w) + i] = <<h>>[i]
    BY <1>1, Joined
  <2> QED
    BY <1>1, <2>1, Joined
<1>3. \E a \in Seq(FileFrames) : a = w \o <<h>>
  BY <1>2
<1>4. PICK a \in Seq(FileFrames) : a = w \o <<h>>
  BY <1>3
<1>5. /\ a \o ds \in Seq(FileFrames) /\ Len(a \o ds) = Len(w) + 1 + Len(ds)
      /\ \A i \in 1 .. Len(w) + 1 : (a \o ds)[i] = a[i]
      /\ \A i \in 1 .. Len(ds) : (a \o ds)[Len(w) + 1 + i] = ds[i]
  <2>1. Len(a) = Len(w) + 1
    BY <1>2, <1>4
  <2>2. /\ a \o ds \in Seq(FileFrames) /\ Len(a \o ds) = Len(a) + Len(ds)
        /\ \A i \in 1 .. Len(a) : (a \o ds)[i] = a[i]
        /\ \A i \in 1 .. Len(ds) : (a \o ds)[Len(a) + i] = ds[i]
    BY Joined
  <2> QED
    BY <2>1, <2>2
<1>6. PICK b \in Seq(FileFrames) : b = a \o ds
  BY <1>5
<1>7. /\ b \o <<e>> \in Seq(FileFrames) /\ Len(b \o <<e>>) = Len(w) + Len(ds) + 2
      /\ \A i \in 1 .. Len(w) + 1 + Len(ds) : (b \o <<e>>)[i] = b[i]
      /\ (b \o <<e>>)[Len(w) + Len(ds) + 2] = e
  <2>1. Len(b) = Len(w) + 1 + Len(ds)
    BY <1>5, <1>6
  <2>2. /\ b \o <<e>> \in Seq(FileFrames) /\ Len(b \o <<e>>) = Len(b) + Len(<<e>>)
        /\ \A i \in 1 .. Len(b) : (b \o <<e>>)[i] = b[i]
        /\ \A i \in 1 .. Len(<<e>>) : (b \o <<e>>)[Len(b) + i] = <<e>>[i]
    BY <1>1, Joined
  <2>3. (b \o <<e>>)[Len(b) + 1] = e
    BY <1>1, <2>2
  <2>4. Len(b) + 1 = Len(w) + Len(ds) + 2
    BY <1>1, <2>1
  <2> QED
    BY <1>1, <2>1, <2>2, <2>3, <2>4
<1>8. /\ \A i \in 1 .. Len(w) : i \in 1 .. Len(w) + 1 /\ i \in 1 .. Len(w) + 1 + Len(ds)
      /\ Len(w) + 1 \in 1 .. Len(w) + 1 /\ Len(w) + 1 \in 1 .. Len(w) + 1 + Len(ds)
      /\ \A i \in 1 .. Len(ds) : Len(w) + 1 + i \in 1 .. Len(w) + 1 + Len(ds)
  BY <1>1
<1>9. w \o <<h>> \o ds \o <<e>> = b \o <<e>>
  BY <1>4, <1>6
<1>10. \A i \in 1 .. Len(w) : (b \o <<e>>)[i] = w[i]
  BY <1>2, <1>4, <1>5, <1>6, <1>7, <1>8
<1>11. (b \o <<e>>)[Len(w) + 1] = h
  BY <1>2, <1>4, <1>5, <1>6, <1>7, <1>8
<1>12. \A i \in 1 .. Len(ds) : (b \o <<e>>)[Len(w) + 1 + i] = ds[i]
  BY <1>5, <1>6, <1>7, <1>8
<1> QED
  BY <1>7, <1>9, <1>10, <1>11, <1>12

Behind(K, L, s, n) ==
    /\ K \in Seq(Label) /\ Len(K) = Len(L) + n + 2
    /\ \A i \in 1 .. Len(L) : K[i] = L[i]
    /\ \A i \in 1 .. Len(L) + n + 2 :
          i > Len(L) => K[i].f = s + 1 /\ K[i].n = n /\ K[i].p = i - Len(L) - 1

Framed(v, K) ==
    v \in Seq(FileFrames) /\ Len(v) = Len(K) /\ \A i \in 1 .. Len(K) : v[i] = Frame(K[i])

(* A file sent behind labelled frames is labelled with the next name. *)
LEMMA LabelsOfSent ==
    ASSUME NEW w, NEW L, NEW s \in Nat, Labels(w, L, s), EndsWhole(L), NEW n \in Nat,
           NEW K, Behind(K, L, s, n), NEW v, Framed(v, K)
    PROVE  Labels(v, K, s + 1) /\ EndsWhole(K)
<1> USE DEF Behind, Framed
<1>1. PICK len \in Nat : len = Len(L)
  BY DEF Labels
<1>2. PICK N \in Nat : N = len + n + 2
  OBVIOUS
<1>3. /\ \A i \in 1 .. len : /\ K[i] = L[i] /\ L[i].f <= s /\ L[i].p <= L[i].n + 1
                             /\ L[i].f \in Nat /\ L[i].n \in Nat /\ L[i].p \in Nat
      /\ \A i, j \in 1 .. len : i < j => L[i].f <= L[j].f /\ (L[i].p = L[i].n + 1 => L[i].f < L[j].f)
      /\ \A i, j \in 1 .. len : j = i + 1 =>
            IF L[i].p = L[i].n + 1 THEN L[j].p = 0
            ELSE L[j].f = L[i].f /\ L[j].n = L[i].n /\ L[j].p = L[i].p + 1
      /\ len > 0 => L[len].p = L[len].n + 1
  <2>1. /\ \A i \in 1 .. len : L[i].f <= s /\ L[i].p <= L[i].n + 1
        /\ \A i, j \in 1 .. len : i < j => L[i].f <= L[j].f /\ (L[i].p = L[i].n + 1 => L[i].f < L[j].f)
        /\ \A i, j \in 1 .. len : j = i + 1 =>
              IF L[i].p = L[i].n + 1 THEN L[j].p = 0
              ELSE L[j].f = L[i].f /\ L[j].n = L[i].n /\ L[j].p = L[i].p + 1
        /\ L \in Seq(Label)
    BY <1>1 DEF Labels
  <2>2. \A i \in 1 .. len : L[i] \in Label
    BY <1>1, <2>1
  <2>3. \A i \in 1 .. len : L[i].f \in Nat /\ L[i].n \in Nat /\ L[i].p \in Nat
    BY <2>2 DEF Label
  <2>4. len > 0 => L[len].p = L[len].n + 1
    BY <1>1 DEF EndsWhole
  <2>5. \A i \in 1 .. len : K[i] = L[i]
    BY <1>1
  <2> QED
    BY <2>1, <2>3, <2>4, <2>5
<1>4. \A i \in 1 .. N : i > len => K[i].f = s + 1 /\ K[i].n = n /\ K[i].p = i - len - 1
  BY <1>1, <1>2
<1>5. Len(K) = N /\ \A i \in 1 .. N : i \in 1 .. len \/ i > len
  BY <1>1, <1>2
<1>6. ASSUME NEW i \in 1 .. N
      PROVE  K[i].f <= s + 1 /\ K[i].p <= K[i].n + 1
  <2>1. CASE i \in 1 .. len
    <3>1. K[i] = L[i] /\ L[i].f <= s /\ L[i].p <= L[i].n + 1 /\ L[i].f \in Nat
      BY <1>3, <2>1
    <3> QED
      BY <3>1
  <2>2. CASE i > len
    <3>1. K[i].f = s + 1 /\ K[i].n = n /\ K[i].p = i - len - 1
      BY <1>4, <2>2
    <3> QED
      BY <1>2, <3>1
  <2> QED
    BY <1>5, <2>1, <2>2
<1>7. ASSUME NEW i \in 1 .. N, NEW j \in 1 .. N, i < j
      PROVE  K[i].f <= K[j].f /\ (K[i].p = K[i].n + 1 => K[i].f < K[j].f)
  <2>1. CASE i \in 1 .. len /\ j \in 1 .. len
    BY <1>3, <1>7, <2>1
  <2>2. CASE i \in 1 .. len /\ j > len
    <3>1. K[i].f <= s /\ K[i].f \in Nat /\ K[j].f = s + 1
      BY <1>3, <1>4, <2>2
    <3> QED
      BY <3>1
  <2>3. CASE i > len
    <3>1. j > len
      BY <1>7, <2>3
    <3>2. K[i].f = s + 1 /\ K[j].f = s + 1 /\ K[i].p = i - len - 1 /\ K[i].n = n
      BY <1>4, <2>3, <3>1
    <3>3. K[i].p # K[i].n + 1
      BY <1>2, <1>7, <3>2, SMTT(30)
    <3> QED
      BY <3>2, <3>3
  <2> QED
    BY <1>5, <2>1, <2>2, <2>3
<1>8. ASSUME NEW i \in 1 .. N, NEW j \in 1 .. N, j = i + 1
      PROVE  IF K[i].p = K[i].n + 1 THEN K[j].p = 0
             ELSE K[j].f = K[i].f /\ K[j].n = K[i].n /\ K[j].p = K[i].p + 1
  <2>1. CASE i \in 1 .. len /\ j \in 1 .. len
    <3>1. K[i] = L[i] /\ K[j] = L[j]
      BY <1>3, <2>1
    <3>2. IF L[i].p = L[i].n + 1 THEN L[j].p = 0
          ELSE L[j].f = L[i].f /\ L[j].n = L[i].n /\ L[j].p = L[i].p + 1
      BY <1>3, <1>8, <2>1
    <3> QED
      BY <3>1, <3>2
  <2>2. CASE i \in 1 .. len /\ j > len
    <3>1. i = len /\ j = len + 1
      BY <1>8, <2>2
    <3>2. K[i].p = K[i].n + 1
      BY <1>3, <2>2, <3>1
    <3>3. K[j].p = 0
      BY <1>4, <2>2, <3>1
    <3> QED
      BY <3>2, <3>3
  <2>3. CASE i > len
    <3>1. j > len
      BY <1>8, <2>3
    <3>2. /\ K[i].f = s + 1 /\ K[i].n = n /\ K[i].p = i - len - 1
          /\ K[j].f = s + 1 /\ K[j].n = n /\ K[j].p = j - len - 1
      BY <1>4, <2>3, <3>1
    <3>3. K[i].p # K[i].n + 1 /\ K[j].p = K[i].p + 1
      BY <1>2, <1>8, <3>2
    <3> QED
      BY <3>2, <3>3
  <2> QED
    BY <1>5, <2>1, <2>2, <2>3
<1>9. Labels(v, K, s + 1)
  BY <1>5, <1>6, <1>7, <1>8 DEF Labels
<1>10. EndsWhole(K)
  <2>1. N \in 1 .. N /\ N > len /\ K[N].p = n + 1 /\ K[N].n = n
    BY <1>2, <1>4
  <2> QED
    BY <1>5, <2>1 DEF EndsWhole
<1> QED
  BY <1>9, <1>10

(* The label of the p-th frame of file f, which has n chunks, and that     *)
(* frame.                                                                  *)
At(f, n, p) == [f |-> f, n |-> n, p |-> p]

(* The frame of a label, by its place in the file. *)
LEMMA FrameAt ==
    ASSUME NEW f \in Nat \ {0}, NEW n \in Nat, NEW p \in Nat
    PROVE  /\ At(f, n, p) \in Label /\ Frame(At(f, n, p)) \in FileFrames
           /\ At(f, n, p).f = f /\ At(f, n, p).n = n /\ At(f, n, p).p = p
           /\ p = 0 => Frame(At(f, n, p)) = [kind |-> "HDR", name |-> f, size |-> n]
           /\ p > 0 /\ p <= n => Frame(At(f, n, p)) = [kind |-> "D", chunk |-> <<f, p>>]
           /\ p = n + 1 => Frame(At(f, n, p)) = [kind |-> "END"]
<1>1. /\ At(f, n, p).f = f /\ At(f, n, p).n = n /\ At(f, n, p).p = p
  BY DEF At
<1>2. At(f, n, p) \in Label
  BY DEF At, Label
<1>3. Frame(At(f, n, p)) \in FileFrames
  BY <1>2 DEF FileFrames
<1>4. p = 0 => Frame(At(f, n, p)) = [kind |-> "HDR", name |-> f, size |-> n]
  BY <1>1 DEF Frame
<1>5. p > 0 /\ p <= n => Frame(At(f, n, p)) = [kind |-> "D", chunk |-> <<f, p>>]
  BY <1>1 DEF Frame
<1>6. p = n + 1 => Frame(At(f, n, p)) = [kind |-> "END"]
  <2>1. ASSUME p = n + 1 PROVE p # 0 /\ ~ (p <= n)
    BY <2>1
  <2> QED
    BY <1>1, <2>1 DEF Frame
<1> QED
  BY <1>1, <1>2, <1>3, <1>4, <1>5, <1>6

(* The frame of a chunk. *)
LEMMA FrameOfChunk ==
    ASSUME NEW f \in Nat \ {0}, NEW n \in Nat, NEW p \in 1 .. n
    PROVE  Frame(At(f, n, p)) = [kind |-> "D", chunk |-> <<f, p>>]
<1>1. p \in Nat /\ p > 0 /\ p <= n
  OBVIOUS
<1>2. p > 0 /\ p <= n => Frame(At(f, n, p)) = [kind |-> "D", chunk |-> <<f, p>>]
  BY <1>1, FrameAt
<1> QED
  BY <1>1, <1>2

WithFile(w, f, n) ==
    w \o <<[kind |-> "HDR", name |-> f, size |-> n]>>
      \o [i \in 1 .. n |-> [kind |-> "D", chunk |-> <<f, i>>]]
      \o <<[kind |-> "END"]>>

Lengthened(K, L, f) ==
    /\ EndsWhole(K) /\ Len(K) \in Nat \ {0}
    /\ Len(L) = 0 => K[1].p = 0
    /\ Len(L) > 0 => K[1] = L[1]
    /\ \A i \in 1 .. Len(K) : K[i].f = f \/ (i \in 1 .. Len(L) /\ K[i] = L[i])

(* What SendFile appends are the frames of the labels of one file. *)
LEMMA FramesOfSent ==
    ASSUME NEW w, NEW L, NEW s \in Nat, Labels(w, L, s), EndsWhole(L), NEW n \in Nat, NEW f \in Nat \ {0}, f = s + 1
    PROVE  \E K : Labels(WithFile(w, f, n), K, f) /\ Lengthened(K, L, f)
<1>1. PICK len \in Nat : len = Len(L) /\ len = Len(w) /\ L \in Seq(Label) /\ w \in Seq(FileFrames)
  BY DEF Labels
<1>2. PICK N \in Nat : N = len + n + 2
  OBVIOUS
<1>3. n + 1 \in Nat
  OBVIOUS
<1>4. \A p \in Nat : LET l == At(f, n, p) IN
         l \in Label /\ l.f = f /\ l.n = n /\ l.p = p /\ Frame(l) \in FileFrames
  BY <1>3, FrameAt
<1>5. PICK hdr, ds, end :
         /\ hdr = [kind |-> "HDR", name |-> f, size |-> n]
         /\ ds = [i \in 1 .. n |-> [kind |-> "D", chunk |-> <<f, i>>]]
         /\ end = [kind |-> "END"]
  OBVIOUS
<1>6. hdr = Frame(At(f, n, 0)) /\ end = Frame(At(f, n, n + 1))
  BY <1>3, <1>5, FrameAt
<1>7. ASSUME NEW i \in 1 .. n PROVE ds[i] = Frame(At(f, n, i)) /\ ds[i] \in FileFrames
  <2>1. i \in Nat /\ i > 0 /\ i <= n /\ ds[i] = [kind |-> "D", chunk |-> <<f, i>>]
    BY <1>5
  <2>2. Frame(At(f, n, i)) = [kind |-> "D", chunk |-> <<f, i>>]
    BY FrameOfChunk
  <2> QED
    BY <1>4, <2>1, <2>2
<1>8. ds \in Seq(FileFrames) /\ Len(ds) = n /\ hdr \in FileFrames /\ end \in FileFrames
  <2>1. hdr \in FileFrames /\ end \in FileFrames
    BY <1>3, <1>4, <1>6
  <2> QED
    BY <1>5, <1>7, <2>1
<1>9. PICK v : v = w \o <<hdr>> \o ds \o <<end>>
  OBVIOUS
<1>10. /\ v \in Seq(FileFrames) /\ Len(v) = N
       /\ \A i \in 1 .. len : v[i] = w[i]
       /\ v[len + 1] = hdr /\ v[N] = end
       /\ \A i \in 1 .. n : v[len + 1 + i] = ds[i]
  <2> DEFINE u == w \o <<hdr>> \o ds \o <<end>>
  <2>1. /\ u \in Seq(FileFrames) /\ Len(u) = Len(w) + Len(ds) + 2
        /\ \A i \in 1 .. Len(w) : u[i] = w[i]
        /\ u[Len(w) + 1] = hdr /\ u[Len(w) + Len(ds) + 2] = end
        /\ \A i \in 1 .. Len(ds) : u[Len(w) + 1 + i] = ds[i]
    <3>1. w \in Seq(FileFrames) /\ ds \in Seq(FileFrames) /\ hdr \in FileFrames /\ end \in FileFrames
      BY <1>1, <1>8
    <3> QED
      BY <3>1, JoinedFour
  <2> HIDE DEF u
  <2>2. v = u
    BY <1>9 DEF u
  <2> QED
    BY <1>1, <1>2, <1>8, <2>1, <2>2
<1>11. PICK K : K = [i \in 1 .. N |-> IF i <= len THEN L[i] ELSE At(f, n, i - len - 1)]
  OBVIOUS
<1>12. ASSUME NEW i \in 1 .. len PROVE i \in 1 .. N /\ K[i] = L[i] /\ L[i] \in Label
  <2>1. i \in 1 .. N /\ i <= len
    BY <1>1, <1>2
  <2>2. K[i] = L[i]
    BY <1>11, <2>1
  <2>3. L[i] \in Label
    <3>1. i \in 1 .. Len(L) /\ L \in Seq(Label)
      BY <1>1
    <3> QED
      BY <3>1
  <2> QED
    BY <2>1, <2>2, <2>3
<1>13. ASSUME NEW i \in 1 .. N, i > len PROVE i - len - 1 \in Nat /\ K[i] = At(f, n, i - len - 1)
  BY <1>1, <1>2, <1>11, <1>13
<1>14. \A i \in 1 .. N : i \in 1 .. len \/ i > len
  BY <1>1, <1>2
<1>15. K \in Seq(Label) /\ Len(K) = N
  <2>1. \A i \in 1 .. N : K[i] \in Label
    BY <1>4, <1>12, <1>13, <1>14
  <2> QED
    BY <1>2, <1>11, <2>1
<1>16. ASSUME NEW i \in 1 .. N PROVE v[i] = Frame(K[i])
  <2>1. CASE i \in 1 .. len
    BY <1>1, <1>10, <1>12, <2>1 DEF Labels
  <2>2. CASE i = len + 1
    <3>1. K[i] = At(f, n, 0)
      BY <1>1, <1>13, <2>2
    <3> QED
      BY <1>6, <1>10, <2>2, <3>1
  <2>3. CASE i = N
    <3>1. K[i] = At(f, n, n + 1)
      BY <1>1, <1>2, <1>13, <2>3
    <3> QED
      BY <1>6, <1>10, <2>3, <3>1
  <2>4. CASE i > len + 1 /\ i < N
    <3>1. i - len - 1 \in 1 .. n /\ i = len + 1 + (i - len - 1)
      BY <1>1, <1>2, <2>4
    <3>2. PICK j \in 1 .. n : i = len + 1 + j /\ j = i - len - 1
      BY <3>1
    <3>3. K[i] = At(f, n, j)
      BY <1>1, <1>13, <2>4, <3>2
    <3> QED
      BY <1>7, <1>10, <3>2, <3>3
  <2> QED
    BY <1>1, <1>2, <2>1, <2>2, <2>3, <2>4
<1>17. \A i \in 1 .. N : i > len => K[i].f = f /\ K[i].n = n /\ K[i].p = i - len - 1
  BY <1>4, <1>13
<1>18. Labels(v, K, f) /\ EndsWhole(K)
  <2>1. Behind(K, L, s, n)
    BY <1>1, <1>2, <1>12, <1>15, <1>17 DEF Behind
  <2>2. Framed(v, K)
    BY <1>10, <1>15, <1>16 DEF Framed
  <2> QED
    BY <2>1, <2>2, LabelsOfSent
<1>19. N \in Nat \ {0} /\ 1 \in 1 .. N
  BY <1>1, <1>2
<1>20. (len = 0 => K[1].p = 0) /\ (len > 0 => K[1] = L[1])
  BY <1>1, <1>12, <1>17, <1>19
<1>21. \A i \in 1 .. N : K[i].f = f \/ (i \in 1 .. len /\ K[i] = L[i])
  BY <1>12, <1>14, <1>17
<1>22. v = WithFile(w, f, n)
  BY <1>5, <1>9 DEF WithFile
<1> QED
  BY <1>1, <1>15, <1>18, <1>19, <1>20, <1>21, <1>22 DEF Lengthened

(***************************************************************************)
(* The steps.                                                              *)
(***************************************************************************)
LEMMA CallsInitInv == CallsInit => CallsInv
<1> SUFFICES ASSUME CallsInit PROVE CallsInv
  OBVIOUS
<1>1. Labels(<<>>, <<>>, 0) /\ EndsWhole(<<>>) /\ GoesOn(<<>>, rx, got)
  BY DEF Labels, EndsWhole, GoesOn
<1>2. CallsTyped
  <2>1. NoRx \in Received /\ <<>> \in Seq(Received)
    BY DEF NoRx, Received
  <2>2. CallsTypeOK /\ MaxFiles \in Nat
    <3>1. rx.name = 0 /\ sent = 0
      BY DEF CallsInit, NoRx
    <3>2. MaxFiles \in Nat
      BY CallsAssumption DEF CallsAssumption
    <3>3. rx.name \in 0 .. sent /\ sent \in 0 .. MaxFiles
      BY <3>1, <3>2
    <3> QED
      BY <3>2, <3>3 DEF CallsInit, CallsTypeOK
  <2> QED
    BY <2>1, <2>2 DEF CallsInit, CallsTyped
<1>3. ReceivedWhole(got) /\ \A i \in DOMAIN got : got[i].name <= sent
  BY DEF CallsInit, ReceivedWhole
<1> QED
  BY <1>1, <1>2, <1>3 DEF CallsInit, CallsInv

(* A step that moves no frame.                                             *)
LEMMA QuietInv ==
    ASSUME CallsInv, UNCHANGED <<wire, rx, sent, got, mixed>>, CallsTypeOK',
           \A c \in Offers : wire[c] # <<>> => call'[c] \in {"open", "closed"},
           \A c \in Offers : call'[c] = "open" => call[c] = "open" \/ wire[c] = <<>>
    PROVE  CallsInv'
<1>1. ASSUME NEW c \in Offers
      PROVE  \E L : /\ Labels(wire[c], L, sent) /\ (call'[c] = "open" => EndsWhole(L))
                    /\ ~ mixed => GoesOn(L, rx, got)
  <2>1. PICK L : /\ Labels(wire[c], L, sent) /\ (call[c] = "open" => EndsWhole(L))
                 /\ ~ mixed => GoesOn(L, rx, got)
    BY DEF CallsInv
  <2>2. wire[c] = <<>> => EndsWhole(L)
    BY <2>1 DEF Labels, EndsWhole
  <2> QED
    BY <2>1, <2>2
<1>2. CallsTyped'
  BY DEF CallsInv, CallsTyped
<1> QED
  BY <1>1, <1>2 DEF CallsInv

LEMMA CallingInv ==
    ASSUME CallsInv, NEW c \in Offers,
           \/ StartCall \/ CloseCallWindow \/ CallOffer(c) \/ HandleOffer(c) \/ RejectCall(c)
           \/ ChannelOpens(c) \/ setupDataChannel(c)
    PROVE  CallsInv'
<1>1. CallsTypeOK /\ \A d \in Offers : wire[d] # <<>> => call[d] \in {"open", "closed"}
  BY DEF CallsInv, CallsTyped
<1>2. CASE \/ CallOffer(c) \/ HandleOffer(c) \/ RejectCall(c) \/ ChannelOpens(c)
  <2>1. PICK from, to : /\ call[c] = from /\ call' = [call EXCEPT ![c] = to]
                        /\ from \in {"none", "offered", "answered"}
                        /\ to \in {"offered", "answered", "open", "closed"}
                        /\ UNCHANGED <<wired, wire, stuck, rx, sent, got, mixed>> /\ window' \in BOOLEAN
    BY <1>1, <1>2 DEF CallOffer, HandleOffer, RejectCall, ChannelOpens, OnAnswer, Move, CallsTypeOK
  <2>2. wire[c] = <<>>
    BY <1>1, <2>1
  <2>3. CallsTypeOK'
    BY <1>1, <2>1 DEF CallsTypeOK
  <2> QED
    BY <1>1, <2>1, <2>2, <2>3, QuietInv DEF CallsTypeOK
<1>3. CASE StartCall \/ CloseCallWindow \/ setupDataChannel(c)
  <2>1. UNCHANGED <<call, wire, rx, sent, got, mixed>>
    BY <1>3 DEF StartCall, CloseCallWindow, setupDataChannel
  <2>2. CallsTypeOK'
    BY <1>1, <1>3 DEF StartCall, CreateOffer, CloseCallWindow, setupDataChannel, CallsTypeOK
  <2> QED
    BY <1>1, <2>1, <2>2, QuietInv
<1> QED
  BY <1>2, <1>3

(* What is cut off was the end of it. *)
LEMMA ChannelClosesInv ==
    ASSUME CallsInv, NEW c \in Offers, NEW n \in Nat, ChannelCloses(c, n)
    PROVE  CallsInv'
<1>1. /\ CallsTypeOK /\ DOMAIN wire = Offers /\ n <= Len(wire[c]) /\ sent \in Nat
      /\ call' = [call EXCEPT ![c] = "closed"] /\ wire' = [wire EXCEPT ![c] = SubSeq(@, 1, n)]
      /\ UNCHANGED <<wired, window, stuck, rx, sent, got, mixed>>
  BY CallsAssumption DEF CallsAssumption, CallsInv, CallsTyped, CallsTypeOK, ChannelCloses, Move
<1>2. /\ wire'[c] = SubSeq(wire[c], 1, n) /\ call'[c] = "closed" /\ DOMAIN wire' = Offers
      /\ \A d \in Offers \ {c} : wire'[d] = wire[d] /\ call'[d] = call[d]
  BY <1>1 DEF CallsTypeOK
<1>3. CallsTypeOK'
  BY <1>1 DEF CallsTypeOK
<1>4. CallsTyped'
  BY <1>1, <1>2, <1>3 DEF CallsInv, CallsTyped
<1>5. ASSUME NEW d \in Offers
      PROVE  \E L : /\ Labels(wire'[d], L, sent) /\ (call'[d] = "open" => EndsWhole(L))
                    /\ ~ mixed => GoesOn(L, rx, got)
  <2>1. PICK L : /\ Labels(wire[d], L, sent) /\ (call[d] = "open" => EndsWhole(L))
                 /\ ~ mixed => GoesOn(L, rx, got)
    BY DEF CallsInv
  <2>2. CASE d # c
    BY <1>2, <2>1, <2>2
  <2>3. CASE d = c
    <3>1. PICK K : K = SubSeq(L, 1, n)
      OBVIOUS
    <3>2. /\ Labels(wire'[d], K, sent) /\ Len(K) = n /\ n <= Len(L)
          /\ \A i \in 1 .. n : K[i] = L[i]
      BY <1>1, <1>2, <2>1, <2>3, <3>1, LabelsOfCut
    <3>3. Len(L) \in Nat /\ \A i \in 1 .. n : i \in 1 .. Len(L)
      BY <2>1, <3>2 DEF Labels
    <3>4. GoesOn(L, rx, got) => GoesOn(K, rx, got)
      BY <3>2, <3>3 DEF GoesOn
    <3> QED
      BY <1>2, <2>1, <2>3, <3>2, <3>4
  <2> QED
    BY <2>2, <2>3
<1> QED
  BY <1>1, <1>2, <1>4, <1>5 DEF CallsInv

(* A new file goes behind whatever is on the way. *)
LEMMA SendFileInv ==
    ASSUME CallsInv, NEW c \in Offers, NEW n \in Nat, SendFile(c, n)
    PROVE  CallsInv'
<1>1. /\ CallsTypeOK /\ DOMAIN wire = Offers /\ sent \in Nat /\ sent' = sent + 1 /\ sent < MaxFiles /\ MaxFiles \in Nat
      /\ call[c] = "open"
      /\ wire' = [wire EXCEPT ![c] = WithFile(wire[c], sent + 1, n)]
      /\ UNCHANGED <<call, wired, window, stuck, rx, got, mixed>>
  BY DEF CallsInv, CallsTyped, CallsTypeOK, SendFile, WithFile
<1>2. DOMAIN wire' = Offers /\ \A d \in Offers \ {c} : wire'[d] = wire[d]
  BY <1>1
<1>3. CallsTypeOK'
  <2>1. sent' \in 0 .. MaxFiles /\ rx.name \in 0 .. sent'
    BY <1>1 DEF CallsTypeOK
  <2> QED
    BY <1>1, <2>1 DEF CallsTypeOK
<1>4. CallsTyped'
  BY <1>1, <1>2, <1>3 DEF CallsInv, CallsTyped
<1>5. ASSUME ~ mixed, NEW j \in DOMAIN got PROVE got[j].name \in Nat /\ got[j].name < sent + 1
  <2>1. got \in Seq(Received) /\ got[j].name <= sent
    BY <1>5 DEF CallsInv, CallsTyped
  <2>2. got[j] \in Received
    BY <2>1
  <2> QED
    BY <1>1, <2>1, <2>2 DEF Received
<1>6. ASSUME NEW d \in Offers, d # c
      PROVE  \E L : /\ Labels(wire'[d], L, sent + 1) /\ (call'[d] = "open" => EndsWhole(L))
                    /\ ~ mixed => GoesOn(L, rx, got)
  <2>1. PICK L : /\ Labels(wire[d], L, sent) /\ (call[d] = "open" => EndsWhole(L))
                 /\ ~ mixed => GoesOn(L, rx, got)
    BY DEF CallsInv
  <2>2. Labels(wire[d], L, sent + 1)
    <3>1. \A i \in 1 .. Len(L) : L[i] \in Label /\ L[i].f <= sent
      BY <2>1 DEF Labels
    <3>2. \A i \in 1 .. Len(L) : L[i].f \in Nat
      BY <3>1 DEF Label
    <3>3. \A i \in 1 .. Len(L) : L[i].f <= sent + 1
      BY <1>1, <3>1, <3>2
    <3> QED
      BY <2>1, <3>3 DEF Labels
  <2> QED
    BY <1>1, <1>2, <1>6, <2>1, <2>2
<1>7. \E K : Labels(wire'[c], K, sent + 1) /\ EndsWhole(K) /\ (~ mixed => GoesOn(K, rx, got))
  <2>1. PICK L : Labels(wire[c], L, sent) /\ EndsWhole(L) /\ (~ mixed => GoesOn(L, rx, got))
    BY <1>1 DEF CallsInv
  <2>2. PICK v : v = WithFile(wire[c], sent + 1, n)
    OBVIOUS
  <2>3. wire'[c] = v
    BY <1>1, <2>2
  <2>4. PICK K : Labels(v, K, sent + 1) /\ Lengthened(K, L, sent + 1)
    <3>1. PICK f \in Nat \ {0} : f = sent + 1
      BY <1>1
    <3>2. v = WithFile(wire[c], f, n)
      BY <2>2, <3>1
    <3>3. \E K : Labels(WithFile(wire[c], f, n), K, f) /\ Lengthened(K, L, f)
      BY <1>1, <2>1, <3>1, FramesOfSent
    <3> QED
      BY <3>1, <3>2, <3>3
  <2>5. ASSUME ~ mixed PROVE GoesOn(K, rx, got)
    <3>1. ASSUME NEW i \in 1 .. Len(K), NEW j \in DOMAIN got PROVE got[j].name < K[i].f
      <4>1. CASE K[i].f = sent + 1
        BY <1>5, <2>5, <4>1
      <4>2. CASE i \in 1 .. Len(L) /\ K[i] = L[i]
        BY <2>1, <2>5, <4>2 DEF GoesOn
      <4> QED
        BY <2>4, <4>1, <4>2 DEF Lengthened
    <3>2. ASSUME K[1].p > 0 PROVE rx = Part(K[1].f, K[1].n, K[1].p - 1)
      <4>1. Len(L) \in Nat
        BY <2>1 DEF Labels
      <4>2. Len(L) > 0 /\ K[1] = L[1]
        BY <2>4, <3>2, <4>1 DEF Lengthened
      <4> QED
        BY <2>1, <2>5, <3>2, <4>2 DEF GoesOn
    <3> QED
      BY <3>1, <3>2 DEF GoesOn
  <2> QED
    BY <2>1, <2>3, <2>4, <2>5 DEF Lengthened
<1>8. ~ mixed => ReceivedWhole(got) /\ \A j \in DOMAIN got : got[j].name <= sent + 1
  BY <1>1, <1>5 DEF CallsInv
<1>9. ASSUME NEW d \in Offers
      PROVE  \E L : /\ Labels(wire'[d], L, sent + 1) /\ (call'[d] = "open" => EndsWhole(L))
                    /\ ~ mixed => GoesOn(L, rx, got)
  BY <1>6, <1>7
<1> QED
  BY <1>1, <1>2, <1>4, <1>8, <1>9 DEF CallsInv

(* A part of a file, one chunk later; the part without a chunk. *)
LEMMA PartIs ==
    ASSUME NEW f \in Nat, NEW n \in Nat, NEW k \in Nat
    PROVE  Part(f, n, k) \in Received /\ Part(f, n, k).name = f /\ Part(f, n, k).size = n
<1>1. [i \in 1 .. k |-> <<f, i>>] \in Seq(Nat \X Nat)
  OBVIOUS
<1> QED
  BY <1>1 DEF Part, Received

(* A chunk appended keeps the name of the file received. *)
LEMMA ReceivedGrows ==
    ASSUME NEW r \in Received, NEW x \in Nat \X Nat
    PROVE  [r EXCEPT !.data = Append(@, x)] \in Received /\ [r EXCEPT !.data = Append(@, x)].name = r.name
<1>1. Append(r.data, x) \in Seq(Nat \X Nat)
  BY DEF Received
<1>2. PICK d \in Seq(Nat \X Nat) : d = Append(r.data, x)
  BY <1>1
<1>3. [r EXCEPT !.data = d] \in Received /\ [r EXCEPT !.data = d].name = r.name
  BY DEF Received
<1> QED
  BY <1>2, <1>3

(* A part and the next chunk are the next part. *)
LEMMA PartGrows ==
    ASSUME NEW f \in Nat, NEW n \in Nat, NEW p \in Nat \ {0}, NEW r, r = Part(f, n, p - 1)
    PROVE  [r EXCEPT !.data = Append(@, <<f, p>>)] = Part(f, n, p)
<1>1. PICK a : a = [i \in 1 .. p - 1 |-> <<f, i>>]
  OBVIOUS
<1>2. PICK b : b = [i \in 1 .. p |-> <<f, i>>]
  OBVIOUS
<1>3. /\ a \in Seq(Nat \X Nat) /\ Len(a) = p - 1 /\ \A i \in 1 .. p - 1 : a[i] = <<f, i>>
      /\ b \in Seq(Nat \X Nat) /\ Len(b) = p /\ \A i \in 1 .. p : b[i] = <<f, i>>
  BY <1>1, <1>2
<1>4. Append(a, <<f, p>>) = b
  <2>1. /\ \E m \in Nat : m = p - 1 /\ p = m + 1
        /\ <<f, p>> \in Nat \X Nat
    OBVIOUS
  <2>2. PICK m \in Nat : m = p - 1 /\ p = m + 1
    BY <2>1
  <2>3. PICK x \in Nat \X Nat : x = <<f, p>>
    BY <2>1
  <2>4. \A i \in 1 .. p : i \in 1 .. m \/ i = m + 1
    BY <2>2
  <2>5. /\ Append(a, x) \in Seq(Nat \X Nat) /\ Len(Append(a, x)) = m + 1
        /\ Append(a, x)[m + 1] = x /\ \A i \in 1 .. m : Append(a, x)[i] = a[i]
    <3>1. a \in Seq(Nat \X Nat) /\ Len(a) = m
      BY <1>3, <2>2
    <3> QED
      BY <3>1
  <2>6. ASSUME NEW i \in 1 .. p PROVE Append(a, x)[i] = b[i]
    <3>1. CASE i = m + 1
      BY <1>3, <2>2, <2>3, <2>5, <3>1
    <3>2. CASE i \in 1 .. m
      <4>1. i \in 1 .. p - 1 /\ a[i] = <<f, i>> /\ b[i] = <<f, i>>
        BY <1>3, <2>2, <2>3, <3>2
      <4> QED
        BY <2>5, <3>2, <4>1
    <3> QED
      BY <2>4, <3>1, <3>2
  <2> QED
    BY <1>3, <2>2, <2>3, <2>5, <2>6, SeqEqual, SMTT(30)
<1>5. r = [name |-> f, size |-> n, data |-> a] /\ Part(f, n, p) = [name |-> f, size |-> n, data |-> b]
  BY <1>1, <1>2 DEF Part
<1>6. [r EXCEPT !.data = Append(@, <<f, p>>)] = [name |-> f, size |-> n, data |-> Append(a, <<f, p>>)]
  BY <1>5, SMTT(30)
<1> QED
  BY <1>4, <1>5, <1>6

(* A file of which no chunk has come is received without data. *)
LEMMA NoPart ==
    ASSUME NEW f \in Nat, NEW n \in Nat
    PROVE  Part(f, n, 0) = [name |-> f, size |-> n, data |-> <<>>]
<1>1. PICK a : a = [i \in 1 .. 0 |-> <<f, i>>]
  OBVIOUS
<1>2. a = <<>>
  <2>1. a \in Seq(Nat \X Nat) /\ Len(a) = 0
    BY <1>1
  <2> QED
    BY <2>1
<1> QED
  BY <1>1, <1>2 DEF Part

(* What a frame does to the file being received. *)
LEMMA OnMessageIs ==
    ASSUME NEW l \in Label, l.p <= l.n + 1, OnMessage(Frame(l))
    PROVE  \/ l.p = 0 /\ rx' = Part(l.f, l.n, 0) /\ got' = got
           \/ /\ l.p \in 1 .. l.n /\ got' = got
              /\ rx' = IF rx = NoRx THEN rx ELSE [rx EXCEPT !.data = Append(@, <<l.f, l.p>>)]
           \/ l.p = l.n + 1 /\ rx' = NoRx /\ got' = IF rx = NoRx THEN got ELSE Append(got, rx)
<1>1. l.f \in Nat /\ l.n \in Nat /\ l.p \in Nat
  BY DEF Label
<1>2. CASE l.p = 0
  <2>1. Frame(l) = [kind |-> "HDR", name |-> l.f, size |-> l.n]
    BY <1>2 DEF Frame
  <2>2. rx' = [name |-> l.f, size |-> l.n, data |-> <<>>] /\ got' = got
    BY <2>1 DEF OnMessage, Begin
  <2> QED
    BY <1>1, <1>2, <2>2, NoPart
<1>3. CASE l.p \in 1 .. l.n
  <2>1. Frame(l) = [kind |-> "D", chunk |-> <<l.f, l.p>>]
    BY <1>1, <1>3 DEF Frame
  <2> QED
    BY <1>3, <2>1 DEF OnMessage
<1>4. CASE l.p = l.n + 1
  <2>1. l.p # 0 /\ ~ (l.p <= l.n)
    BY <1>1, <1>4
  <2>2. Frame(l) = [kind |-> "END"]
    BY <2>1 DEF Frame
  <2> QED
    BY <1>4, <2>2 DEF OnMessage
<1> QED
  BY <1>1, <1>2, <1>3, <1>4

(* A frame is received: while the files are not mixed, it is the next of   *)
(* the file being received, or the first of a newer one.                   *)
LEMMA ReceiveInv ==
    ASSUME CallsInv, NEW c \in Offers, Receive(c)
    PROVE  CallsInv'
<1>1. /\ CallsTypeOK /\ DOMAIN wire = Offers /\ sent \in Nat /\ wire[c] # <<>>
      /\ rx \in Received /\ got \in Seq(Received) /\ rx.name <= sent
  BY DEF CallsInv, CallsTyped, CallsTypeOK, Receive
<1>2. /\ wire' = [wire EXCEPT ![c] = Tail(@)]
      /\ IF wired[c] THEN OnMessage(Head(wire[c])) ELSE UNCHANGED <<rx, got>>
      /\ mixed' = (mixed \/ ~ wired[c] \/ \E b \in Offers \ {c} : wire[b] # <<>>)
      /\ UNCHANGED <<call, wired, window, stuck, sent>>
  BY DEF Receive
<1>3. wire'[c] = Tail(wire[c]) /\ DOMAIN wire' = Offers /\ \A d \in Offers \ {c} : wire'[d] = wire[d]
  BY <1>1, <1>2
<1>4. PICK L : /\ Labels(wire[c], L, sent) /\ (call[c] = "open" => EndsWhole(L))
               /\ ~ mixed => GoesOn(L, rx, got)
  BY DEF CallsInv
<1>5. PICK l, K : l = L[1] /\ K = Tail(L)
  OBVIOUS
<1>6. /\ Labels(Tail(wire[c]), K, sent) /\ (EndsWhole(L) => EndsWhole(K))
      /\ l \in Label /\ Head(wire[c]) = Frame(l) /\ l.f <= sent /\ l.p <= l.n + 1
      /\ Len(L) \in Nat \ {0} /\ Len(K) = Len(L) - 1
      /\ \A i \in 1 .. Len(K) : K[i] = L[i + 1] /\ i + 1 \in 1 .. Len(L)
  <2>1. /\ Labels(Tail(wire[c]), K, sent) /\ (EndsWhole(L) => EndsWhole(K))
        /\ Len(L) > 0 /\ l \in Label /\ Head(wire[c]) = Frame(l) /\ l.f <= sent /\ l.p <= l.n + 1
        /\ Len(K) = Len(L) - 1 /\ \A i \in 1 .. Len(L) - 1 : K[i] = L[i + 1]
    BY <1>1, <1>4, <1>5, LabelsOfTail
  <2>2. Len(L) \in Nat
    BY <1>4 DEF Labels
  <2> QED
    BY <2>1, <2>2
<1>7. l.f \in Nat /\ l.f # 0 /\ l.n \in Nat /\ l.p \in Nat
  BY <1>6 DEF Label
<1>8. \/ rx' = rx /\ got' = got
      \/ l.p = 0 /\ rx' = Part(l.f, l.n, 0) /\ got' = got
      \/ /\ l.p \in 1 .. l.n /\ got' = got
         /\ rx' = IF rx = NoRx THEN rx ELSE [rx EXCEPT !.data = Append(@, <<l.f, l.p>>)]
      \/ l.p = l.n + 1 /\ rx' = NoRx /\ got' = IF rx = NoRx THEN got ELSE Append(got, rx)
  BY <1>2, <1>6, OnMessageIs
<1>9. rx' \in Received /\ got' \in Seq(Received) /\ rx'.name \in 0 .. sent
  <2>1. NoRx \in Received /\ NoRx.name = 0 /\ rx.name \in 0 .. sent
    BY <1>1 DEF NoRx, Received
  <2>2. Part(l.f, l.n, 0) \in Received /\ Part(l.f, l.n, 0).name = l.f /\ l.f \in 0 .. sent
    <3>1. l.f \in 0 .. sent
      BY <1>1, <1>6, <1>7
    <3> QED
      BY <1>7, <3>1, PartIs
  <2>3. /\ [rx EXCEPT !.data = Append(@, <<l.f, l.p>>)] \in Received
        /\ [rx EXCEPT !.data = Append(@, <<l.f, l.p>>)].name = rx.name
    <3>1. <<l.f, l.p>> \in Nat \X Nat
      BY <1>7
    <3> QED
      BY <1>1, <3>1, ReceivedGrows
  <2>4. Append(got, rx) \in Seq(Received)
    BY <1>1
  <2> QED
    <3>1. CASE rx' = rx /\ got' = got
      BY <1>1, <2>1, <3>1
    <3>2. CASE rx' = Part(l.f, l.n, 0) /\ got' = got
      BY <1>1, <2>2, <3>2
    <3>3. CASE rx' = [rx EXCEPT !.data = Append(@, <<l.f, l.p>>)] /\ got' = got
      BY <1>1, <2>1, <2>3, <3>3
    <3>4. CASE rx' = NoRx /\ (got' = got \/ got' = Append(got, rx))
      BY <1>1, <2>1, <2>4, <3>4
    <3> QED
      BY <1>8, <3>1, <3>2, <3>3, <3>4
<1>10. CallsTyped'
  <2>1. CallsTypeOK'
    BY <1>1, <1>2, <1>9 DEF CallsTypeOK
  <2>2. \A d \in Offers : wire'[d] # <<>> => wire[d] # <<>>
    BY <1>1, <1>3
  <2> QED
    BY <1>2, <1>9, <2>1, <2>2 DEF CallsInv, CallsTyped
<1>11. ASSUME NEW d \in Offers, d # c
       PROVE  \E M : /\ Labels(wire'[d], M, sent) /\ (call'[d] = "open" => EndsWhole(M))
                     /\ ~ mixed' => GoesOn(M, rx', got')
  <2>1. PICK M : Labels(wire[d], M, sent) /\ (call[d] = "open" => EndsWhole(M))
    BY DEF CallsInv
  <2>2. ~ mixed' => GoesOn(M, rx', got')
    <3>1. ~ mixed' => wire[d] = <<>>
      BY <1>2, <1>11
    <3>2. wire[d] = <<>> => Len(M) = 0
      BY <2>1 DEF Labels
    <3> QED
      BY <3>1, <3>2 DEF GoesOn
  <2> QED
    BY <1>2, <1>3, <1>11, <2>1, <2>2
<1>12. ASSUME ~ mixed'
       PROVE  /\ GoesOn(K, rx', got') /\ ReceivedWhole(got')
              /\ \A j \in DOMAIN got' : got'[j].name <= sent
  <2>1. /\ ~ mixed /\ GoesOn(L, rx, got) /\ ReceivedWhole(got) /\ OnMessage(Frame(l))
        /\ \A j \in DOMAIN got : got[j].name <= sent
    BY <1>2, <1>4, <1>6, <1>12 DEF CallsInv
  <2>2. /\ l.p > 0 => rx = Part(l.f, l.n, l.p - 1)
        /\ \A j \in DOMAIN got : got[j].name < l.f
        /\ \A i \in 1 .. Len(K), j \in DOMAIN got : got[j].name < K[i].f
    BY <1>5, <1>6, <2>1 DEF GoesOn
  <2>3. Len(K) > 0 => /\ K[1] \in Label /\ K[1].p \in Nat
                      /\ IF l.p = l.n + 1 THEN K[1].p = 0 ELSE K[1].f = l.f /\ K[1].n = l.n /\ K[1].p = l.p + 1
    <3>1. ASSUME Len(K) > 0 PROVE 1 \in 1 .. Len(L) /\ 2 \in 1 .. Len(L) /\ 2 = 1 + 1 /\ K[1] = L[2]
      BY <1>6, <3>1
    <3>2. ASSUME Len(K) > 0 PROVE K[1] \in Label
      BY <1>4, <3>1, <3>2 DEF Labels
    <3>3. ASSUME Len(K) > 0 PROVE IF l.p = l.n + 1 THEN K[1].p = 0 ELSE K[1].f = l.f /\ K[1].n = l.n /\ K[1].p = l.p + 1
      BY <1>4, <1>5, <3>1, <3>3 DEF Labels
    <3> QED
      BY <3>2, <3>3 DEF Label
  <2>4. CASE l.p = 0
    <3>1. rx' = Part(l.f, l.n, 0) /\ got' = got
      BY <1>6, <1>7, <2>1, <2>4, OnMessageIs
    <3>2. Len(K) > 0 => K[1].f = l.f /\ K[1].n = l.n /\ K[1].p - 1 = 0
      BY <1>7, <2>3, <2>4
    <3> QED
      BY <2>1, <2>2, <3>1, <3>2 DEF GoesOn
  <2>5. CASE l.p \in 1 .. l.n
    <3>1. rx = Part(l.f, l.n, l.p - 1) /\ l.p - 1 \in Nat /\ l.p = (l.p - 1) + 1
      BY <1>7, <2>2, <2>5
    <3>2. rx # NoRx
      <4>1. Part(l.f, l.n, l.p - 1).name = l.f
        BY DEF Part
      <4>2. NoRx.name = 0
        BY DEF NoRx
      <4> QED
        BY <1>7, <3>1, <4>1, <4>2
    <3>3. rx' = [rx EXCEPT !.data = Append(@, <<l.f, l.p>>)] /\ got' = got
      BY <1>6, <1>7, <2>1, <2>5, <3>2, OnMessageIs
    <3>4. rx' = Part(l.f, l.n, l.p)
      <4>1. l.p \in Nat \ {0}
        BY <1>7, <2>5
      <4> QED
        BY <1>7, <3>1, <3>3, <4>1, PartGrows
    <3>5. ASSUME Len(K) > 0 PROVE K[1].f = l.f /\ K[1].n = l.n /\ K[1].p - 1 = l.p
      <4>1. l.p # l.n + 1
        BY <1>7, <2>5
      <4>2. K[1].f = l.f /\ K[1].n = l.n /\ K[1].p = l.p + 1
        BY <2>3, <3>5, <4>1
      <4> QED
        BY <1>7, <4>2
    <3> QED
      BY <2>1, <2>2, <3>3, <3>4, <3>5 DEF GoesOn
  <2>6. CASE l.p = l.n + 1
    <3>1. rx = File(l.f, l.n) /\ rx.name = l.f /\ rx.size = l.n
      <4>1. rx = Part(l.f, l.n, l.n)
        BY <1>7, <2>2, <2>6
      <4>2. rx.name = l.f /\ rx.size = l.n
        BY <1>7, <4>1, PartIs
      <4> QED
        BY <4>1, <4>2 DEF Part, File
    <3>2. rx # NoRx
      <4>1. NoRx.name = 0
        BY DEF NoRx
      <4> QED
        BY <1>7, <3>1, <4>1
    <3>3. got' = Append(got, rx)
      BY <1>6, <1>7, <2>1, <2>6, <3>2, OnMessageIs
    <3>4. PICK N \in Nat : N = Len(got)
      BY <1>1
    <3>5. /\ DOMAIN got = 1 .. N /\ DOMAIN got' = 1 .. N + 1 /\ got'[N + 1] = rx
          /\ \A j \in 1 .. N : got'[j] = got[j]
          /\ \A j \in 1 .. N + 1 : j \in 1 .. N \/ j = N + 1
      BY <1>1, <3>3, <3>4
    <3>6. Len(K) > 0 => K[1].p = 0
      BY <2>3, <2>6
    <3>7. ASSUME NEW i \in 1 .. Len(K) PROVE l.f < K[i].f
      <4>1. 1 \in 1 .. Len(L) /\ i + 1 \in 1 .. Len(L) /\ 1 < i + 1 /\ K[i] = L[i + 1]
        BY <1>6
      <4> QED
        BY <1>4, <1>5, <2>6, <4>1 DEF Labels
    <3>8. GoesOn(K, rx', got')
      <4>1. ASSUME NEW i \in 1 .. Len(K), NEW j \in DOMAIN got' PROVE got'[j].name < K[i].f
        BY <2>2, <3>1, <3>5, <3>7
      <4> QED
        BY <3>6, <4>1 DEF GoesOn
    <3>9. \A j \in DOMAIN got' : got'[j].name <= sent
      BY <1>6, <2>1, <3>1, <3>5
    <3>10. \A i \in DOMAIN got' : got'[i] = File(got'[i].name, got'[i].size)
      BY <2>1, <3>1, <3>5 DEF ReceivedWhole
    <3>11. ASSUME NEW i \in DOMAIN got', NEW j \in DOMAIN got', i < j PROVE got'[i].name < got'[j].name
      <4>1. i \in 1 .. N
        BY <3>4, <3>5, <3>11
      <4>2. CASE j \in 1 .. N
        BY <2>1, <3>5, <3>11, <4>1, <4>2 DEF ReceivedWhole
      <4>3. CASE j = N + 1
        BY <2>2, <3>1, <3>5, <4>1, <4>3
      <4> QED
        BY <3>5, <4>2, <4>3
    <3> QED
      BY <3>8, <3>9, <3>10, <3>11 DEF ReceivedWhole
  <2> QED
    BY <1>6, <1>7, <2>4, <2>5, <2>6
<1>13. ASSUME NEW d \in Offers
       PROVE  \E M : /\ Labels(wire'[d], M, sent) /\ (call'[d] = "open" => EndsWhole(M))
                     /\ ~ mixed' => GoesOn(M, rx', got')
  <2>1. CASE d = c
    BY <1>2, <1>3, <1>4, <1>6, <1>12, <2>1
  <2>2. CASE d # c
    BY <1>11, <2>2
  <2> QED
    BY <2>1, <2>2
<1> QED
  BY <1>2, <1>3, <1>10, <1>12, <1>13 DEF CallsInv

(***************************************************************************)
(* The theorems.                                                           *)
(***************************************************************************)

(* The frames of every channel follow one another as they were sent, and   *)
(* while the files are not mixed, a channel goes on with the one begun.    *)
THEOREM CallsInvariant == CallsSpec => []CallsInv
<1>1. CallsInv /\ [CallsNext]_callsVars => CallsInv'
  <2> SUFFICES ASSUME CallsInv, [CallsNext]_callsVars PROVE CallsInv'
    OBVIOUS
  <2>1. CASE UNCHANGED callsVars
    BY <2>1 DEF callsVars, CallsInv, CallsTyped, CallsTypeOK
  <2>2. CASE CallsNext
    <3>1. CASE StartCall \/ CloseCallWindow
      <4>1. CASE Offers = {}
        BY <3>1, <4>1 DEF CallsInv, CallsTyped, CallsTypeOK, StartCall, CloseCallWindow, CreateOffer
      <4> QED
        BY <3>1, <4>1, CallingInv
    <3>2. CASE \E c \in Offers : \/ CallOffer(c) \/ HandleOffer(c) \/ RejectCall(c)
                                 \/ ChannelOpens(c) \/ setupDataChannel(c)
      BY <3>2, CallingInv
    <3>3. CASE \E c \in Offers : Receive(c)
      BY <3>3, ReceiveInv
    <3>4. CASE \E c \in Offers : \E n \in Nat : SendFile(c, n) \/ ChannelCloses(c, n)
      BY <3>4, SendFileInv, ChannelClosesInv
    <3>5. \A m : \A n \in 0 .. m : n \in Nat
      OBVIOUS
    <3> QED
      BY <2>2, <3>1, <3>2, <3>3, <3>4, <3>5 DEF CallsNext
  <2> QED
    BY <2>1, <2>2
<1> QED
  BY CallsInitInv, <1>1, PTL DEF CallsSpec

(* Each file handed over is whole, one the peer sent, in order and once.   *)
THEOREM FilesAreWhole == CallsSpec => []WholeFiles
<1>1. CallsInv => WholeFiles
  BY DEF CallsInv, ReceivedWhole, WholeFiles
<1> QED
  BY CallsInvariant, <1>1, PTL

===============================================================================
