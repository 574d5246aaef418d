------------------------- MODULE NexusMessagingProofs -------------------------
(***************************************************************************)
(* Proofs about NexusMessaging, for any sets of users, connections and     *)
(* messages, and any number of restarts of the relay and failed statements *)
(* of its database.                                                        *)
(***************************************************************************)
EXTENDS NexusMessaging, NexusSessionsProofs, FiniteSetTheorems

Relaying  == {"recheck", "lookup", "forward", "store"}
Replaying == {"select", "send", "delete"}

(* Whoever announces a login or replays a queue is somebody.               *)
Named == \A c \in Conns : pc[c] \in {"announce", "drain"} => user[c] \in Users

(* A message a handler relays has been sent and is no group message; the   *)
(* connection it, or a replay, writes to is one.                           *)
Handling ==
    \A c \in Conns :
       /\ job[c] \in Relaying => held[c] \in sent \ Group
       /\ job[c] \in Replaying \cup {"forward"} => peer[c] \in Conns

(* A message under a block is past the first test only if the second will  *)
(* stop it, or the query for the block has failed.                         *)
Blocked ==
    \A c \in Conns :
       /\ job[c] = "recheck" /\ held[c] \in muted \ failed
             => <<From[held[c]], To[held[c]]>> \in blocks
       /\ job[c] \in {"lookup", "forward", "store"} => held[c] \notin muted \ failed

(* Where the rows of a queue are, and whence.                              *)
Rows ==
    /\ queue \subseteq stored /\ stored \cup tried \cup muted \subseteq sent
    /\ \A c \in Conns : toSend[c] \subseteq stored /\ toDelete[c] \subseteq tried

RelayInv == /\ IInv /\ MTypeOK /\ Named /\ Handling /\ Blocked /\ Rows
            /\ NoRowDeletedUnsent /\ MutedStaysOut

(* The connection a handler looked up has logged in as the recipient, and  *)
(* the one a replay writes to as the user the replay is for.               *)
Addressed ==
    \A c \in Conns :
       /\ job[c] = "forward" => To[held[c]] \in logged[peer[c]]
       /\ job[c] \in Replaying => user[c] \in logged[peer[c]]

LoginKnown == \A c \in Conns : pc[c] \in {"issue", "register"} => req[c] \in LoginKinds

(* A group message in the queue of a registered member will be found by    *)
(* the replay of that member's login, or has been, unless a statement      *)
(* about it has failed.                                                    *)
Waiting == (Group \cap queue) \ failed
Awaited(m, d) ==
    /\ req[d] \in LoginKinds /\ user[d] = To[m]
    /\ \/ pc[d] = "announce"
       \/ /\ pc[d] = "drain"
          /\ \/ job[d] \in {"none", "select"}
             \/ job[d] = "send" /\ m \in toSend[d] \cup toDelete[d]
             \/ job[d] = "delete" /\ m \in toDelete[d]
GroupAwaited ==
    \A m \in Waiting : clients[To[m]] # None => Awaited(m, clients[To[m]])

SessionInv == OInv /\ LoginKnown /\ Addressed /\ OnlyRecipientGets /\ GroupAwaited
------------------------------------------------------------------------------
(* The registry's part of the invariant.                                   *)
LEMMA NamedNext ==
  ASSUME IInv, Named, [Next]_vars
  PROVE  IInv' /\ Named'
<1> USE ConstAssumption DEF ConstAssumption, dbVars, handlerVars, Goto, Named
<1>0. IInv' /\ TypeOK /\ LoginHasUser
  BY InvNext DEF IInv
<1>1. CASE UNCHANGED vars
  BY <1>0, <1>1 DEF vars
<1>2. ASSUME NEW c \in Conns, Continue(c) \/ Drained(c) PROVE Named'
  <2>1. CASE IssueToken(c) \/ Register(c)
    BY <1>0, <2>1 DEF IssueToken, Register, TypeOK, LoginHasUser
  <2>2. CASE Announce(c)
    BY <1>0, <2>2 DEF Announce, Return, Exit, TypeOK
  <2>4. CASE UnregisterDeleted(c) \/ Drained(c)
    BY <1>0, <2>4 DEF UnregisterDeleted, Drained, Return, Exit, TypeOK
  <2>3. CASE RosterRead(c) \/ RosterSend(c)
    BY <1>0, <2>3 DEF RosterRead, RosterSend, Return, TypeOK
  <2>. QED
    BY <1>2, <2>1, <2>2, <2>3, <2>4 DEF Continue
<1>3. ASSUME NEW c \in Conns, Request(c) \/ DeleteAccount(c) \/ Vanish(c)
      PROVE  Named'
  <2>1. CASE Connect(c) \/ RevokeSession(c) \/ QRApprove(c) \/ Vanish(c)
    BY <1>0, <2>1 DEF Connect, RevokeSession, QRApprove, Vanish, TypeOK
  <2>2. CASE ReadError(c) \/ DeleteAccount(c)
    BY <1>0, <2>2 DEF ReadError, DeleteAccount, Exit, TypeOK
  <2>3. ASSUME NEW u \in Users, NEW k \in LoginKinds, LoginBanned(c, u) \/ Login(c, u, k)
        PROVE  Named'
    BY <1>0, <2>3 DEF LoginBanned, Login, TypeOK
  <2>4. ASSUME NEW u \in Users, LoginBanned(c, u) PROVE Named'
    BY <1>0, <2>4 DEF LoginBanned
  <2>5. ASSUME NEW st \in Statuses, SetStatus(c, st) PROVE Named'
    BY <1>0, <2>5 DEF SetStatus, TypeOK
  <2>. QED
    BY <1>3, <2>1, <2>2, <2>3, <2>4, <2>5 DEF Request
<1>4. ASSUME NEW u \in Users, Admin(u) \/ Environment(u) PROVE Named'
  BY <1>4
  DEF Admin, Environment, BanFlag, BanRevoke, BanKick, Unban, SignUp, Expire
<1>. QED
  BY <1>0, <1>1, <1>2, <1>3, <1>4 DEF Next

(* A restart closes every socket and ends every handler.                   *)
LEMMA RestartRegistry ==
  ASSUME IInv, Restart
  PROVE  IInv' /\ Named'
<1> USE ConstAssumption DEF ConstAssumption, IInv, Restart, dbVars
<1>1. TypeOK'
  BY DEF TypeOK, PCs
<1>2. ServedIsRegistered'
  BY DEF ServedIsRegistered, Serves
<1>3. Unaccepted' /\ Leaving' /\ LoginHasUser' /\ Named'
  BY DEF Unaccepted, Leaving, LoginHasUser, Named
<1>. QED
  BY <1>1, <1>2, <1>3

(* A step of the registry alone keeps the whole invariant.                 *)
LEMMA RegistryOnly ==
  ASSUME RelayInv, [Next]_vars, UNCHANGED mvars
  PROVE  RelayInv'
<1>1. IInv' /\ Named'
  BY NamedNext DEF RelayInv
<1>2. MTypeOK' /\ Rows' /\ NoRowDeletedUnsent' /\ MutedStaysOut'
  BY DEF RelayInv, mvars, relayVars, history, errors, MTypeOK, Rows, NoRowDeletedUnsent,
         MutedStaysOut
<1>3. Handling' /\ Blocked'
  BY DEF RelayInv, mvars, relayVars, history, errors, Handling, Blocked
<1>. QED
  BY <1>1, <1>2, <1>3 DEF RelayInv

(* A frame is written to a connection: its count stays a number.           *)
LEMMA WriteTyped ==
  ASSUME MTypeOK, NEW d \in Conns, NEW m \in Msgs, Write(d, m)
  PROVE  got' \in [Conns -> [Msgs -> Nat]] /\ tried' = tried \cup {m}
<1>1. [got[d] EXCEPT ![m] = @ + 1] \in [Msgs -> Nat]
  BY SMT DEF MTypeOK
<1>. QED
  BY <1>1 DEF Write, MTypeOK

(* A statement fails, or none does.                                        *)
LEMMA FailedGrows ==
  ASSUME MTypeOK, NEW M \in SUBSET Msgs, UNCHANGED errors \/ Fails(M)
  PROVE  failed' \subseteq Msgs /\ failed \subseteq failed' /\ faults' \in 0..MaxFaults
<1>1. CASE UNCHANGED errors
  BY <1>1 DEF errors, MTypeOK
<1>2. CASE Fails(M)
  BY <1>2, MsgAssumption DEF Fails, MTypeOK, MsgAssumption
<1>. QED
  BY <1>1, <1>2
------------------------------------------------------------------------------
(* The steps of "msg" and "convo_msg" keep the invariant.                  *)
LEMMA SameRegistry ==
  ASSUME RelayInv, UNCHANGED vars
  PROVE  IInv' /\ Named'
BY NamedNext DEF RelayInv

LEMMA StartKeeps ==
  ASSUME RelayInv, NEW c \in Conns, NEW m \in Msgs, MsgStart(c, m)
  PROVE  RelayInv'
<1> USE MsgAssumption DEF MsgAssumption, Step, relayVars
<1>0. MTypeOK /\ Handling /\ Blocked /\ Rows /\ NoRowDeletedUnsent /\ MutedStaysOut
  BY DEF RelayInv
<1>1. IInv' /\ Named'
  BY SameRegistry DEF MsgStart
<1>e. failed' \subseteq Msgs /\ failed \subseteq failed' /\ faults' \in 0..MaxFaults
  BY <1>0, FailedGrows, {m} \in SUBSET Msgs DEF MsgStart, NotBlocked
<1>2. MTypeOK'
  <2>1. job' \in [Conns -> {"none", "recheck", "lookup", "forward", "store",
                            "select", "send", "delete"}]
    BY <1>0 DEF MsgStart, MTypeOK
  <2>2. held' \in [Conns -> Msgs \cup {NoMsg}]
    BY <1>0 DEF MsgStart, MTypeOK
  <2>3. sent' \subseteq Msgs /\ muted' \subseteq Msgs
    BY <1>0 DEF MsgStart, MTypeOK
  <2>. QED
    BY <1>0, <1>e, <2>1, <2>2, <2>3 DEF MsgStart, MTypeOK
<1>3. Handling'
  BY <1>0 DEF MsgStart, MTypeOK, Handling, Relaying, Replaying
<1>4. \A d \in Conns : job[d] \in Relaying => held[d] # m
  BY <1>0 DEF MsgStart, Handling
<1>5. m \in muted' => <<To[m], From[m]>> \in blocks \/ <<From[m], To[m]>> \in blocks
  BY <1>0 DEF MsgStart, BlockedPair, Rows
<1>6. Blocked'
  <2> SUFFICES ASSUME NEW d \in Conns
               PROVE  /\ job'[d] = "recheck" /\ held'[d] \in muted' \ failed'
                           => <<From[held'[d]], To[held'[d]]>> \in blocks'
                      /\ job'[d] \in {"lookup", "forward", "store"}
                           => held'[d] \notin muted' \ failed'
    BY DEF Blocked
  <2>1. CASE job'[d] = job[d] /\ held'[d] = held[d]
    BY <1>0, <1>e, <1>4, <2>1 DEF MsgStart, Blocked, Relaying
  <2>2. CASE /\ d = c /\ job'[d] = "recheck" /\ held'[d] = m
             /\ <<To[m], From[m]>> \notin blocks \/ m \in failed'
    BY <1>5, <2>2 DEF MsgStart
  <2>3. NotBlocked(To[m], From[m], m) => <<To[m], From[m]>> \notin blocks \/ m \in failed'
    BY DEF NotBlocked, Fails
  <2>. QED
    BY <1>0, <2>1, <2>2, <2>3 DEF MsgStart, MTypeOK
<1>7. Rows' /\ NoRowDeletedUnsent'
  BY <1>0 DEF MsgStart, Rows, NoRowDeletedUnsent
<1>8. MutedStaysOut'
  BY <1>0, <1>e DEF MsgStart, MutedStaysOut, Rows
<1>. QED
  BY <1>1, <1>2, <1>3, <1>6, <1>7, <1>8 DEF RelayInv

LEMMA RelayKeeps ==
  ASSUME RelayInv, NEW c \in Conns,
         MsgRecheck(c) \/ MsgLookup(c) \/ MsgForward(c) \/ storeOfflineMessage(c)
  PROVE  RelayInv'
<1> USE MsgAssumption DEF MsgAssumption, Step, Release, history, errors
<1>0. MTypeOK /\ Handling /\ Blocked /\ Rows /\ NoRowDeletedUnsent /\ MutedStaysOut
  BY DEF RelayInv
<1>1. IInv' /\ Named'
  BY SameRegistry DEF MsgRecheck, MsgLookup, MsgForward, storeOfflineMessage
<1>2. held[c] \in sent \ Group /\ held[c] \in Msgs
  BY <1>0
  DEF MsgRecheck, MsgLookup, MsgForward, storeOfflineMessage, Handling, Relaying, MTypeOK
<1>e. UNCHANGED errors \/ Fails({held[c]})
      => failed' \subseteq Msgs /\ failed \subseteq failed' /\ faults' \in 0..MaxFaults
  BY <1>0, <1>2, FailedGrows, {held[c]} \in SUBSET Msgs
<1>3. CASE MsgRecheck(c)
  <2>e. failed' \subseteq Msgs /\ failed \subseteq failed' /\ faults' \in 0..MaxFaults
    BY <1>3, <1>e DEF MsgRecheck, NotBlocked
  <2>0. NotBlocked(From[held[c]], To[held[c]], held[c])
          => <<From[held[c]], To[held[c]]>> \notin blocks \/ held[c] \in failed'
    BY DEF NotBlocked, Fails
  <2>1. MTypeOK'
    BY <1>0, <1>3, <2>e DEF MsgRecheck, MTypeOK
  <2>2. Handling'
    <3>1. CASE Release(c)
      BY <1>0, <1>3, <3>1 DEF MsgRecheck, MTypeOK, Handling, Relaying, Replaying
    <3>2. CASE Step(c, "lookup") /\ UNCHANGED <<held, peer>>
      BY <1>0, <1>2, <1>3, <3>2 DEF MsgRecheck, MTypeOK, Handling, Relaying, Replaying
    <3>. QED
      BY <1>3, <3>1, <3>2 DEF MsgRecheck
  <2>3. Blocked'
    <3>1. CASE Release(c)
      BY <1>0, <1>3, <2>e, <3>1 DEF MsgRecheck, MTypeOK, Blocked
    <3>2. CASE /\ NotBlocked(From[held[c]], To[held[c]], held[c])
               /\ Step(c, "lookup") /\ UNCHANGED <<held, peer>>
      BY <1>0, <1>3, <2>e, <2>0, <3>2 DEF MsgRecheck, MTypeOK, Blocked
    <3>. QED
      BY <1>3, <3>1, <3>2 DEF MsgRecheck
  <2>4. Rows' /\ NoRowDeletedUnsent' /\ MutedStaysOut'
    BY <1>0, <1>3, <2>e DEF MsgRecheck, Rows, NoRowDeletedUnsent, MutedStaysOut
  <2>. QED
    BY <1>1, <2>1, <2>2, <2>3, <2>4 DEF RelayInv
<1>4. CASE MsgLookup(c)
  <2>0. clients[To[held[c]]] \in Conns \cup {None}
    BY <1>2 DEF RelayInv, IInv, TypeOK
  <2>1. MTypeOK'
    BY <1>0, <1>4, <2>0 DEF MsgLookup, MTypeOK
  <2>2. Handling'
    BY <1>0, <1>2, <1>4, <2>0 DEF MsgLookup, MTypeOK, Handling, Relaying, Replaying
  <2>3. Blocked'
    BY <1>0, <1>4 DEF MsgLookup, MTypeOK, Blocked
  <2>4. Rows' /\ NoRowDeletedUnsent' /\ MutedStaysOut'
    BY <1>0, <1>4 DEF MsgLookup, Rows, NoRowDeletedUnsent, MutedStaysOut
  <2>. QED
    BY <1>1, <2>1, <2>2, <2>3, <2>4 DEF RelayInv
<1>5. CASE MsgForward(c)
  <2>0. peer[c] \in Conns /\ held[c] \notin muted \ failed
    BY <1>0, <1>5 DEF MsgForward, Handling, Blocked
  <2>1. got' \in [Conns -> [Msgs -> Nat]] /\ tried' = tried \cup {held[c]}
    BY <1>0, <1>2, <1>5, <2>0, WriteTyped DEF MsgForward
  <2>2. MTypeOK' /\ Handling'
    BY <1>0, <1>2, <1>5, <2>1 DEF MsgForward, MTypeOK, Handling, Relaying, Replaying
  <2>3. Blocked'
    BY <1>0, <1>5 DEF MsgForward, MTypeOK, Blocked
  <2>4. Rows' /\ NoRowDeletedUnsent' /\ MutedStaysOut'
    BY <1>0, <1>2, <1>5, <2>0, <2>1 DEF MsgForward, Rows, NoRowDeletedUnsent, MutedStaysOut
  <2>. QED
    BY <1>1, <2>2, <2>3, <2>4 DEF RelayInv
<1>6. CASE storeOfflineMessage(c)
  <2>0. held[c] \notin muted \ failed
    BY <1>0, <1>6 DEF storeOfflineMessage, Blocked
  <2>e. failed' \subseteq Msgs /\ failed \subseteq failed' /\ faults' \in 0..MaxFaults
    BY <1>6, <1>e DEF storeOfflineMessage
  <2>1. MTypeOK' /\ Handling'
    BY <1>0, <1>2, <1>6, <2>e DEF storeOfflineMessage, MTypeOK, Handling, Relaying, Replaying
  <2>2. Blocked'
    BY <1>0, <1>6, <2>e DEF storeOfflineMessage, MTypeOK, Blocked
  <2>3. Rows' /\ NoRowDeletedUnsent' /\ MutedStaysOut'
    BY <1>0, <1>2, <1>6, <2>0, <2>e
    DEF storeOfflineMessage, Rows, NoRowDeletedUnsent, MutedStaysOut
  <2>. QED
    BY <1>1, <2>1, <2>2, <2>3 DEF RelayInv
<1>. QED
  BY <1>3, <1>4, <1>5, <1>6

LEMMA ConvoKeeps ==
  ASSUME RelayInv, NEW c \in Conns, NEW m \in Msgs, ConvoMsg(c, m)
  PROVE  RelayInv'
<1> USE MsgAssumption DEF MsgAssumption, relayVars
<1>0. MTypeOK /\ Handling /\ Blocked /\ Rows /\ NoRowDeletedUnsent /\ MutedStaysOut
  BY DEF RelayInv
<1>1. IInv' /\ Named'
  BY SameRegistry DEF ConvoMsg
<1>2. m \in Msgs \ sent /\ m \notin muted /\ m \notin stored /\ sent' = sent \cup {m}
  BY <1>0 DEF ConvoMsg, Rows
<1>3. \/ got' \in [Conns -> [Msgs -> Nat]] /\ tried' = tried \cup {m} /\ UNCHANGED <<queue, stored>>
      \/ queue' = queue \cup {m} /\ stored' = stored \cup {m} /\ UNCHANGED <<got, tried>>
      \/ UNCHANGED <<queue, stored, got, tried>>
  BY <1>0, WriteTyped DEF ConvoMsg, RelayInv, IInv, TypeOK
<1>e. failed' \subseteq Msgs /\ failed \subseteq failed' /\ faults' \in 0..MaxFaults
  BY <1>0, FailedGrows, {m} \in SUBSET Msgs DEF ConvoMsg, errors
<1>4. MTypeOK' /\ Handling' /\ Blocked'
  BY <1>0, <1>2, <1>3, <1>e DEF ConvoMsg, MTypeOK, Handling, Blocked
<1>5. Rows' /\ NoRowDeletedUnsent' /\ MutedStaysOut'
  BY <1>0, <1>2, <1>3, <1>e DEF ConvoMsg, Rows, NoRowDeletedUnsent, MutedStaysOut
<1>. QED
  BY <1>1, <1>4, <1>5 DEF RelayInv

(* The rows a replay reads are some of the recipient's.                    *)
LEMMA SelectReturns ==
  ASSUME NEW c \in Conns, DrainSelect(c)
  PROVE  \E M \in SUBSET RowsFor(user[c]) :
            /\ UNCHANGED errors \/ Fails(M)
            /\ toSend' = [toSend EXCEPT ![c] = RowsFor(user[c]) \ M]
<1>1. CASE toSend' = [toSend EXCEPT ![c] = RowsFor(user[c])] /\ UNCHANGED errors
  <2>. RowsFor(user[c]) \ {} = RowsFor(user[c])
    OBVIOUS
  <2>. WITNESS {} \in SUBSET RowsFor(user[c])
  <2>. QED
    BY <1>1
<1>. QED
  BY <1>1 DEF DrainSelect

(* So do the steps of a replay ...                                         *)
LEMMA ReplayKeeps ==
  ASSUME RelayInv, NEW c \in Conns, DrainLookup(c) \/ DrainSelect(c) \/ DrainSend(c)
  PROVE  RelayInv'
<1> USE DEF Step, history, errors
<1>0. MTypeOK /\ Handling /\ Blocked /\ Rows /\ NoRowDeletedUnsent /\ MutedStaysOut
  BY DEF RelayInv
<1>1. CASE DrainLookup(c)
  <2>1. IInv' /\ Named'
    BY <1>1, NamedNext DEF DrainLookup, RelayInv, Next
  <2>2. clients[user[c]] \in Conns \cup {None}
    BY <1>1 DEF DrainLookup, RelayInv, Named, IInv, TypeOK
  <2>3. \/ job' = job /\ peer' = peer
        \/ /\ job' = [job EXCEPT ![c] = "select"]
           /\ peer' = [peer EXCEPT ![c] = clients[user[c]]]
           /\ clients[user[c]] # None
    BY <1>1 DEF DrainLookup
  <2>4. MTypeOK'
    BY <1>0, <1>1, <2>2, <2>3 DEF DrainLookup, MTypeOK
  <2>5. Handling' /\ Blocked'
    BY <1>0, <1>1, <2>2, <2>3
    DEF DrainLookup, MTypeOK, Handling, Blocked, Relaying, Replaying
  <2>6. Rows' /\ NoRowDeletedUnsent' /\ MutedStaysOut'
    BY <1>0, <1>1 DEF DrainLookup, Rows, NoRowDeletedUnsent, MutedStaysOut
  <2>. QED
    BY <2>1, <2>4, <2>5, <2>6 DEF RelayInv
<1>2. CASE DrainSelect(c)
  <2>1. IInv' /\ Named'
    BY <1>2, SameRegistry DEF DrainSelect
  <2>2. RowsFor(user[c]) \subseteq stored /\ RowsFor(user[c]) \subseteq Msgs
    BY <1>0 DEF RowsFor, Rows, MTypeOK
  <2>e. PICK M \in SUBSET RowsFor(user[c]) :
            /\ UNCHANGED errors \/ Fails(M)
            /\ toSend' = [toSend EXCEPT ![c] = RowsFor(user[c]) \ M]
    BY <1>2, SelectReturns
  <2>f. failed' \subseteq Msgs /\ failed \subseteq failed' /\ faults' \in 0..MaxFaults
    BY <1>0, <2>2, <2>e, FailedGrows, M \in SUBSET Msgs
  <2>3. MTypeOK' /\ Handling' /\ Blocked'
    BY <1>0, <1>2, <2>2, <2>e, <2>f
    DEF DrainSelect, MTypeOK, Handling, Blocked, Relaying, Replaying
  <2>4. Rows' /\ NoRowDeletedUnsent' /\ MutedStaysOut'
    BY <1>0, <1>2, <2>2, <2>e, <2>f DEF DrainSelect, MTypeOK, Rows, NoRowDeletedUnsent, MutedStaysOut
  <2>. QED
    BY <2>1, <2>3, <2>4 DEF RelayInv
<1>3. CASE DrainSend(c)
  <2>1. IInv' /\ Named' /\ peer[c] \in Conns
    BY <1>0, <1>3, SameRegistry DEF DrainSend, Handling, Replaying
  <2>2. CASE toSend[c] = {} /\ Step(c, "delete") /\ UNCHANGED <<toSend, toDelete, got, tried>>
    <3>1. MTypeOK' /\ Handling' /\ Blocked'
      BY <1>0, <1>3, <2>1, <2>2
      DEF DrainSend, MTypeOK, Handling, Blocked, Relaying, Replaying
    <3>2. Rows' /\ NoRowDeletedUnsent' /\ MutedStaysOut'
      BY <1>0, <1>3, <2>2 DEF DrainSend, Rows, NoRowDeletedUnsent, MutedStaysOut
    <3>. QED
      BY <2>1, <3>1, <3>2 DEF RelayInv
  <2>3. ASSUME NEW m \in toSend[c], Write(peer[c], m), UNCHANGED job,
               toSend' = [toSend EXCEPT ![c] = @ \ {m}],
               toDelete' = [toDelete EXCEPT ![c] = @ \cup {m}]
        PROVE  RelayInv'
    <3>1. m \in Msgs /\ m \in stored
      BY <1>0 DEF MTypeOK, Rows
    <3>2. got' \in [Conns -> [Msgs -> Nat]] /\ tried' = tried \cup {m}
      BY <1>0, <2>1, <2>3, <3>1, WriteTyped
    <3>3. MTypeOK' /\ Handling' /\ Blocked'
      BY <1>0, <1>3, <2>3, <3>1, <3>2, ZenonT(30) DEF DrainSend, MTypeOK, Handling, Blocked
    <3>4. Rows' /\ NoRowDeletedUnsent' /\ MutedStaysOut'
      BY <1>0, <1>3, <2>3, <3>1, <3>2
      DEF DrainSend, MTypeOK, Rows, NoRowDeletedUnsent, MutedStaysOut
    <3>. QED
      BY <2>1, <3>3, <3>4 DEF RelayInv
  <2>. QED
    BY <1>3, <2>2, <2>3 DEF DrainSend
<1>. QED
  BY <1>1, <1>2, <1>3

(* ... the last of which deletes only rows that have been sent ...         *)
LEMMA DeleteKeeps ==
  ASSUME RelayInv, NEW c \in Conns, DrainDelete(c)
  PROVE  RelayInv'
<1> USE DEF history, errors
<1>0. MTypeOK /\ Handling /\ Blocked /\ Rows /\ NoRowDeletedUnsent /\ MutedStaysOut
  BY DEF RelayInv
<1>1. CASE toDelete[c] = {} /\ Drained(c) /\ Release(c) /\ UNCHANGED <<queue, toDelete, errors>>
  <2>1. IInv' /\ Named'
    BY <1>1, NamedNext DEF RelayInv, Next
  <2>2. MTypeOK'
    BY <1>0, <1>1 DEF DrainDelete, Release, Step, MTypeOK
  <2>3. Handling' /\ Blocked'
    BY <1>0, <1>1
    DEF DrainDelete, Release, Step, MTypeOK, Handling, Blocked, Relaying, Replaying
  <2>4. Rows' /\ NoRowDeletedUnsent' /\ MutedStaysOut'
    BY <1>0, <1>1 DEF DrainDelete, Rows, NoRowDeletedUnsent, MutedStaysOut
  <2>. QED
    BY <2>1, <2>2, <2>3, <2>4 DEF RelayInv
<1>2. ASSUME NEW m \in toDelete[c],
             \/ queue' = queue \ {m} /\ UNCHANGED errors
             \/ Fails({m}) /\ UNCHANGED queue,
             toDelete' = [toDelete EXCEPT ![c] = @ \ {m}],
             UNCHANGED <<vars, job, held, peer>>
      PROVE  RelayInv'
  <2>1. IInv' /\ Named'
    BY <1>2, SameRegistry
  <2>2. m \in tried /\ m \in Msgs
    BY <1>0 DEF Rows, MTypeOK
  <2>e. failed' \subseteq Msgs /\ failed \subseteq failed' /\ faults' \in 0..MaxFaults
    BY <1>0, <1>2, <2>2, FailedGrows, {m} \in SUBSET Msgs
  <2>3. MTypeOK' /\ Handling' /\ Blocked'
    BY <1>0, <1>2, <2>e DEF DrainDelete, MTypeOK, Handling, Blocked
  <2>4. Rows' /\ NoRowDeletedUnsent' /\ MutedStaysOut'
    BY <1>0, <1>2, <2>2, <2>e DEF DrainDelete, MTypeOK, Rows, NoRowDeletedUnsent, MutedStaysOut
  <2>. QED
    BY <2>1, <2>3, <2>4 DEF RelayInv
<1>. QED
  BY <1>1, <1>2 DEF DrainDelete

(* ... and blocking, unblocking and the deletion of an account.  A message *)
(* whose second test is still to come leaves muted with its block.         *)
LEMMA BlockKeeps ==
  ASSUME RelayInv, NEW c \in Conns,
         \/ \E v \in Users : Block(c, v) \/ Unblock(c, v)
         \/ EraseAccount(c)
  PROVE  RelayInv'
<1> USE MsgAssumption DEF MsgAssumption, relayVars, history, errors
<1>0. MTypeOK /\ Handling /\ Blocked /\ Rows /\ NoRowDeletedUnsent /\ MutedStaysOut
  BY DEF RelayInv
<1>a. \A d \in Conns : held[d] \in Msgs \cup {NoMsg}
  BY <1>0 DEF MTypeOK
<1>1. ASSUME NEW v \in Users, Block(c, v) PROVE RelayInv'
  <2>1. IInv' /\ Named'
    BY <1>1, SameRegistry DEF Block, blockUser
  <2>2. MTypeOK' /\ Handling'
    BY <1>0, <1>1 DEF Block, blockUser, MTypeOK, Handling
  <2>3. Blocked'
    BY <1>0, <1>1 DEF Block, blockUser, Blocked
  <2>4. Rows' /\ NoRowDeletedUnsent' /\ MutedStaysOut'
    BY <1>0, <1>1 DEF Block, blockUser, Rows, NoRowDeletedUnsent, MutedStaysOut
  <2>. QED
    BY <2>1, <2>2, <2>3, <2>4 DEF RelayInv
<1>2. ASSUME NEW v \in Users, Unblock(c, v) PROVE RelayInv'
  <2>1. IInv' /\ Named'
    BY <1>2, SameRegistry DEF Unblock, unblockUser
  <2>2. MTypeOK' /\ Handling'
    BY <1>0, <1>2 DEF Unblock, unblockUser, MTypeOK, Handling
  <2>3. Blocked'
    BY <1>0, <1>2 DEF Unblock, unblockUser, Blocked, BlockedPair, MTypeOK
  <2>4. Rows' /\ NoRowDeletedUnsent' /\ MutedStaysOut'
    BY <1>0, <1>2 DEF Unblock, unblockUser, Rows, NoRowDeletedUnsent, MutedStaysOut
  <2>. QED
    BY <2>1, <2>2, <2>3, <2>4 DEF RelayInv
<1>3. CASE EraseAccount(c)
  <2>1. IInv' /\ Named'
    BY <1>3, NamedNext DEF EraseAccount, RelayInv, Next
  <2>2. MTypeOK' /\ Handling'
    BY <1>0, <1>3 DEF EraseAccount, MTypeOK, Handling
  <2>3. Blocked'
    BY <1>0, <1>3 DEF EraseAccount, Blocked, MTypeOK
  <2>4. Rows' /\ NoRowDeletedUnsent' /\ MutedStaysOut'
    BY <1>0, <1>3 DEF EraseAccount, Rows, NoRowDeletedUnsent, MutedStaysOut
  <2>. QED
    BY <2>1, <2>2, <2>3, <2>4 DEF RelayInv
<1>. QED
  BY <1>1, <1>2, <1>3

LEMMA RestartKeeps == RelayInv /\ Restart => RelayInv'
<1> SUFFICES ASSUME RelayInv, Restart PROVE RelayInv'
  OBVIOUS
<1>0. MTypeOK /\ Handling /\ Blocked /\ Rows /\ NoRowDeletedUnsent /\ MutedStaysOut
  BY DEF RelayInv
<1>1. IInv' /\ Named'
  BY RestartRegistry DEF RelayInv
<1>2. MTypeOK'
  BY <1>0, MsgAssumption, SMT DEF Restart, MTypeOK, MsgAssumption
<1>3. Handling' /\ Blocked'
  BY <1>0 DEF Restart, Handling, Blocked, Relaying, Replaying
<1>4. Rows' /\ NoRowDeletedUnsent' /\ MutedStaysOut'
  BY <1>0 DEF Restart, Rows, NoRowDeletedUnsent, MutedStaysOut
<1>. QED
  BY <1>1, <1>2, <1>3, <1>4 DEF RelayInv

LEMMA RelayInit == MInit => RelayInv
<1> SUFFICES ASSUME MInit PROVE RelayInv
  OBVIOUS
<1> USE MsgAssumption DEF MsgAssumption, MInit
<1>1. IInv /\ Named
  BY InvInit DEF Init, Named
<1>2. MTypeOK
  <2>1. got \in [Conns -> [Msgs -> Nat]] /\ faults \in 0 .. MaxFaults
    BY SMT
  <2>2. held \in [Conns -> Msgs \cup {NoMsg}] /\ peer \in [Conns -> Conns \cup {None}]
    OBVIOUS
  <2>3. toSend \in [Conns -> SUBSET Msgs] /\ toDelete \in [Conns -> SUBSET Msgs]
    OBVIOUS
  <2>. QED
    BY <2>1, <2>2, <2>3 DEF MTypeOK
<1>3. Handling /\ Blocked /\ Rows /\ NoRowDeletedUnsent /\ MutedStaysOut
  BY DEF Handling, Blocked, Rows, NoRowDeletedUnsent, MutedStaysOut, Relaying, Replaying
<1>. QED
  BY <1>1, <1>2, <1>3 DEF RelayInv

LEMMA RelayNext == RelayInv /\ [MNext]_allVars => RelayInv'
<1> SUFFICES ASSUME RelayInv, [MNext]_allVars PROVE RelayInv'
  OBVIOUS
<1>1. CASE UNCHANGED allVars
  BY <1>1, RegistryOnly DEF allVars
<1>2. ASSUME NEW c \in Conns, Session(c) \/ (Vanish(c) /\ UNCHANGED mvars)
      PROVE  RelayInv'
  BY <1>2, RegistryOnly DEF Session, Next
<1>3. ASSUME NEW c \in Conns, Relay(c) PROVE RelayInv'
  BY <1>3, RelayKeeps, ReplayKeeps, DeleteKeeps DEF Relay
<1>4. ASSUME NEW c \in Conns, NEW m \in Msgs, MsgStart(c, m) \/ ConvoMsg(c, m)
      PROVE  RelayInv'
  BY <1>4, StartKeeps, ConvoKeeps
<1>5. ASSUME NEW u \in Users, Admin(u) \/ Environment(u), UNCHANGED mvars
      PROVE  RelayInv'
  BY <1>5, RegistryOnly DEF Next
<1>. QED
  BY <1>1, <1>2, <1>3, <1>4, <1>5, BlockKeeps, RestartKeeps DEF MNext

(* The tables, the handlers' steps and what they hold keep their types,    *)
(* through restarts of the relay.                                          *)
THEOREM MessagesTyped == MSpec => []MTypeOK
<1>1. RelayInv => MTypeOK
  BY DEF RelayInv
<1>. QED
  BY <1>1, RelayInit, RelayNext, PTL DEF MSpec

(* No row of the queue of offline messages is deleted unsent, however      *)
(* replays, deletions of accounts and restarts of the relay interleave.    *)
THEOREM RowsAreSent == MSpec => []NoRowDeletedUnsent
<1>1. RelayInv => NoRowDeletedUnsent
  BY DEF RelayInv
<1>. QED
  BY <1>1, RelayInit, RelayNext, PTL DEF MSpec

(* A message sent under a block that stays in force is neither delivered   *)
(* nor queued, although the two tests of a block are separate queries.     *)
THEOREM BlocksHold == MSpec => []MutedStaysOut
<1>1. RelayInv => MutedStaysOut
  BY DEF RelayInv
<1>. QED
  BY <1>1, RelayInit, RelayNext, PTL DEF MSpec
------------------------------------------------------------------------------
(* A handler at a step of a replay is in the replay of a login. *)
ReplaysRun == \A c \in Conns : job[c] \in Replaying => pc[c] = "drain"

(* A message being relayed is in one hand and nowhere else. *)
HeldOnce ==
    \A c \in Conns : job[c] \in Relaying =>
        /\ held[c] \notin stored \cup tried
        /\ \A d \in Conns : job[d] \in Relaying /\ held[d] = held[c] => d = c

(* Only a replay has rows in hand, and they are its user's. *)
RowsInHand ==
    \A c \in Conns :
        /\ job[c] \notin {"send", "delete"} => toDelete[c] = {}
        /\ job[c] # "send" => toSend[c] = {}
        /\ \A m \in toSend[c] \cup toDelete[c] : To[m] = user[c]

UntriedUnsent == \A m \in Msgs \ tried, c \in Conns : got[c][m] = 0

(* While no two replays of one queue overlap, none crashes and no          *)
(* statement fails, a row that has been sent is in the hands of the one    *)
(* replay that will delete it.                                             *)
OneReplay ==
    \A c, d \in Conns : job[c] \in Replaying /\ job[d] \in Replaying /\ user[c] = user[d] => c = d
RowsFresh == \A c \in Conns : toSend[c] \cap tried \subseteq failed
SentInHand == \A m \in (queue \cap tried) \ failed : \E c \in Conns : m \in toDelete[c]
GotOnce ==
    \A m \in Msgs \ failed, c \in Conns :
        got[c][m] > 0 => got[c][m] = 1 /\ \A d \in Conns : got[d][m] > 0 => d = c
Alone == OneReplay /\ RowsFresh /\ SentInHand /\ GotOnce

OnceInv == ReplaysRun /\ HeldOnce /\ RowsInHand /\ UntriedUnsent /\ (~ overlapped => Alone)

(* The handlers of other connections stay where they are. *)
LEMMA OthersGoOn ==
  ASSUME TypeOK, NEW c \in Conns,
         Continue(c) \/ Request(c) \/ DeleteAccount(c) \/ Drained(c) \/ Vanish(c),
         NEW d \in Conns, d # c
  PROVE  pc'[d] = pc[d] /\ user'[d] = user[d]
<1> USE DEF Goto, handlerVars, TypeOK
<1>1. CASE IssueToken(c) \/ Register(c)
  BY <1>1 DEF IssueToken, Register
<1>2. CASE Announce(c) \/ UnregisterDeleted(c) \/ Drained(c)
  BY <1>2 DEF Announce, UnregisterDeleted, Drained, Return, Exit
<1>3. CASE RosterRead(c) \/ RosterSend(c)
  BY <1>3 DEF RosterRead, RosterSend, Return
<1>4. CASE Connect(c) \/ RevokeSession(c) \/ QRApprove(c) \/ Vanish(c)
  BY <1>4 DEF Connect, RevokeSession, QRApprove, Vanish
<1>5. CASE ReadError(c) \/ DeleteAccount(c)
  BY <1>5 DEF ReadError, DeleteAccount, Exit
<1>6. ASSUME NEW u \in Users, NEW k \in LoginKinds, Login(c, u, k)
      PROVE  pc'[d] = pc[d] /\ user'[d] = user[d]
  BY <1>6 DEF Login
<1>7. ASSUME NEW u \in Users, LoginBanned(c, u)
      PROVE  pc'[d] = pc[d] /\ user'[d] = user[d]
  BY <1>7 DEF LoginBanned
<1>8. ASSUME NEW st \in Statuses, SetStatus(c, st)
      PROVE  pc'[d] = pc[d] /\ user'[d] = user[d]
  BY <1>8 DEF SetStatus
<1>. QED
  BY <1>1, <1>2, <1>3, <1>4, <1>5, <1>6, <1>7, <1>8 DEF Continue, Request

(* Where no message moves, and no handler with a message or a row in hand  *)
(* does, nothing changes.                                                  *)
LEMMA OnceElsewhere ==
  ASSUME RelayInv, OnceInv, UNCHANGED <<job, held, toSend, toDelete, got, stored, tried, overlapped>>,
         queue' \subseteq queue, failed \subseteq failed',
         \A d \in Conns : job[d] # "none" => pc'[d] = pc[d] /\ user'[d] = user[d]
  PROVE  OnceInv'
<1>1. ReplaysRun' /\ HeldOnce' /\ UntriedUnsent'
  BY DEF OnceInv, ReplaysRun, HeldOnce, UntriedUnsent, Replaying
<1>2. RowsInHand'
  <2> SUFFICES ASSUME NEW c \in Conns, NEW m \in toSend[c] \cup toDelete[c] PROVE To[m] = user'[c]
    BY DEF OnceInv, RowsInHand
  <2>1. job[c] # "none"
    BY DEF OnceInv, RowsInHand
  <2>. QED
    BY <2>1 DEF OnceInv, RowsInHand
<1>3. Alone => Alone'
  <2>1. \A d \in Conns : job[d] \in Replaying => user'[d] = user[d]
    BY DEF Replaying
  <2>. QED
    BY <2>1 DEF Alone, OneReplay, RowsFresh, SentInHand, GotOnce
<1>. QED
  BY <1>1, <1>2, <1>3 DEF OnceInv

(* While a handler has a message or a replay in hand, the steps of the     *)
(* registry alone leave it where it is.                                    *)
LEMMA BusyStays ==
  ASSUME TypeOK,
         \/ \E c \in Conns : Session(c) \/ Vanish(c)
         \/ \E u \in Users : Admin(u) \/ Environment(u)
         \/ UNCHANGED vars
  PROVE  \A d \in Conns : job[d] # "none" => pc'[d] = pc[d] /\ user'[d] = user[d]
<1>1. CASE UNCHANGED vars
  BY <1>1 DEF vars, handlerVars
<1>2. ASSUME NEW c \in Conns, Session(c), NEW d \in Conns, job[d] # "none"
      PROVE  pc'[d] = pc[d] /\ user'[d] = user[d]
  <2>1. d # c /\ (Continue(c) \/ Request(c))
    BY <1>2 DEF Session
  <2>. QED
    BY <2>1, OthersGoOn
<1>3. ASSUME NEW c \in Conns, Vanish(c) PROVE UNCHANGED <<pc, user>>
  BY <1>3 DEF Vanish, handlerVars
<1>4. ASSUME NEW u \in Users, Admin(u) \/ Environment(u) PROVE UNCHANGED <<pc, user>>
  BY <1>4 DEF Admin, Environment, BanFlag, BanRevoke, BanKick, Unban, SignUp, Expire, handlerVars
<1>. QED
  BY <1>1, <1>2, <1>3, <1>4

(* Steps of the registry alone move no message. *)
LEMMA OnceRegistry ==
  ASSUME RelayInv, OnceInv, UNCHANGED mvars,
         \/ \E c \in Conns : Session(c) \/ Vanish(c)
         \/ \E u \in Users : Admin(u) \/ Environment(u)
         \/ UNCHANGED vars
  PROVE  OnceInv'
<1>1. \A d \in Conns : job[d] # "none" => pc'[d] = pc[d] /\ user'[d] = user[d]
  BY BusyStays DEF RelayInv, IInv
<1>. QED
  BY <1>1, OnceElsewhere DEF mvars, relayVars, history, errors

(* Nor do blocks; the deletion of an account takes its queue. *)
LEMMA OnceBlocks ==
  ASSUME RelayInv, OnceInv, NEW c \in Conns,
         \/ \E v \in Users : Block(c, v) \/ Unblock(c, v)
         \/ EraseAccount(c)
  PROVE  OnceInv'
<1>0. TypeOK
  BY DEF RelayInv, IInv
<1>1. CASE \E v \in Users : Block(c, v) \/ Unblock(c, v)
  BY <1>1, OnceElsewhere DEF Block, Unblock, relayVars, history, errors, vars, handlerVars
<1>2. CASE EraseAccount(c)
  <2>1. \A d \in Conns : job[d] # "none" => pc'[d] = pc[d] /\ user'[d] = user[d]
    BY <1>0, <1>2, OthersGoOn DEF EraseAccount
  <2>2. queue' \subseteq queue
    BY <1>2 DEF EraseAccount
  <2>. QED
    BY <1>2, <2>1, <2>2, OnceElsewhere DEF EraseAccount, relayVars, errors
<1>. QED
  BY <1>1, <1>2

(* A message that has just been started has not been anywhere. *)
LEMMA OnceStart ==
  ASSUME RelayInv, OnceInv, NEW c \in Conns, NEW m \in Msgs, MsgStart(c, m)
  PROVE  OnceInv'
<1> USE DEF MsgStart, Step, relayVars, vars, handlerVars
<1>0. MTypeOK /\ Rows /\ Handling
  BY DEF RelayInv
<1>1. m \notin sent /\ m \notin stored \cup tried
  BY <1>0 DEF Rows
<1>2. \A d \in Conns : job[d] \in Relaying => held[d] # m
  BY <1>0, <1>1 DEF Handling
<1>e. failed \subseteq failed'
  BY <1>0, FailedGrows, {m} \in SUBSET Msgs DEF NotBlocked
<1>3. CASE UNCHANGED relayVars
  BY <1>e, <1>3, OnceElsewhere
<1>4. CASE job' = [job EXCEPT ![c] = "recheck"] /\ held' = [held EXCEPT ![c] = m]
           /\ UNCHANGED <<peer, toSend, toDelete>>
  <2>1. /\ job'[c] = "recheck" /\ held'[c] = m /\ job[c] = "none"
        /\ \A d \in Conns : d # c => job'[d] = job[d] /\ held'[d] = held[d]
    BY <1>0, <1>4 DEF MTypeOK
  <2>2. UNCHANGED <<pc, user, queue, got, stored, tried, overlapped, toSend, toDelete>>
    BY <1>4
  <2>3. \A d \in Conns : job'[d] \in Replaying => d # c /\ job[d] \in Replaying
    BY <2>1 DEF Replaying
  <2>4. ReplaysRun' /\ UntriedUnsent'
    BY <2>2, <2>3, <2>1 DEF OnceInv, ReplaysRun, UntriedUnsent
  <2>5. HeldOnce'
    BY <1>1, <1>2, <2>1, <2>2 DEF OnceInv, HeldOnce
  <2>6. RowsInHand'
    BY <2>1, <2>2 DEF OnceInv, RowsInHand
  <2>7. Alone => Alone'
    BY <1>e, <2>2, <2>3 DEF Alone, OneReplay, RowsFresh, SentInHand, GotOnce
  <2>. QED
    BY <2>2, <2>4, <2>5, <2>6, <2>7 DEF OnceInv
<1>. QED
  BY <1>3, <1>4

(* A message is written that was never written before. *)
LEMMA FirstWrite ==
  ASSUME MTypeOK, UntriedUnsent, NEW d \in Conns, NEW m \in Msgs \ tried, Write(d, m)
  PROVE  /\ tried' = tried \cup {m}
         /\ UntriedUnsent'
         /\ GotOnce /\ failed \subseteq failed' => GotOnce'
<1>1. /\ tried' = tried \cup {m} /\ got \in [Conns -> [Msgs -> Nat]]
      /\ got' \in [Conns -> [Msgs -> Nat]]
      /\ got' = got \/ got' = [got EXCEPT ![d][m] = @ + 1]
  BY WriteTyped DEF Write, MTypeOK
<1>2. \A c \in Conns : got[c][m] = 0
  BY DEF UntriedUnsent
<1>3. \A c \in Conns, n \in Msgs : n # m => got'[c][n] = got[c][n]
  BY <1>1
<1>4. \A c \in Conns : c # d => got'[c][m] = 0
  BY <1>1, <1>2
<1>5. got'[d][m] = 0 \/ got'[d][m] = 1
  <2>1. CASE got' = got
    BY <1>2, <2>1
  <2>2. CASE got' = [got EXCEPT ![d][m] = @ + 1]
    <3>1. got'[d][m] = got[d][m] + 1
      BY <1>1, <2>2
    <3>. QED
      BY <1>2, <3>1, SMT
  <2>. QED
    BY <1>1, <2>1, <2>2
<1>6. UntriedUnsent'
  BY <1>1, <1>3 DEF UntriedUnsent
<1>7. GotOnce /\ failed \subseteq failed' => GotOnce'
  <2> SUFFICES ASSUME GotOnce, failed \subseteq failed',
                      NEW n \in Msgs \ failed', NEW c \in Conns, got'[c][n] > 0
               PROVE  got'[c][n] = 1 /\ \A e \in Conns : got'[e][n] > 0 => e = c
    BY DEF GotOnce
  <2>1. CASE n # m
    BY <1>3, <2>1 DEF GotOnce
  <2>2. CASE n = m
    <3>1. ~ (0 > 0)
      BY SMT
    <3>2. \A e \in Conns : got'[e][m] > 0 => e = d
      BY <1>4, <3>1
    <3>. QED
      BY <1>5, <2>2, <3>1, <3>2
  <2>. QED
    BY <2>1, <2>2
<1>. QED
  BY <1>1, <1>6, <1>7

(* A handler with a message goes on to its next step, or lets it go.       *)
LEMMA OnceRelay ==
  ASSUME RelayInv, OnceInv, NEW c \in Conns,
         MsgRecheck(c) \/ MsgLookup(c) \/ MsgForward(c) \/ storeOfflineMessage(c)
  PROVE  OnceInv'
<1> DEFINE m == held[c]
<1>0. MTypeOK /\ Rows /\ Handling
  BY DEF RelayInv
<1>1. job[c] \in Relaying /\ job[c] \notin Replaying
  BY DEF MsgRecheck, MsgLookup, MsgForward, storeOfflineMessage, Relaying, Replaying
<1>2. m \in Msgs /\ m \notin stored \cup tried
      /\ \A d \in Conns : job[d] \in Relaying /\ held[d] = m => d = c
  BY <1>0, <1>1, MsgAssumption DEF Handling, MTypeOK, MsgAssumption, OnceInv, HeldOnce
<1>3. UNCHANGED <<pc, user, toSend, toDelete, overlapped>>
  BY DEF MsgRecheck, MsgLookup, MsgForward, storeOfflineMessage, vars, handlerVars, history, errors
<1>e. failed \subseteq failed'
  BY <1>0, <1>2, FailedGrows, {m} \in SUBSET Msgs
  DEF MsgRecheck, MsgLookup, MsgForward, storeOfflineMessage, NotBlocked, errors
<1>4. /\ \A d \in Conns : d # c => job'[d] = job[d] /\ held'[d] = held[d]
      /\ \/ job'[c] = "none"
         \/ job'[c] \in Relaying /\ held'[c] = m /\ UNCHANGED <<stored, tried>>
  BY <1>0 DEF MsgRecheck, MsgLookup, MsgForward, storeOfflineMessage, Release, Step, MTypeOK,
              Relaying, history, errors
<1>5. \A d \in Conns : job'[d] \in Replaying => job[d] \in Replaying /\ d # c
  BY <1>4 DEF Relaying, Replaying
<1>6. ReplaysRun'
  BY <1>3, <1>5, <1>4 DEF OnceInv, ReplaysRun
<1>7. RowsInHand'
  <2>1. toSend[c] = {} /\ toDelete[c] = {}
    BY <1>1 DEF OnceInv, RowsInHand, Relaying
  <2>. QED
    BY <1>3, <1>4, <2>1 DEF OnceInv, RowsInHand
<1>8. HeldOnce'
  <2>1. stored' \cup tried' \subseteq stored \cup tried \cup {m}
    BY DEF MsgRecheck, MsgLookup, MsgForward, storeOfflineMessage, Write, history, errors
  <2>2. \A d \in Conns : job'[d] \in Relaying /\ d # c =>
          /\ held'[d] = held[d] /\ held[d] # m
          /\ held[d] \notin stored \cup tried
          /\ \A e \in Conns : job[e] \in Relaying /\ held[e] = held[d] => e = d
    BY <1>2, <1>4 DEF OnceInv, HeldOnce
  <2>3. \A d \in Conns : job'[d] \in Relaying /\ d = c =>
          held'[d] = m /\ UNCHANGED <<stored, tried>>
    BY <1>4 DEF Relaying
  <2> SUFFICES ASSUME NEW d \in Conns, job'[d] \in Relaying
               PROVE  /\ held'[d] \notin stored' \cup tried'
                      /\ \A e \in Conns : job'[e] \in Relaying /\ held'[e] = held'[d] => e = d
    BY DEF HeldOnce
  <2>4. CASE d = c
    BY <1>2, <2>2, <2>3, <2>4
  <2>5. CASE d # c
    BY <1>4, <2>1, <2>2, <2>3, <2>5
  <2>. QED
    BY <2>4, <2>5
<1>9. UntriedUnsent' /\ (~overlapped => Alone')
  <2>1. CASE MsgForward(c)
    <3>1. peer[c] \in Conns /\ Write(peer[c], m) /\ UNCHANGED <<queue, stored>>
      BY <1>0, <2>1 DEF MsgForward, Handling
    <3>2. tried' = tried \cup {m} /\ UntriedUnsent' /\ (GotOnce => GotOnce')
      BY <1>0, <1>2, <1>e, <3>1, FirstWrite DEF OnceInv
    <3>3. \A d \in Conns : m \notin toSend[d] /\ m \notin queue
      BY <1>0, <1>2 DEF Rows
    <3>4. Alone => Alone'
      BY <1>3, <1>5, <1>e, <3>1, <3>2, <3>3 DEF Alone, OneReplay, RowsFresh, SentInHand
    <3>. QED
      BY <3>2, <3>4 DEF OnceInv
  <2>2. CASE ~ MsgForward(c)
    <3>1. UNCHANGED <<got, tried>> /\ queue' \subseteq queue \cup {m}
      BY <2>2 DEF MsgRecheck, MsgLookup, storeOfflineMessage, history, errors
    <3>2. Alone => Alone'
      BY <1>2, <1>3, <1>5, <1>e, <3>1 DEF Alone, OneReplay, RowsFresh, SentInHand, GotOnce
    <3>. QED
      BY <3>1, <3>2 DEF OnceInv, UntriedUnsent
  <2>. QED
    BY <2>1, <2>2
<1>. QED
  BY <1>3, <1>6, <1>7, <1>8, <1>9 DEF OnceInv

(* A group message goes straight to its recipient, or to the queue, or     *)
(* nowhere.                                                                *)
LEMMA OnceConvo ==
  ASSUME RelayInv, OnceInv, NEW c \in Conns, NEW m \in Msgs, ConvoMsg(c, m)
  PROVE  OnceInv'
<1>0. MTypeOK /\ Rows /\ Handling /\ TypeOK
  BY DEF RelayInv, IInv
<1>1. m \notin sent /\ m \notin stored \cup tried
  BY <1>0 DEF ConvoMsg, Rows
<1>2. \A d \in Conns : job[d] \in Relaying => held[d] # m
  BY <1>0, <1>1 DEF Handling
<1>3. UNCHANGED <<pc, user, job, held, toSend, toDelete, overlapped>>
  BY DEF ConvoMsg, vars, handlerVars, relayVars
<1>4. stored' \cup tried' \subseteq stored \cup tried \cup {m}
  BY DEF ConvoMsg, Write
<1>5. ReplaysRun' /\ RowsInHand'
  BY <1>3 DEF OnceInv, ReplaysRun, RowsInHand
<1>6. HeldOnce'
  BY <1>2, <1>3, <1>4 DEF OnceInv, HeldOnce
<1>7. UntriedUnsent' /\ (Alone => Alone')
  <2>e. failed \subseteq failed'
    BY <1>0, FailedGrows, {m} \in SUBSET Msgs DEF ConvoMsg, errors
  <2>1. CASE UNCHANGED <<got, tried>> /\ queue' \subseteq queue \cup {m}
    BY <1>1, <1>3, <2>e, <2>1 DEF OnceInv, UntriedUnsent, Alone, OneReplay, RowsFresh, SentInHand, GotOnce
  <2>2. CASE clients[To[m]] # None /\ Write(clients[To[m]], m) /\ UNCHANGED <<queue, stored>>
    <3>1. clients[To[m]] \in Conns
      BY <1>0, <2>2, MsgAssumption DEF TypeOK, MsgAssumption
    <3>2. tried' = tried \cup {m} /\ UntriedUnsent' /\ (GotOnce => GotOnce')
      BY <1>0, <1>1, <2>e, <2>2, <3>1, FirstWrite DEF OnceInv
    <3>3. m \notin queue /\ \A d \in Conns : m \notin toSend[d]
      BY <1>0, <1>1 DEF Rows
    <3>. QED
      BY <1>3, <2>e, <2>2, <3>2, <3>3 DEF Alone, OneReplay, RowsFresh, SentInHand
  <2>. QED
    BY <2>1, <2>2 DEF ConvoMsg
<1>. QED
  BY <1>3, <1>5, <1>6, <1>7 DEF OnceInv

(* A replay finds the client: from here on it is the only one of its user, *)
(* or the two overlap.                                                     *)
LEMMA OnceLookup ==
  ASSUME RelayInv, OnceInv, NEW c \in Conns, DrainLookup(c)
  PROVE  OnceInv'
<1>0. MTypeOK /\ TypeOK
  BY DEF RelayInv, IInv
<1>1. pc[c] = "drain" /\ job[c] = "none"
      /\ UNCHANGED <<held, toSend, toDelete, queue, got, stored, tried, failed>>
  BY DEF DrainLookup, errors
<1>2. CASE Drained(c) /\ UNCHANGED <<job, peer, overlapped>>
  <2>1. \A d \in Conns : job[d] # "none" => pc'[d] = pc[d] /\ user'[d] = user[d]
    BY <1>0, <1>1, <1>2, OthersGoOn
  <2>. QED
    BY <1>1, <1>2, <2>1, OnceElsewhere
<1>3. CASE /\ Step(c, "select") /\ UNCHANGED vars
           /\ overlapped' = (overlapped \/
                \E e \in Conns \ {c} : Draining(e) /\ user[e] = user[c])
  <2>1. /\ job'[c] = "select" /\ \A d \in Conns : d # c => job'[d] = job[d]
        /\ UNCHANGED <<pc, user>>
    BY <1>0, <1>3 DEF Step, MTypeOK, vars, handlerVars
  <2>2. ReplaysRun' /\ RowsInHand' /\ UntriedUnsent'
    BY <1>1, <2>1 DEF OnceInv, ReplaysRun, RowsInHand, UntriedUnsent
  <2>3. HeldOnce'
    BY <1>1, <2>1 DEF OnceInv, HeldOnce, Relaying
  <2>4. ASSUME ~overlapped' PROVE Alone'
    <3>1. Alone
      BY <1>3, <2>4 DEF OnceInv
    <3>2. \A e \in Conns \ {c} : job[e] \in Replaying => user[e] # user[c]
      BY <1>3, <2>4 DEF OnceInv, ReplaysRun, Draining, Replaying
    <3>3. OneReplay'
      BY <2>1, <3>1, <3>2 DEF Alone, OneReplay
    <3>. QED
      BY <1>1, <3>1, <3>3 DEF Alone, RowsFresh, SentInHand, GotOnce
  <2>. QED
    BY <2>2, <2>3, <2>4 DEF OnceInv
<1>. QED
  BY <1>2, <1>3 DEF DrainLookup

(* The rows it selects have not been sent: what has been sent is in the    *)
(* hands of another replay, which is another user's.                       *)
LEMMA OnceSelect ==
  ASSUME RelayInv, OnceInv, NEW c \in Conns, DrainSelect(c)
  PROVE  OnceInv'
<1>0. MTypeOK
  BY DEF RelayInv
<1>1. /\ job[c] = "select" /\ job'[c] = "send"
      /\ \A d \in Conns : d # c => job'[d] = job[d] /\ toSend'[d] = toSend[d]
      /\ toSend'[c] \subseteq RowsFor(user[c])
      /\ UNCHANGED <<pc, user, held, toDelete, queue, got, stored, tried, overlapped>>
  BY <1>0 DEF DrainSelect, Step, MTypeOK, vars, handlerVars, history, errors
<1>e. failed \subseteq failed'
  <2>1. RowsFor(user[c]) \subseteq Msgs
    BY <1>0 DEF RowsFor, MTypeOK
  <2>2. PICK M \in SUBSET RowsFor(user[c]) : UNCHANGED errors \/ Fails(M)
    BY SelectReturns
  <2>. QED
    BY <1>0, <2>1, <2>2, FailedGrows, M \in SUBSET Msgs
<1>2. ReplaysRun' /\ UntriedUnsent'
  BY <1>1 DEF OnceInv, ReplaysRun, UntriedUnsent, Replaying
<1>3. HeldOnce'
  BY <1>1 DEF OnceInv, HeldOnce, Relaying
<1>4. toDelete[c] = {}
  BY <1>1 DEF OnceInv, RowsInHand
<1>5. RowsInHand'
  BY <1>1, <1>4 DEF OnceInv, RowsInHand, RowsFor
<1>6. ASSUME ~overlapped' PROVE Alone'
  <2>1. Alone
    BY <1>1, <1>6 DEF OnceInv
  <2>2. OneReplay'
    BY <1>1, <2>1 DEF Alone, OneReplay, Replaying
  <2>3. ASSUME NEW m \in RowsFor(user[c]) \ failed, m \in tried PROVE FALSE
    <3>1. m \in queue /\ To[m] = user[c]
      BY DEF RowsFor
    <3>2. PICK e \in Conns : m \in toDelete[e]
      BY <2>1, <2>3, <3>1 DEF Alone, SentInHand
    <3>3. job[e] \in Replaying /\ user[e] = user[c]
      BY <3>1, <3>2 DEF OnceInv, RowsInHand, Replaying
    <3>. QED
      BY <1>1, <1>4, <2>1, <3>2, <3>3 DEF Alone, OneReplay, Replaying
  <2>. QED
    BY <1>1, <1>e, <2>1, <2>2, <2>3 DEF Alone, RowsFresh, SentInHand, GotOnce
<1>. QED
  BY <1>2, <1>3, <1>5, <1>6 DEF OnceInv

(* A row is sent, and will be deleted.                                     *)
LEMMA OnceSend ==
  ASSUME RelayInv, OnceInv, NEW c \in Conns, DrainSend(c)
  PROVE  OnceInv'
<1>0. MTypeOK /\ Rows /\ Handling
  BY DEF RelayInv
<1>1. job[c] = "send" /\ UNCHANGED <<pc, user, held, queue, stored, overlapped, failed>>
  BY DEF DrainSend, vars, handlerVars, errors
<1>2. CASE toSend[c] = {} /\ Step(c, "delete") /\ UNCHANGED <<toSend, toDelete, got, tried>>
  <2>1. job'[c] = "delete" /\ \A d \in Conns : d # c => job'[d] = job[d]
    BY <1>0, <1>2 DEF Step, MTypeOK
  <2>2. ReplaysRun' /\ RowsInHand' /\ UntriedUnsent'
    BY <1>1, <1>2, <2>1 DEF OnceInv, ReplaysRun, RowsInHand, UntriedUnsent, Replaying
  <2>3. HeldOnce'
    BY <1>1, <1>2, <2>1 DEF OnceInv, HeldOnce, Relaying
  <2>4. Alone => Alone'
    BY <1>1, <1>2, <2>1
    DEF Alone, OneReplay, RowsFresh, SentInHand, GotOnce, Replaying
  <2>. QED
    BY <1>1, <2>2, <2>3, <2>4 DEF OnceInv
<1>3. ASSUME NEW m \in toSend[c], Write(peer[c], m), UNCHANGED job,
             toSend' = [toSend EXCEPT ![c] = @ \ {m}],
             toDelete' = [toDelete EXCEPT ![c] = @ \cup {m}]
      PROVE  OnceInv'
  <2>0. m \in Msgs /\ m \in stored /\ peer[c] \in Conns
    BY <1>0, <1>1 DEF MTypeOK, Rows, Handling, Replaying
  <2>1. /\ toSend'[c] = toSend[c] \ {m} /\ toDelete'[c] = toDelete[c] \cup {m}
        /\ \A d \in Conns : d # c => toSend'[d] = toSend[d] /\ toDelete'[d] = toDelete[d]
    BY <1>0, <1>3 DEF MTypeOK
  <2>2. got' \in [Conns -> [Msgs -> Nat]] /\ tried' = tried \cup {m}
    BY <1>0, <1>3, <2>0, WriteTyped
  <2>3. \A d \in Conns, n \in Msgs : n # m => got'[d][n] = got[d][n]
    BY <1>0, <1>3, <2>0 DEF Write, MTypeOK
  <2>4. ReplaysRun' /\ UntriedUnsent'
    BY <1>1, <1>3, <2>2, <2>3 DEF OnceInv, ReplaysRun, UntriedUnsent
  <2>5. HeldOnce'
    BY <1>1, <1>3, <2>0, <2>2 DEF OnceInv, HeldOnce
  <2>6. RowsInHand'
    BY <1>1, <1>3, <2>1 DEF OnceInv, RowsInHand
  <2>7. ASSUME ~overlapped' PROVE Alone'
    <3>1. Alone
      BY <1>1, <2>7 DEF OnceInv
    <3>2. m \notin tried \/ m \in failed
      BY <3>1 DEF Alone, RowsFresh
    <3>3. GotOnce'
      <4>1. CASE m \notin tried
        BY <1>0, <1>1, <1>3, <2>0, <3>1, <4>1, FirstWrite DEF OnceInv, Alone
      <4>2. CASE m \in failed
        BY <1>1, <2>3, <3>1, <4>2 DEF Alone, GotOnce
      <4>. QED
        BY <3>2, <4>1, <4>2
    <3>4. OneReplay'
      BY <1>1, <1>3, <3>1 DEF Alone, OneReplay
    <3>5. SentInHand'
      BY <1>1, <2>1, <2>2, <3>1 DEF Alone, SentInHand
    <3>6. \A d \in Conns \ {c} : m \notin toSend[d]
      <4> SUFFICES ASSUME NEW d \in Conns \ {c}, m \in toSend[d] PROVE FALSE
        OBVIOUS
      <4>1. job[d] = "send" /\ user[d] = user[c]
        BY DEF OnceInv, RowsInHand
      <4>. QED
        BY <1>1, <3>1, <4>1 DEF Alone, OneReplay, Replaying
    <3>7. RowsFresh'
      BY <1>1, <2>1, <2>2, <3>1, <3>6 DEF Alone, RowsFresh
    <3>. QED
      BY <3>3, <3>4, <3>5, <3>7 DEF Alone
  <2>. QED
    BY <2>4, <2>5, <2>6, <2>7 DEF OnceInv
<1>. QED
  BY <1>2, <1>3 DEF DrainSend

(* A row leaves the hand and the table at once; then the replay is over.   *)
LEMMA OnceDelete ==
  ASSUME RelayInv, OnceInv, NEW c \in Conns, DrainDelete(c)
  PROVE  OnceInv'
<1>0. MTypeOK /\ TypeOK
  BY DEF RelayInv, IInv
<1>1. job[c] = "delete" /\ UNCHANGED <<toSend, got, stored, tried, overlapped>>
  BY DEF DrainDelete, history
<1>2. ASSUME NEW m \in toDelete[c],
             \/ queue' = queue \ {m} /\ UNCHANGED errors
             \/ Fails({m}) /\ UNCHANGED queue,
             toDelete' = [toDelete EXCEPT ![c] = @ \ {m}],
             UNCHANGED <<vars, job, held, peer>>
      PROVE  OnceInv'
  <2>1. /\ toDelete'[c] = toDelete[c] \ {m}
        /\ \A d \in Conns : d # c => toDelete'[d] = toDelete[d]
        /\ UNCHANGED <<pc, user>>
    BY <1>0, <1>2 DEF MTypeOK, vars, handlerVars
  <2>2. ReplaysRun' /\ HeldOnce' /\ UntriedUnsent' /\ RowsInHand'
    BY <1>1, <1>2, <2>1 DEF OnceInv, ReplaysRun, HeldOnce, UntriedUnsent, RowsInHand
  <2>3. Alone => Alone'
    <3>e. failed \subseteq failed' /\ (queue' = queue \ {m} \/ m \in failed')
      BY <1>2 DEF Fails, errors
    <3>1. SentInHand => SentInHand'
      BY <1>1, <1>2, <2>1, <3>e DEF SentInHand
    <3>. QED
      BY <1>1, <1>2, <2>1, <3>e, <3>1 DEF Alone, OneReplay, RowsFresh, GotOnce
  <2>. QED
    BY <1>1, <2>2, <2>3 DEF OnceInv
<1>3. CASE toDelete[c] = {} /\ Drained(c) /\ Release(c) /\ UNCHANGED <<queue, toDelete, errors>>
  <2>1. /\ job'[c] = "none"
        /\ \A d \in Conns : d # c => /\ job'[d] = job[d] /\ held'[d] = held[d]
                                     /\ pc'[d] = pc[d] /\ user'[d] = user[d]
    BY <1>0, <1>3, OthersGoOn DEF Release, Step, MTypeOK
  <2>2. ReplaysRun' /\ UntriedUnsent'
    BY <1>1, <2>1 DEF OnceInv, ReplaysRun, UntriedUnsent, Replaying
  <2>3. HeldOnce'
    BY <1>1, <2>1 DEF OnceInv, HeldOnce, Relaying
  <2>4. toSend[c] = {}
    BY <1>1 DEF OnceInv, RowsInHand
  <2>5. RowsInHand'
    BY <1>1, <1>3, <2>1, <2>4 DEF OnceInv, RowsInHand
  <2>6. OneReplay => OneReplay'
    BY <2>1 DEF OneReplay, Replaying
  <2>7. Alone => Alone'
    BY <1>1, <1>3, <2>6 DEF Alone, RowsFresh, SentInHand, GotOnce, errors
  <2>. QED
    BY <1>1, <2>2, <2>3, <2>5, <2>7 DEF OnceInv
<1>. QED
  BY <1>2, <1>3 DEF DrainDelete

(* A restart leaves no row in any hand: unless it interrupts a replay,     *)
(* there was none.                                                         *)
LEMMA OnceRestart ==
  ASSUME RelayInv, OnceInv, Restart
  PROVE  OnceInv'
<1>1. /\ \A c \in Conns : job'[c] = "none" /\ toSend'[c] = {} /\ toDelete'[c] = {}
      /\ UNCHANGED <<got, queue, stored, tried, failed>>
  BY DEF Restart
<1>2. ReplaysRun' /\ HeldOnce' /\ RowsInHand' /\ UntriedUnsent'
  BY <1>1 DEF OnceInv, ReplaysRun, HeldOnce, RowsInHand, UntriedUnsent, Relaying, Replaying
<1>3. ASSUME ~overlapped' PROVE Alone'
  <2>1. Alone /\ \A c \in Conns : ~Draining(c)
    BY <1>3 DEF Restart, OnceInv
  <2>2. \A c \in Conns : job[c] \notin Replaying
    BY <2>1 DEF OnceInv, ReplaysRun, Draining, Replaying
  <2>3. queue \cap tried \subseteq failed
    BY <2>1, <2>2 DEF Alone, SentInHand, OnceInv, RowsInHand, Replaying
  <2>. QED
    BY <1>1, <2>1, <2>3 DEF Alone, OneReplay, RowsFresh, SentInHand, GotOnce, Replaying
<1>. QED
  BY <1>2, <1>3 DEF OnceInv

(* At the start nothing is in hand and nothing was sent. *)
LEMMA OnceInit ==
  ASSUME MInit
  PROVE  OnceInv
<1>1. ReplaysRun /\ HeldOnce /\ RowsInHand
  BY DEF MInit, ReplaysRun, HeldOnce, RowsInHand, Relaying, Replaying
<1>2. \A c \in Conns, m \in Msgs : got[c][m] = 0
  BY DEF MInit
<1>3. UntriedUnsent /\ GotOnce
  BY <1>2, SMT DEF UntriedUnsent, GotOnce
<1>4. OneReplay /\ RowsFresh /\ SentInHand
  BY DEF MInit, OneReplay, RowsFresh, SentInHand, Replaying
<1>. QED
  BY <1>1, <1>3, <1>4 DEF OnceInv, Alone

(* Every step, one lemma per kind of step. *)
LEMMA OnceNext ==
  ASSUME RelayInv, OnceInv, [MNext]_allVars
  PROVE  OnceInv'
<1>1. CASE UNCHANGED allVars
  BY <1>1, OnceRegistry DEF allVars
<1>2. ASSUME NEW c \in Conns, Relay(c) PROVE OnceInv'
  BY <1>2, OnceRelay, OnceLookup, OnceSelect, OnceSend, OnceDelete DEF Relay
<1>3. ASSUME NEW c \in Conns, Session(c) \/ (Vanish(c) /\ UNCHANGED mvars) PROVE OnceInv'
  BY <1>3, OnceRegistry DEF Session
<1>4. ASSUME NEW u \in Users, Admin(u) \/ Environment(u), UNCHANGED mvars PROVE OnceInv'
  BY <1>4, OnceRegistry
<1>5. ASSUME NEW c \in Conns, NEW m \in Msgs, MsgStart(c, m) \/ ConvoMsg(c, m) PROVE OnceInv'
  BY <1>5, OnceStart, OnceConvo
<1>. QED
  BY <1>1, <1>2, <1>3, <1>4, <1>5, OnceBlocks, OnceRestart DEF MNext

(* At most one arrival of m has been counted.                              *)
LEMMA OneArrival ==
  ASSUME GotOnce, MTypeOK, NEW m \in Msgs \ failed
  PROVE  Cardinality(Times(m)) <= 1
<1>1. \A r \in Times(m) : r[1] \in Conns /\ got[r[1]][m] = 1 /\ r = <<r[1], 1>>
  <2> SUFFICES ASSUME NEW r \in Times(m)
               PROVE  r[1] \in Conns /\ got[r[1]][m] = 1 /\ r = <<r[1], 1>>
    OBVIOUS
  <2>1. r \in Conns \X {1, 2} /\ got[r[1]][m] >= r[2]
    BY DEF Times
  <2>2. r[1] \in Conns /\ r[2] \in {1, 2} /\ r = <<r[1], r[2]>>
    BY <2>1
  <2>3. got[r[1]][m] > 0
    BY <2>1, <2>2, SMT DEF MTypeOK
  <2>4. got[r[1]][m] = 1
    BY <2>2, <2>3 DEF GotOnce
  <2>5. r[2] = 1
    BY <2>1, <2>2, <2>4, SMT
  <2>. QED
    BY <2>2, <2>4, <2>5
<1>2. CASE Times(m) = {}
  BY <1>2, FS_EmptySet
<1>3. ASSUME NEW r \in Times(m) PROVE Cardinality(Times(m)) <= 1
  <2>1. \A q \in Times(m) : q = r
    <3> SUFFICES ASSUME NEW q \in Times(m) PROVE q = r
      OBVIOUS
    <3>1. got[q[1]][m] > 0 /\ got[r[1]][m] > 0
      BY <1>1, SMT
    <3>2. q[1] = r[1]
      BY <1>1, <3>1 DEF GotOnce
    <3>. QED
      BY <1>1, <3>2
  <2>2. Times(m) = {r}
    BY <2>1
  <2>. QED
    <3>1. Cardinality({r}) = 1
      BY FS_Singleton, Zenon
    <3>. QED
      BY <2>2, <3>1
<1>. QED
  BY <1>2, <1>3

(* A message arrives once, at one connection, unless two logins of its     *)
(* recipient replay the queue at the same time, the relay dies while one   *)
(* does, or a statement about the message fails: for any connections,      *)
(* restarts, failures and logins, repeated ones included.                  *)
THEOREM ArrivesOnce == MSpec => []OnceUnlessOverlapped
<1>1. RelayInv /\ OnceInv /\ [MNext]_allVars => (RelayInv /\ OnceInv)'
  BY RelayNext, OnceNext
<1>2. MInit => RelayInv /\ OnceInv
  BY RelayInit, OnceInit
<1>3. RelayInv /\ OnceInv => OnceUnlessOverlapped
  BY OneArrival DEF RelayInv, OnceInv, Alone, OnceUnlessOverlapped
<1>. QED
  BY <1>1, <1>2, <1>3, PTL DEF MSpec
------------------------------------------------------------------------------
(* What a connection has logged in as it has logged in as for good, and a  *)
(* login in progress is one of the known kinds.                            *)
LEMMA LoggedGrows ==
  ASSUME OInv, LoginKnown, [Next]_vars
  PROVE  LoginKnown' /\ \A d \in Conns : logged[d] \subseteq logged'[d]
<1> USE ConstAssumption DEF ConstAssumption, dbVars, handlerVars, Goto, LoginKnown
<1> DEFINE Kept == LoginKnown' /\ \A d \in Conns : logged[d] \subseteq logged'[d]
<1>0. TypeOK
  BY DEF OInv, IInv
<1>1. CASE UNCHANGED vars
  BY <1>1 DEF vars
<1>2. ASSUME NEW c \in Conns, Continue(c) \/ Drained(c) PROVE Kept
  <2>1. CASE IssueToken(c) \/ Register(c)
    BY <1>0, <2>1 DEF IssueToken, Register, TypeOK
  <2>2. CASE Announce(c)
    BY <1>0, <2>2 DEF Announce, Return, Exit, TypeOK
  <2>4. CASE UnregisterDeleted(c) \/ Drained(c)
    BY <1>0, <2>4 DEF UnregisterDeleted, Drained, Return, Exit, TypeOK
  <2>3. CASE RosterRead(c) \/ RosterSend(c)
    BY <1>0, <2>3, ZenonT(30) DEF RosterRead, RosterSend, Return, TypeOK
  <2>. QED
    BY <1>2, <2>1, <2>2, <2>3, <2>4 DEF Continue
<1>3. ASSUME NEW c \in Conns, Request(c) \/ DeleteAccount(c) \/ Vanish(c)
      PROVE  Kept
  <2>1. CASE Connect(c) \/ RevokeSession(c) \/ QRApprove(c) \/ Vanish(c)
    BY <1>0, <2>1 DEF Connect, RevokeSession, QRApprove, Vanish, TypeOK
  <2>2. CASE ReadError(c) \/ DeleteAccount(c)
    BY <1>0, <2>2 DEF ReadError, DeleteAccount, Exit, TypeOK
  <2>3. ASSUME NEW u \in Users, NEW k \in LoginKinds, Login(c, u, k) PROVE Kept
    BY <1>0, <2>3 DEF Login, TypeOK
  <2>4. ASSUME NEW u \in Users, LoginBanned(c, u) PROVE Kept
    BY <1>0, <2>4 DEF LoginBanned
  <2>5. ASSUME NEW st \in Statuses, SetStatus(c, st) PROVE Kept
    BY <1>0, <2>5 DEF SetStatus, TypeOK
  <2>. QED
    BY <1>3, <2>1, <2>2, <2>3, <2>4, <2>5 DEF Request
<1>4. ASSUME NEW u \in Users, Admin(u) \/ Environment(u) PROVE Kept
  BY <1>4
  DEF Admin, Environment, BanFlag, BanRevoke, BanKick, Unban, SignUp, Expire
<1>. QED
  BY <1>1, <1>2, <1>3, <1>4 DEF Next

(* What a step of a handler does to the handlers of registered users: a    *)
(* new entry's handler is about to announce its login; an old one that is  *)
(* announcing or replaying goes on with it.                                *)
Onward(c, u, d) ==
    \/ req'[d] \in LoginKinds /\ pc'[d] = "announce" /\ user'[d] = u
    \/ /\ clients[u] = d
       /\ pc[d] \in {"announce", "drain"} /\ req[d] \in LoginKinds
             => /\ req'[d] = req[d] /\ user'[d] = user[d]
                /\ pc'[d] = pc[d] \/ (d = c /\ pc'[d] = "drain")

LEMMA EntriesGoOn ==
  ASSUME OInv, LoginKnown, NEW c \in Conns,
         Continue(c) \/ Request(c) \/ DeleteAccount(c) \/ Vanish(c),
         NEW u \in Users, NEW d \in Conns, clients'[u] = d
  PROVE  Onward(c, u, d)
<1> USE ConstAssumption DEF ConstAssumption, dbVars, handlerVars, Goto, Onward
<1>0. TypeOK
  BY DEF OInv, IInv
<1>1. CASE IssueToken(c)
  BY <1>0, <1>1 DEF IssueToken, TypeOK
<1>2. CASE Register(c)
  BY <1>0, <1>2 DEF Register, TypeOK, LoginKnown
<1>3. CASE Announce(c)
  BY <1>0, <1>3 DEF Announce, Return, Exit, TypeOK
<1>4. CASE RosterRead(c) \/ RosterSend(c)
  BY <1>0, <1>4 DEF RosterRead, RosterSend, Return, TypeOK
<1>5. CASE UnregisterDeleted(c)
  <2>1. clients[u] = d
    BY <1>0, <1>5 DEF UnregisterDeleted, OwnEntryDropped, TypeOK
  <2>. QED
    BY <1>0, <1>5, <2>1 DEF UnregisterDeleted, Exit, TypeOK
<1>6. CASE Connect(c) \/ RevokeSession(c) \/ QRApprove(c) \/ Vanish(c)
  BY <1>0, <1>6 DEF Connect, RevokeSession, QRApprove, Vanish, TypeOK
<1>7. CASE ReadError(c)
  <2>1. clients[u] = d
    BY <1>0, <1>7 DEF ReadError, OwnEntryDropped, TypeOK
  <2>. QED
    BY <1>0, <1>7, <2>1 DEF ReadError, Exit, TypeOK
<1>8. CASE DeleteAccount(c)
  BY <1>0, <1>8 DEF DeleteAccount, TypeOK
<1>9. ASSUME NEW v \in Users, NEW k \in LoginKinds, Login(c, v, k)
      PROVE  Onward(c, u, d)
  BY <1>0, <1>9 DEF Login, TypeOK
<1>10. ASSUME NEW v \in Users, LoginBanned(c, v) PROVE Onward(c, u, d)
  BY <1>0, <1>10 DEF LoginBanned, TypeOK
<1>11. ASSUME NEW st \in Statuses, SetStatus(c, st) PROVE Onward(c, u, d)
  BY <1>0, <1>11 DEF SetStatus, TypeOK
<1>. QED
  BY <1>1, <1>2, <1>3, <1>4, <1>5, <1>6, <1>7, <1>8, <1>9, <1>10, <1>11
  DEF Continue, Request

(* A step of the registry alone leaves messages addressed as they are.     *)
LEMMA AddressedStays ==
  ASSUME RelayInv, SessionInv, [Next]_vars, UNCHANGED <<job, held, peer, got>>,
         \A d \in Conns : job[d] \in Replaying => user'[d] = user[d]
  PROVE  Addressed' /\ OnlyRecipientGets'
<1>1. \A d \in Conns : logged[d] \subseteq logged'[d]
  BY LoggedGrows DEF SessionInv
<1>2. Handling /\ Addressed /\ OnlyRecipientGets
  BY DEF RelayInv, SessionInv
<1>3. OnlyRecipientGets'
  BY <1>1, <1>2 DEF OnlyRecipientGets
<1>4. Addressed'
  BY <1>1, <1>2 DEF Handling, Addressed
<1>. QED
  BY <1>3, <1>4

(* Steps of the registry alone keep the invariant.                         *)
LEMMA SessionKeeps ==
  ASSUME RelayInv, OnceInv, SessionInv, UNCHANGED mvars, NEW c \in Conns,
         Session(c) \/ Vanish(c)
  PROVE  SessionInv'
<1>1. [Next]_vars
  BY DEF Session, Next
<1>2. OInv' /\ LoginKnown'
  BY <1>1, OwnNext, LoggedGrows DEF SessionInv
<1>3. Addressed' /\ OnlyRecipientGets'
  <2>1. \A d \in Conns : job[d] \in Replaying => user'[d] = user[d]
    BY BusyStays DEF RelayInv, IInv, Replaying
  <2>. QED
    BY <1>1, <2>1, AddressedStays DEF mvars, relayVars
<1>4. GroupAwaited'
  <2> SUFFICES ASSUME NEW m \in Waiting, clients'[To[m]] # None
               PROVE  Awaited(m, clients[To[m]])'
    BY DEF GroupAwaited, Waiting, mvars, errors
  <2>1. PICK d \in Conns : d = clients'[To[m]]
    BY <1>2, MsgAssumption DEF Waiting, OInv, IInv, TypeOK, MsgAssumption
  <2>2. To[m] \in Users /\ d # None
    BY <2>1, MsgAssumption, ConstAssumption DEF Waiting, MsgAssumption, ConstAssumption
  <2>3. Onward(c, To[m], d)
    BY <2>1, <2>2, EntriesGoOn DEF SessionInv, Session
  <2>4. Awaited(m, d)'
    <3>1. CASE req'[d] \in LoginKinds /\ pc'[d] = "announce" /\ user'[d] = To[m]
      BY <3>1 DEF Awaited
    <3>2. CASE /\ clients[To[m]] = d
               /\ pc[d] \in {"announce", "drain"} /\ req[d] \in LoginKinds
                     => /\ req'[d] = req[d] /\ user'[d] = user[d]
                        /\ pc'[d] = pc[d] \/ (d = c /\ pc'[d] = "drain")
      <4>1. Awaited(m, d)
        BY <2>2, <3>2 DEF SessionInv, GroupAwaited
      <4>2. d = c /\ pc'[d] # pc[d] => job[d] = "none"
        BY DEF Session, Vanish, handlerVars
      <4>. QED
        BY <3>2, <4>1, <4>2 DEF Awaited, mvars, relayVars
    <3>. QED
      BY <2>3, <3>1, <3>2 DEF Onward
  <2>. QED
    BY <2>1, <2>4 DEF Awaited
<1>. QED
  BY <1>2, <1>3, <1>4 DEF SessionInv

LEMMA AdminKeeps ==
  ASSUME RelayInv, OnceInv, SessionInv, UNCHANGED mvars, NEW u \in Users,
         Admin(u) \/ Environment(u)
  PROVE  SessionInv'
<1>1. [Next]_vars
  BY DEF Next
<1>2. OInv' /\ LoginKnown'
  BY <1>1, OwnNext, LoggedGrows DEF SessionInv
<1>3. Addressed' /\ OnlyRecipientGets'
  <2>1. \A d \in Conns : job[d] \in Replaying => user'[d] = user[d]
    BY BusyStays DEF RelayInv, IInv, Replaying
  <2>. QED
    BY <1>1, <2>1, AddressedStays DEF mvars, relayVars
<1>4. UNCHANGED <<pc, req, user>> /\ \A v \in Users : clients'[v] \in {clients[v], None}
  BY DEF Admin, Environment, BanFlag, BanRevoke, BanKick, Unban, SignUp, Expire,
         handlerVars, SessionInv, OInv, IInv, TypeOK
<1>5. GroupAwaited'
  BY <1>4, MsgAssumption
  DEF SessionInv, GroupAwaited, Waiting, Awaited, mvars, relayVars, errors, MsgAssumption
<1>. QED
  BY <1>2, <1>3, <1>5 DEF SessionInv

(* A handler that does not announce or replay can change its own step      *)
(* without anybody's messages being forgotten.                             *)
LEMMA AwaitedElsewhere ==
  ASSUME SessionInv, NEW c \in Conns, UNCHANGED <<clients, pc, req, user, toSend, toDelete>>,
         failed \subseteq failed',
         pc[c] \notin {"announce", "drain"} \/ job[c] \in Relaying,
         \A d \in Conns \ {c} : job'[d] = job[d],
         \A m \in Group \cap (queue' \ queue) : clients[To[m]] = None,
         OInv'
  PROVE  GroupAwaited'
<1> SUFFICES ASSUME NEW m \in Waiting', clients[To[m]] # None
             PROVE  Awaited(m, clients[To[m]])'
  BY DEF GroupAwaited
<1>1. m \in queue /\ clients[To[m]] \in Conns
  BY MsgAssumption DEF Waiting, MsgAssumption, SessionInv, OInv, IInv, TypeOK
<1>2. Awaited(m, clients[To[m]])
  BY <1>1 DEF SessionInv, GroupAwaited, Waiting
<1>3. clients[To[m]] # c \/ pc[c] = "announce"
  BY <1>2 DEF Awaited, Relaying
<1>. QED
  BY <1>1, <1>2, <1>3 DEF Awaited

LEMMA SameSession ==
  ASSUME SessionInv, UNCHANGED vars
  PROVE  OInv' /\ LoginKnown'
BY OwnNext, LoggedGrows DEF SessionInv

(* Who is registered for a user has logged in as that user.                *)
LEMMA EntryLogged ==
  ASSUME SessionInv, NEW u \in Users, clients[u] # None
  PROVE  clients[u] \in Conns /\ u \in logged[clients[u]]
BY DEF SessionInv, OInv, EntryIsOwned, IInv, TypeOK

(* A write to a connection that has logged in as the recipient.            *)
LEMMA WriteGets ==
  ASSUME RelayInv, SessionInv, NEW d \in Conns, NEW m \in Msgs, Write(d, m),
         To[m] \in logged[d], UNCHANGED logged
  PROVE  OnlyRecipientGets'
<1>1. \A e \in Conns, k \in Msgs : got'[e][k] > 0 => got[e][k] > 0 \/ (e = d /\ k = m)
  BY DEF Write, RelayInv, MTypeOK
<1>. QED
  BY <1>1 DEF SessionInv, OnlyRecipientGets

(* "msg" and "convo_msg" keep the invariant.                               *)
LEMMA MessageKeeps ==
  ASSUME RelayInv, OnceInv, SessionInv, NEW c \in Conns,
         \/ \E m \in Msgs : MsgStart(c, m) \/ ConvoMsg(c, m)
         \/ MsgRecheck(c) \/ MsgLookup(c) \/ MsgForward(c) \/ storeOfflineMessage(c)
  PROVE  SessionInv'
<1> USE MsgAssumption, ConstAssumption DEF MsgAssumption, ConstAssumption, Step, relayVars, history, errors
<1>0. MTypeOK /\ Handling /\ Addressed /\ OnlyRecipientGets
  BY DEF RelayInv, SessionInv
<1>1. UNCHANGED vars
  BY DEF MsgStart, ConvoMsg, MsgRecheck, MsgLookup, MsgForward, storeOfflineMessage
<1>2. OInv' /\ LoginKnown' /\ UNCHANGED <<clients, pc, user, req, logged>>
  BY <1>1, SameSession DEF vars, handlerVars
<1>e. failed \subseteq failed'
  BY DEF MsgStart, ConvoMsg, MsgRecheck, MsgLookup, MsgForward, storeOfflineMessage, NotBlocked,
         Fails
<1>3. ASSUME NEW m \in Msgs, MsgStart(c, m) PROVE SessionInv'
  <2>1. \A d \in Conns : job'[d] \in Replaying \cup {"forward"} => job'[d] = job[d] /\ held'[d] = held[d]
    BY <1>0, <1>3 DEF MsgStart, MTypeOK, Replaying
  <2>2. Addressed' /\ OnlyRecipientGets'
    BY <1>0, <1>2, <1>3, <2>1 DEF MsgStart, Addressed, OnlyRecipientGets, Replaying
  <2>3. GroupAwaited'
    BY <1>0, <1>2, <1>e, <1>3, AwaitedElsewhere DEF MsgStart, MTypeOK
  <2>. QED
    BY <1>2, <2>2, <2>3 DEF SessionInv
<1>4. ASSUME NEW m \in Msgs, ConvoMsg(c, m) PROVE SessionInv'
  <2>1. Addressed'
    BY <1>0, <1>2, <1>4 DEF ConvoMsg, Addressed
  <2>2. OnlyRecipientGets'
    BY <1>0, <1>2, <1>4, EntryLogged, WriteGets DEF ConvoMsg, OnlyRecipientGets
  <2>3. GroupAwaited'
    BY <1>2, <1>e, <1>4, AwaitedElsewhere DEF ConvoMsg
  <2>. QED
    BY <1>2, <2>1, <2>2, <2>3 DEF SessionInv
<1>5. CASE MsgRecheck(c)
  <2>1. \A d \in Conns : job'[d] \in Replaying \cup {"forward"}
           => job'[d] = job[d] /\ held'[d] = held[d] /\ peer'[d] = peer[d]
    BY <1>0, <1>5 DEF MsgRecheck, Release, MTypeOK, Replaying
  <2>2. Addressed' /\ OnlyRecipientGets'
    BY <1>0, <1>2, <1>5, <2>1 DEF MsgRecheck, Addressed, OnlyRecipientGets, Replaying
  <2>3. GroupAwaited'
    BY <1>0, <1>2, <1>e, <1>5, AwaitedElsewhere DEF MsgRecheck, Release, MTypeOK, Relaying
  <2>. QED
    BY <1>2, <2>2, <2>3 DEF SessionInv
<1>6. CASE MsgLookup(c)
  <2>0. held[c] \in Msgs
    BY <1>0, <1>6 DEF MsgLookup, Handling, Relaying, MTypeOK
  <2>1. Addressed'
    BY <1>0, <1>2, <1>6, <2>0, EntryLogged DEF MsgLookup, Addressed, MTypeOK, Replaying
  <2>2. OnlyRecipientGets'
    BY <1>0, <1>2, <1>6 DEF MsgLookup, OnlyRecipientGets
  <2>3. GroupAwaited'
    BY <1>0, <1>2, <1>e, <1>6, AwaitedElsewhere DEF MsgLookup, MTypeOK, Relaying
  <2>. QED
    BY <1>2, <2>1, <2>2, <2>3 DEF SessionInv
<1>7. CASE MsgForward(c)
  <2>0. held[c] \in Msgs /\ peer[c] \in Conns /\ To[held[c]] \in logged[peer[c]]
    BY <1>0, <1>7 DEF MsgForward, Handling, Relaying, MTypeOK, Addressed
  <2>1. Addressed'
    BY <1>0, <1>2, <1>7 DEF MsgForward, Release, Addressed, MTypeOK, Replaying
  <2>2. OnlyRecipientGets'
    BY <1>2, <1>7, <2>0, WriteGets DEF MsgForward
  <2>3. GroupAwaited'
    BY <1>0, <1>2, <1>e, <1>7, AwaitedElsewhere DEF MsgForward, Release, MTypeOK, Relaying
  <2>. QED
    BY <1>2, <2>1, <2>2, <2>3 DEF SessionInv
<1>8. CASE storeOfflineMessage(c)
  <2>0. held[c] \notin Group
    BY <1>0, <1>8 DEF storeOfflineMessage, Handling, Relaying
  <2>1. Addressed'
    BY <1>0, <1>2, <1>8 DEF storeOfflineMessage, Release, Addressed, MTypeOK, Replaying
  <2>2. OnlyRecipientGets'
    BY <1>0, <1>2, <1>8 DEF storeOfflineMessage, OnlyRecipientGets
  <2>3. GroupAwaited'
    BY <1>0, <1>2, <1>e, <1>8, <2>0, AwaitedElsewhere
    DEF storeOfflineMessage, Release, MTypeOK, Relaying
  <2>. QED
    BY <1>2, <2>1, <2>2, <2>3 DEF SessionInv
<1>. QED
  BY <1>3, <1>4, <1>5, <1>6, <1>7, <1>8

(* When a replay ends, nobody else's handler has changed.                  *)
LEMMA DrainedAwaited ==
  ASSUME RelayInv, SessionInv, NEW c \in Conns, Drained(c),
         \A d \in Conns \ {c} : job'[d] = job[d],
         UNCHANGED <<toSend, toDelete, queue, failed>>,
         \A m \in Waiting : clients[To[m]] # c
  PROVE  GroupAwaited'
<1> USE MsgAssumption, ConstAssumption DEF MsgAssumption, ConstAssumption
<1> SUFFICES ASSUME NEW m \in Waiting, clients[To[m]] # None
             PROVE  Awaited(m, clients[To[m]])'
  BY DEF GroupAwaited, Waiting, Drained
<1>1. clients[To[m]] \in Conns \ {c} /\ Awaited(m, clients[To[m]])
  BY EntryLogged DEF SessionInv, GroupAwaited, Waiting
<1>2. \A d \in Conns \ {c} : pc'[d] = pc[d] /\ req'[d] = req[d]
  BY DEF Drained, Return, Goto, RelayInv, IInv, TypeOK
<1>3. UNCHANGED <<clients, user>>
  BY DEF Drained
<1>. QED
  BY <1>1, <1>2, <1>3 DEF Awaited

LEMMA LookupSafe ==
  ASSUME RelayInv, OnceInv, SessionInv, NEW c \in Conns, DrainLookup(c)
  PROVE  SessionInv'
<1> USE DEF Step
<1>0. MTypeOK /\ Named /\ Addressed /\ OnlyRecipientGets /\ user[c] \in Users
  BY DEF RelayInv, SessionInv, Named, DrainLookup
<1>1. [Next]_vars /\ OInv' /\ LoginKnown'
  BY OwnNext, LoggedGrows DEF SessionInv, DrainLookup, Next
<1>2. CASE clients[user[c]] = None /\ Drained(c) /\ UNCHANGED <<job, peer, overlapped>>
  <2>1. Addressed' /\ OnlyRecipientGets'
    BY <1>1, <1>2, AddressedStays DEF DrainLookup, Drained
  <2>2. \A m \in Waiting : clients[To[m]] # c
    BY <1>2, ConstAssumption DEF SessionInv, GroupAwaited, Awaited, ConstAssumption
  <2>3. GroupAwaited'
    BY <1>2, <2>2, DrainedAwaited DEF DrainLookup, errors
  <2>. QED
    BY <1>1, <2>1, <2>3 DEF SessionInv
<1>3. CASE /\ clients[user[c]] # None /\ Step(c, "select") /\ UNCHANGED vars
           /\ peer' = [peer EXCEPT ![c] = clients[user[c]]]
  <2>1. user[c] \in logged[clients[user[c]]] /\ UNCHANGED <<user, logged, pc, req, clients>>
    BY <1>0, <1>3, EntryLogged DEF vars, handlerVars
  <2>2. Addressed' /\ OnlyRecipientGets'
    BY <1>0, <1>3, <2>1 DEF DrainLookup, Addressed, OnlyRecipientGets, MTypeOK, Replaying
  <2>3. \A m \in Msgs, d \in Conns : Awaited(m, d) => Awaited(m, d)'
    BY <1>0, <1>3, <2>1 DEF DrainLookup, Awaited, MTypeOK
  <2>4. GroupAwaited'
    BY <1>0, <2>1, <2>3, EntryLogged, MsgAssumption
    DEF SessionInv, GroupAwaited, Waiting, DrainLookup, errors, MTypeOK, MsgAssumption
  <2>. QED
    BY <1>1, <2>2, <2>4 DEF SessionInv
<1>. QED
  BY <1>2, <1>3 DEF DrainLookup

LEMMA SelectSafe ==
  ASSUME RelayInv, OnceInv, SessionInv, NEW c \in Conns, DrainSelect(c)
  PROVE  SessionInv'
<1> USE MsgAssumption, ConstAssumption DEF MsgAssumption, ConstAssumption, Step, history
<1>0. MTypeOK /\ Addressed /\ OnlyRecipientGets /\ GroupAwaited
  BY DEF RelayInv, SessionInv
<1>1. OInv' /\ LoginKnown' /\ UNCHANGED <<user, logged, pc, req, clients>>
  BY SameSession DEF DrainSelect, vars, handlerVars
<1>2. Addressed' /\ OnlyRecipientGets'
  BY <1>0, <1>1 DEF DrainSelect, RowsFor, Addressed, OnlyRecipientGets, MTypeOK, Replaying
<1>e. PICK M \in SUBSET RowsFor(user[c]) :
          /\ UNCHANGED errors \/ Fails(M)
          /\ toSend' = [toSend EXCEPT ![c] = RowsFor(user[c]) \ M]
  BY SelectReturns
<1>f. failed \subseteq failed' /\ (M \subseteq failed' \/ toSend' = [toSend EXCEPT ![c] = RowsFor(user[c])])
  BY <1>e DEF DrainSelect, Fails, errors
<1>3. ASSUME NEW m \in Waiting', clients[To[m]] # None
      PROVE  Awaited(m, clients[To[m]])'
  <2>0. m \in Waiting /\ m \notin failed' /\ UNCHANGED queue
    BY <1>f DEF Waiting, DrainSelect
  <2>1. Awaited(m, clients[To[m]]) /\ clients[To[m]] \in Conns
        /\ user[clients[To[m]]] = To[m]
    BY <1>0, <1>3, <2>0, EntryLogged DEF GroupAwaited, Waiting, Awaited
  <2>2. clients[To[m]] = c => m \in toSend'[c] /\ job'[c] = "send"
    BY <1>0, <1>e, <1>f, <2>0, <2>1 DEF DrainSelect, RowsFor, Waiting, MTypeOK
  <2>3. clients[To[m]] # c => job'[clients[To[m]]] = job[clients[To[m]]]
                              /\ toSend'[clients[To[m]]] = toSend[clients[To[m]]]
    BY <1>0, <2>1 DEF DrainSelect, MTypeOK
  <2>. QED
    BY <1>1, <2>1, <2>2, <2>3 DEF DrainSelect, Awaited
<1>4. GroupAwaited'
  BY <1>1, <1>3 DEF GroupAwaited
<1>. QED
  BY <1>1, <1>2, <1>4 DEF SessionInv

LEMMA SendSafe ==
  ASSUME RelayInv, OnceInv, SessionInv, NEW c \in Conns, DrainSend(c)
  PROVE  SessionInv'
<1> USE MsgAssumption DEF MsgAssumption, Step
<1>0. MTypeOK /\ Handling /\ Addressed /\ OnlyRecipientGets /\ GroupAwaited
  BY DEF RelayInv, SessionInv
<1>1. OInv' /\ LoginKnown' /\ UNCHANGED <<user, logged, pc, req, clients>>
  BY SameSession DEF DrainSend, vars, handlerVars
<1>2. CASE toSend[c] = {} /\ Step(c, "delete") /\ UNCHANGED <<toSend, toDelete, got, tried>>
  <2>1. Addressed' /\ OnlyRecipientGets'
    BY <1>0, <1>1, <1>2 DEF DrainSend, Addressed, OnlyRecipientGets, MTypeOK, Replaying
  <2>2. \A m \in Msgs, d \in Conns : Awaited(m, d) => Awaited(m, d)'
    BY <1>0, <1>1, <1>2 DEF DrainSend, Awaited, MTypeOK
  <2>3. GroupAwaited'
    BY <1>0, <1>1, <2>2, EntryLogged DEF GroupAwaited, Waiting, DrainSend, errors, MTypeOK
  <2>. QED
    BY <1>1, <2>1, <2>3 DEF SessionInv
<1>3. ASSUME NEW k \in toSend[c], Write(peer[c], k), UNCHANGED job,
             toSend' = [toSend EXCEPT ![c] = @ \ {k}],
             toDelete' = [toDelete EXCEPT ![c] = @ \cup {k}]
      PROVE  SessionInv'
  <2>0. k \in Msgs /\ peer[c] \in Conns /\ To[k] \in logged[peer[c]] /\ To[k] = user[c]
    BY <1>0 DEF DrainSend, Handling, Addressed, Replaying, MTypeOK, OnceInv, RowsInHand
  <2>1. OnlyRecipientGets'
    BY <1>1, <1>3, <2>0, WriteGets
  <2>2. Addressed'
    BY <1>0, <1>1, <1>3, <2>0 DEF DrainSend, Addressed, MTypeOK
  <2>3. \A m \in Msgs, d \in Conns : Awaited(m, d) => Awaited(m, d)'
    BY <1>0, <1>1, <1>3 DEF DrainSend, Awaited, MTypeOK
  <2>4. GroupAwaited'
    BY <1>0, <1>1, <2>3, EntryLogged DEF GroupAwaited, Waiting, DrainSend, errors, MTypeOK
  <2>. QED
    BY <1>1, <2>1, <2>2, <2>4 DEF SessionInv
<1>. QED
  BY <1>2, <1>3 DEF DrainSend

LEMMA DeleteSafe ==
  ASSUME RelayInv, OnceInv, SessionInv, NEW c \in Conns, DrainDelete(c)
  PROVE  SessionInv'
<1> USE MsgAssumption DEF MsgAssumption, history
<1>0. MTypeOK /\ Handling /\ Addressed /\ OnlyRecipientGets /\ GroupAwaited
  BY DEF RelayInv, SessionInv
<1>1. CASE toDelete[c] = {} /\ Drained(c) /\ Release(c) /\ UNCHANGED <<queue, toDelete, errors>>
  <2>1. [Next]_vars /\ OInv' /\ LoginKnown'
    BY <1>1, OwnNext, LoggedGrows DEF SessionInv, Next
  <2>2. UNCHANGED <<user, logged>> /\ \A d \in Conns \ {c} : job'[d] = job[d]
    BY <1>0, <1>1 DEF Drained, Release, Step, MTypeOK
  <2>3. Addressed' /\ OnlyRecipientGets'
    BY <1>0, <1>1, <2>2
    DEF DrainDelete, Release, Step, Addressed, OnlyRecipientGets, MTypeOK, Replaying
  <2>4. \A m \in Waiting : clients[To[m]] # c
    <3> SUFFICES ASSUME NEW m \in Waiting, clients[To[m]] = c PROVE FALSE
      OBVIOUS
    <3>1. Awaited(m, c)
      BY <1>0, ConstAssumption DEF GroupAwaited, ConstAssumption
    <3>. QED
      BY <1>1, <3>1 DEF DrainDelete, Drained, Awaited
  <2>5. GroupAwaited'
    BY <1>1, <2>2, <2>4, DrainedAwaited DEF DrainDelete, errors
  <2>. QED
    BY <2>1, <2>3, <2>5 DEF SessionInv
<1>2. ASSUME NEW k \in toDelete[c],
             \/ queue' = queue \ {k} /\ UNCHANGED errors
             \/ Fails({k}) /\ UNCHANGED queue,
             toDelete' = [toDelete EXCEPT ![c] = @ \ {k}],
             UNCHANGED <<vars, job, held, peer>>
      PROVE  SessionInv'
  <2>1. OInv' /\ LoginKnown' /\ UNCHANGED <<user, logged, pc, req, clients>>
    BY <1>2, SameSession DEF vars, handlerVars
  <2>2. Addressed' /\ OnlyRecipientGets'
    BY <1>0, <1>2, <2>1 DEF DrainDelete, Addressed, OnlyRecipientGets, MTypeOK
  <2>e. queue' \subseteq queue /\ failed \subseteq failed' /\ k \notin queue' \ failed'
    BY <1>2 DEF Fails, errors
  <2>3. \A m \in queue' \ failed', d \in Conns : Awaited(m, d) => Awaited(m, d)'
    BY <1>0, <1>2, <2>e, <2>1 DEF DrainDelete, Awaited, MTypeOK
  <2>4. GroupAwaited'
    BY <1>0, <1>2, <2>e, <2>1, <2>3, EntryLogged DEF GroupAwaited, Waiting
  <2>. QED
    BY <2>1, <2>2, <2>4 DEF SessionInv
<1>. QED
  BY <1>1, <1>2 DEF DrainDelete

LEMMA BlockSafe ==
  ASSUME RelayInv, OnceInv, SessionInv, NEW c \in Conns, NEW v \in Users,
         Block(c, v) \/ Unblock(c, v)
  PROVE  SessionInv'
<1>1. OInv' /\ LoginKnown' /\ UNCHANGED <<user, logged, pc, req, clients, relayVars, got, queue, failed>>
  BY SameSession DEF errors, Block, blockUser, Unblock, unblockUser, vars, handlerVars
<1>2. Addressed' /\ OnlyRecipientGets' /\ GroupAwaited'
  BY <1>1 DEF SessionInv, relayVars, Addressed, OnlyRecipientGets, GroupAwaited, Waiting, Awaited
<1>. QED
  BY <1>1, <1>2 DEF SessionInv

LEMMA EraseSafe ==
  ASSUME RelayInv, OnceInv, SessionInv, NEW c \in Conns, EraseAccount(c)
  PROVE  SessionInv'
<1>1. [Next]_vars /\ OInv' /\ LoginKnown'
  BY OwnNext, LoggedGrows DEF SessionInv, EraseAccount, Next
<1>2. Addressed' /\ OnlyRecipientGets'
  BY <1>1, AddressedStays DEF EraseAccount, DeleteAccount, relayVars
<1>3. /\ UNCHANGED <<clients, user>> /\ queue' \subseteq queue /\ pc[c] = "idle"
      /\ UNCHANGED <<job, toSend, toDelete, failed>>
      /\ \A d \in Conns \ {c} : pc'[d] = pc[d] /\ req'[d] = req[d]
  BY DEF EraseAccount, DeleteAccount, relayVars, errors, Goto, RelayInv, IInv, TypeOK
<1>4. \A m \in Msgs, d \in Conns : Awaited(m, d) => Awaited(m, d)'
  BY <1>3 DEF Awaited
<1>5. GroupAwaited'
  BY <1>3, <1>4, EntryLogged, MsgAssumption
  DEF SessionInv, GroupAwaited, Waiting, RelayInv, MTypeOK, MsgAssumption
<1>. QED
  BY <1>1, <1>2, <1>5 DEF SessionInv

LEMMA RestartSafe ==
  ASSUME RelayInv, SessionInv, Restart
  PROVE  SessionInv'
<1>1. IInv' /\ LoggedIn' /\ OneUser' /\ EntryIsOwned'
  BY RestartRegistry DEF SessionInv, OInv, Restart, LoggedIn, OneUser, FirstLogin, EntryIsOwned
<1>2. LoginKnown' /\ Addressed' /\ GroupAwaited'
  BY MsgAssumption
  DEF Restart, LoginKnown, Addressed, GroupAwaited, Waiting, Replaying, MsgAssumption
<1>3. OnlyRecipientGets'
  BY DEF SessionInv, Restart, OnlyRecipientGets
<1>. QED
  BY <1>1, <1>2, <1>3 DEF SessionInv, OInv

LEMMA SessionInit == MInit => SessionInv
<1> SUFFICES ASSUME MInit PROVE SessionInv
  OBVIOUS
<1>1. OInv
  BY OwnInit DEF MInit
<1>2. LoginKnown /\ Addressed /\ OnlyRecipientGets /\ GroupAwaited
  BY MsgAssumption
  DEF MInit, Init, LoginKnown, Addressed, OnlyRecipientGets, GroupAwaited, Waiting, Replaying,
      MsgAssumption
<1>. QED
  BY <1>1, <1>2 DEF SessionInv

LEMMA SessionNext ==
  ASSUME RelayInv, OnceInv, SessionInv, [MNext]_allVars
  PROVE  SessionInv'
<1>1. CASE UNCHANGED allVars
  <2>1. OInv' /\ LoginKnown' /\ UNCHANGED <<user, logged, pc, req, clients, relayVars, got, queue, failed>>
    BY <1>1, SameSession DEF allVars, mvars, errors, vars, handlerVars
  <2>2. Addressed' /\ OnlyRecipientGets' /\ GroupAwaited'
    BY <2>1 DEF SessionInv, relayVars, Addressed, OnlyRecipientGets, GroupAwaited, Waiting, Awaited
  <2>. QED
    BY <2>1, <2>2 DEF SessionInv
<1>2. ASSUME NEW c \in Conns, Session(c) \/ (Vanish(c) /\ UNCHANGED mvars)
      PROVE  SessionInv'
  BY <1>2, SessionKeeps DEF Session
<1>3. ASSUME NEW c \in Conns, Relay(c) PROVE SessionInv'
  BY <1>3, MessageKeeps, LookupSafe, SelectSafe, SendSafe, DeleteSafe DEF Relay
<1>4. ASSUME NEW c \in Conns, NEW m \in Msgs, MsgStart(c, m) \/ ConvoMsg(c, m)
      PROVE  SessionInv'
  BY <1>4, MessageKeeps
<1>5. ASSUME NEW u \in Users, Admin(u) \/ Environment(u), UNCHANGED mvars
      PROVE  SessionInv'
  BY <1>5, AdminKeeps
<1>. QED
  BY <1>1, <1>2, <1>3, <1>4, <1>5, BlockSafe, EraseSafe, RestartSafe DEF MNext

(* The three parts of the invariant hold together.                         *)
LEMMA SessionInvariant == MSpec => [](RelayInv /\ OnceInv /\ SessionInv)
<1>1. RelayInv /\ OnceInv /\ SessionInv /\ [MNext]_allVars => (RelayInv /\ OnceInv /\ SessionInv)'
  BY RelayNext, OnceNext, SessionNext
<1>. QED
  BY <1>1, RelayInit, OnceInit, SessionInit, PTL DEF MSpec

(* Only connections that have logged in as the recipient are ever written  *)
(* a message, although the connection is looked up in an earlier critical  *)
(* section and may log in again before it is written to.                   *)
THEOREM OnlyTheRecipient == MSpec => []OnlyRecipientGets
<1>1. SessionInv => OnlyRecipientGets
  BY DEF SessionInv
<1>. QED
  BY <1>1, SessionInvariant, PTL

(* A group message never lies in the queue of a member who is registered   *)
(* and whose login has finished its replay, however often connections log  *)
(* in and as whom, unless a statement about it has failed.                 *)
THEOREM NobodyStranded == MSpec => []ConvoNotStranded
<1>1. SessionInv => ConvoNotStranded
  BY DEF SessionInv, GroupAwaited, Waiting, Awaited, ConvoNotStranded
<1>. QED
  BY <1>1, SessionInvariant, PTL
------------------------------------------------------------------------------
(* The refinement of Mailbox.  What was erased had been stored; what is in *)
(* hand is neither stored nor written, by HeldOnce.                        *)
ErasedStored == erased \subseteq stored

MailInv == RelayInv /\ OnceInv /\ ErasedStored

MailStep == Mail!Next \/ UNCHANGED Mail!mailVars

(* Which steps erase and store. *)
LEMMA ErasedNext ==
  ASSUME RelayInv, ErasedStored, [MNext]_allVars
  PROVE  ErasedStored'
<1>0. queue \subseteq stored
  BY DEF RelayInv, Rows
<1>1. CASE UNCHANGED mvars
  BY <1>1 DEF mvars, history, errors, ErasedStored
<1>2. ASSUME NEW c \in Conns, Relay(c) PROVE ErasedStored'
  <2>1. CASE MsgRecheck(c) \/ MsgLookup(c) \/ MsgForward(c) \/ storeOfflineMessage(c)
    BY <2>1 DEF MsgRecheck, MsgLookup, MsgForward, storeOfflineMessage, history, errors, ErasedStored
  <2>2. CASE DrainLookup(c) \/ DrainSelect(c) \/ DrainSend(c) \/ DrainDelete(c)
    BY <2>2 DEF DrainLookup, DrainSelect, DrainSend, DrainDelete, history, errors, ErasedStored
  <2>. QED
    BY <1>2, <2>1, <2>2 DEF Relay
<1>3. ASSUME NEW c \in Conns, NEW m \in Msgs, MsgStart(c, m) \/ ConvoMsg(c, m)
      PROVE  ErasedStored'
  BY <1>3 DEF MsgStart, ConvoMsg, ErasedStored
<1>4. ASSUME NEW c \in Conns, NEW v \in Users, Block(c, v) \/ Unblock(c, v)
      PROVE  ErasedStored'
  BY <1>4 DEF Block, Unblock, history, errors, ErasedStored
<1>5. ASSUME NEW c \in Conns, EraseAccount(c) PROVE ErasedStored'
  BY <1>0, <1>5 DEF EraseAccount, ErasedStored
<1>6. CASE Restart
  BY <1>6 DEF Restart, ErasedStored
<1>. QED
  BY <1>1, <1>2, <1>3, <1>4, <1>5, <1>6 DEF MNext, Session, allVars

LEMMA MailInvariant == MSpec => []MailInv
<1>1. MInit => MailInv
  BY RelayInit, OnceInit DEF MailInv, ErasedStored, MInit
<1>2. MailInv /\ [MNext]_allVars => MailInv'
  BY RelayNext, OnceNext, ErasedNext DEF MailInv
<1>. QED
  BY <1>1, <1>2, PTL DEF MSpec

(* What is in hand when a handler takes, keeps or releases its message.    *)
LEMMA HandStays ==
  ASSUME \A d \in Conns :
            /\ job'[d] \in Relaying <=> job[d] \in Relaying
            /\ job[d] \in Relaying => held'[d] = held[d]
  PROVE  Hand' = Hand
BY DEF Hand, Relaying

LEMMA HandTakes ==
  ASSUME NEW c \in Conns, job[c] \notin Relaying, job'[c] \in Relaying,
         \A d \in Conns : d # c => job'[d] = job[d] /\ held'[d] = held[d]
  PROVE  Hand' = Hand \cup {held'[c]}
BY DEF Hand, Relaying

LEMMA HandReleases ==
  ASSUME HeldOnce, NEW c \in Conns, job[c] \in Relaying, job'[c] \notin Relaying,
         \A d \in Conns : d # c => job'[d] = job[d] /\ held'[d] = held[d]
  PROVE  Hand' = Hand \ {held[c]}
BY DEF Hand, Relaying, HeldOnce

(* A message in hand has been nowhere else.                                *)
LEMMA InHand ==
  ASSUME MailInv, NEW c \in Conns, job[c] \in Relaying
  PROVE  /\ held[c] \in Hand /\ held[c] \in Msgs
         /\ held[c] \notin stored \cup tried
BY MsgAssumption DEF MailInv, RelayInv, OnceInv, HeldOnce, Handling, MTypeOK, Hand, Relaying,
                     MsgAssumption

(* The steps of "msg". *)
LEMMA StartMails ==
  ASSUME MailInv, NEW c \in Conns, NEW m \in Msgs, MsgStart(c, m)
  PROVE  MailStep
<1> USE DEF MsgStart, Step, relayVars
<1>0. MTypeOK
  BY DEF MailInv, RelayInv
<1>1. /\ m \in (Msgs \ sent) \ Group /\ Msgs \ sent' = (Msgs \ sent) \ {m}
      /\ muted' = IF Mail!Stopped(m) THEN muted \cup {m} ELSE muted
      /\ UNCHANGED <<queue, tried, erased, blocks>>
  BY DEF Mail!Stopped, BlockedPair
<1>2. Hand' = Hand \cup {m} \/ (Mail!Stopped(m) /\ Hand' = Hand)
  <2>1. CASE UNCHANGED relayVars /\ <<To[m], From[m]>> \in blocks
    <3>1. Hand' = Hand
      BY <2>1, HandStays
    <3>. QED
      BY <2>1, <3>1 DEF Mail!Stopped
  <2>2. CASE job' = [job EXCEPT ![c] = "recheck"] /\ held' = [held EXCEPT ![c] = m]
    <3>1. /\ job[c] \notin Relaying /\ job'[c] \in Relaying /\ held'[c] = m
          /\ \A d \in Conns : d # c => job'[d] = job[d] /\ held'[d] = held[d]
      BY <1>0, <2>2 DEF MTypeOK, Relaying
    <3>2. Hand' = Hand \cup {held'[c]}
      BY <3>1, HandTakes
    <3>. QED
      BY <3>1, <3>2
  <2>. QED
    BY <2>1, <2>2
<1>e. failed' = failed \/ (Mail!Stopped(m) /\ failed' = failed \cup {m})
  BY DEF NotBlocked, Fails, errors, Mail!Stopped
<1>3. Mail!Send(m)
  BY <1>1, <1>2, <1>e DEF Mail!Send
<1>. QED
  BY <1>3 DEF MailStep, Mail!Next

LEMMA RelayMails ==
  ASSUME MailInv, NEW c \in Conns,
         MsgRecheck(c) \/ MsgLookup(c) \/ MsgForward(c) \/ storeOfflineMessage(c)
  PROVE  MailStep
<1> DEFINE m == held[c]
<1>0. MTypeOK /\ Blocked /\ Handling /\ HeldOnce
  BY DEF MailInv, RelayInv, OnceInv
<1>1. job[c] \in Relaying
  BY DEF MsgRecheck, MsgLookup, MsgForward, storeOfflineMessage, Relaying
<1>2. m \in Hand /\ m \in Msgs /\ m \in sent /\ m \notin stored \cup tried
  BY <1>0, <1>1, InHand DEF Handling
<1>3. \A d \in Conns : d # c => job'[d] = job[d] /\ held'[d] = held[d]
  BY <1>0 DEF MsgRecheck, MsgLookup, MsgForward, storeOfflineMessage, Release, Step, MTypeOK
<1>4. UNCHANGED <<sent, erased, blocks, muted>>
  BY DEF MsgRecheck, MsgLookup, MsgForward, storeOfflineMessage, history
<1>5. CASE Release(c)
  <2>1. job'[c] \notin Relaying
    BY <1>0, <1>5 DEF Release, Step, MTypeOK, Relaying
  <2>2. Hand' = Hand \ {m}
    BY <1>0, <1>1, <1>3, <2>1, HandReleases
  <2>3. CASE MsgRecheck(c)
    <3>1. <<From[m], To[m]>> \in blocks /\ UNCHANGED <<queue, tried, failed>>
      BY <1>0, <1>5, <2>1, <2>3 DEF MsgRecheck, Step, MTypeOK, Relaying, history, errors
    <3>2. Mail!Refuse(m)
      BY <1>2, <1>4, <2>2, <3>1 DEF Mail!Refuse, Mail!Stopped
    <3>. QED
      BY <1>2, <3>2 DEF MailStep, Mail!Next
  <2>4. CASE MsgForward(c)
    <3>1. m \notin muted \ failed /\ tried' = tried \cup {m} /\ UNCHANGED <<queue, failed>>
      BY <1>0, <2>4 DEF MsgForward, Write, Blocked, errors
    <3>2. Mail!Deliver(m)
      BY <1>2, <1>4, <2>2, <3>1 DEF Mail!Deliver
    <3>. QED
      BY <1>2, <3>2 DEF MailStep, Mail!Next
  <2>5. CASE storeOfflineMessage(c)
    <3>1. /\ m \notin muted \ failed /\ UNCHANGED tried
          /\ \/ queue' = queue \cup {m} /\ UNCHANGED failed
             \/ failed' = failed \cup {m} /\ UNCHANGED queue
      BY <1>0, <2>5 DEF storeOfflineMessage, Blocked, Fails, errors
    <3>2. Mail!Keep(m) \/ Mail!Lose(m)
      BY <1>2, <1>4, <2>2, <3>1 DEF Mail!Keep, Mail!Lose
    <3>. QED
      BY <1>2, <3>2 DEF MailStep, Mail!Next
  <2>6. CASE MsgLookup(c)
    BY <1>0, <2>1, <2>6 DEF MsgLookup, Step, MTypeOK, Relaying
  <2>. QED
    BY <2>3, <2>4, <2>5, <2>6
<1>6. CASE ~ Release(c)
  <2>1. job'[c] \in Relaying /\ held'[c] = m /\ UNCHANGED <<queue, tried>>
    BY <1>0, <1>6 DEF MsgRecheck, MsgLookup, MsgForward, storeOfflineMessage, Step, MTypeOK,
                      Relaying, history, errors
  <2>2. \A d \in Conns :
            /\ job'[d] \in Relaying <=> job[d] \in Relaying
            /\ job[d] \in Relaying => held'[d] = held[d]
    BY <1>1, <1>3, <2>1
  <2>3. Hand' = Hand
    BY <2>2, HandStays
  <2>4. failed' = failed \/ failed' = failed \cup {m}
    BY DEF MsgRecheck, MsgLookup, MsgForward, storeOfflineMessage, NotBlocked, Fails, errors
  <2>5. CASE failed' = failed
    BY <1>4, <2>1, <2>3, <2>5 DEF MailStep, Mail!mailVars
  <2>6. CASE failed' = failed \cup {m}
    <3>1. Mail!Neglect({m})
      BY <1>2, <1>4, <2>1, <2>3, <2>6 DEF Mail!Neglect
    <3>2. {m} \in SUBSET Msgs
      BY <1>2
    <3>. QED
      BY <3>1, <3>2 DEF MailStep, Mail!Next
  <2>. QED
    BY <2>4, <2>5, <2>6
<1>. QED
  BY <1>5, <1>6

LEMMA ConvoMails ==
  ASSUME MailInv, NEW c \in Conns, NEW m \in Msgs, ConvoMsg(c, m)
  PROVE  MailStep
<1> USE DEF ConvoMsg, relayVars
<1>1. Hand' = Hand
  BY HandStays
<1>2. /\ m \in (Msgs \ sent) \cap Group /\ Msgs \ sent' = (Msgs \ sent) \ {m}
      /\ UNCHANGED <<erased, blocks, muted>>
  OBVIOUS
<1>3. \/ tried' = tried \cup {m} /\ UNCHANGED <<queue, failed>>
      \/ queue' = queue \cup {m} /\ UNCHANGED <<tried, failed>>
      \/ failed' = failed \cup {m} /\ UNCHANGED <<tried, queue>>
  BY DEF Write, Fails, errors
<1>4. Mail!Post(m)
  BY <1>1, <1>2, <1>3 DEF Mail!Post
<1>. QED
  BY <1>4 DEF MailStep, Mail!Next

(* The steps of a replay: it may write rows that have left the queue since *)
(* it read them, and it deletes only what it has written.  A statement     *)
(* that fails leaves its rows where they are.                              *)
LEMMA ReplayMails ==
  ASSUME MailInv, NEW c \in Conns,
         DrainLookup(c) \/ DrainSelect(c) \/ DrainSend(c) \/ DrainDelete(c)
  PROVE  MailStep
<1>0. MTypeOK /\ Rows /\ NoRowDeletedUnsent
  BY DEF MailInv, RelayInv
<1>1. job[c] \notin Relaying
  BY DEF DrainLookup, DrainSelect, DrainSend, DrainDelete, Relaying
<1>2. job'[c] \notin Relaying /\ \A d \in Conns : d # c => job'[d] = job[d] /\ held'[d] = held[d]
  BY <1>0, <1>1 DEF DrainLookup, DrainSelect, DrainSend, DrainDelete, Release, Step, MTypeOK,
                    Relaying
<1>3. Hand' = Hand
  <2>1. \A d \in Conns :
            /\ job'[d] \in Relaying <=> job[d] \in Relaying
            /\ job[d] \in Relaying => held'[d] = held[d]
    BY <1>1, <1>2
  <2>. QED
    BY <2>1, HandStays
<1>4. UNCHANGED <<sent, erased, blocks, muted>>
  BY DEF DrainLookup, DrainSelect, DrainSend, DrainDelete, history
<1>5. CASE UNCHANGED <<queue, tried, failed>>
  BY <1>3, <1>4, <1>5 DEF MailStep, Mail!mailVars
<1>6. ASSUME NEW m \in toSend[c], tried' = tried \cup {m}, UNCHANGED <<queue, failed>>
      PROVE  MailStep
  <2>1. m \in Msgs /\ m \in queue \cup tried \cup erased
    BY <1>0 DEF Rows, NoRowDeletedUnsent, MTypeOK
  <2>2. CASE m \in tried
    <3>1. tried' = tried
      BY <1>6, <2>2
    <3>. QED
      BY <1>5, <1>6, <3>1
  <2>3. CASE m \in queue \cup erased
    <3>1. Mail!Replay(m)
      BY <1>3, <1>4, <1>6, <2>3 DEF Mail!Replay
    <3>. QED
      BY <2>1, <3>1 DEF MailStep, Mail!Next
  <2>. QED
    BY <2>1, <2>2, <2>3
<1>7. ASSUME NEW m \in toDelete[c], queue' = queue \ {m}, UNCHANGED <<tried, failed>>
      PROVE  MailStep
  <2>1. m \in Msgs /\ m \in tried
    BY <1>0 DEF Rows, MTypeOK
  <2>2. CASE m \in queue
    <3>1. Mail!Clear(m)
      BY <1>3, <1>4, <1>7, <2>1, <2>2 DEF Mail!Clear
    <3>. QED
      BY <2>1, <3>1 DEF MailStep, Mail!Next
  <2>3. CASE m \notin queue
    <3>1. queue' = queue
      BY <1>7, <2>3
    <3>. QED
      BY <1>5, <1>7, <3>1
  <2>. QED
    BY <2>2, <2>3
<1>9. ASSUME NEW M \in SUBSET Msgs, M \subseteq sent, Fails(M), UNCHANGED <<queue, tried>>
      PROVE  MailStep
  <2>1. Mail!Neglect(M)
    BY <1>3, <1>4, <1>9 DEF Fails, Mail!Neglect
  <2>. QED
    BY <2>1 DEF MailStep, Mail!Next
<1>8. \/ UNCHANGED <<queue, tried, failed>>
      \/ \E m \in toSend[c] : tried' = tried \cup {m} /\ UNCHANGED <<queue, failed>>
      \/ \E m \in toDelete[c] : queue' = queue \ {m} /\ UNCHANGED <<tried, failed>>
      \/ \E M \in SUBSET Msgs : M \subseteq sent /\ Fails(M) /\ UNCHANGED <<queue, tried>>
  <2>1. CASE DrainLookup(c)
    BY <2>1 DEF DrainLookup, errors
  <2>2. CASE DrainSend(c)
    BY <2>2 DEF DrainSend, Write, errors
  <2>3. CASE DrainDelete(c)
    <3>1. \A m \in toDelete[c] : {m} \in SUBSET Msgs /\ {m} \subseteq sent
      BY <1>0 DEF Rows, MTypeOK
    <3>. QED
      BY <2>3, <3>1 DEF DrainDelete, history, errors
  <2>4. CASE DrainSelect(c)
    <3>1. PICK M \in SUBSET RowsFor(user[c]) : UNCHANGED errors \/ Fails(M)
      BY <2>4, SelectReturns
    <3>2. M \in SUBSET Msgs /\ M \subseteq sent
      BY <1>0 DEF RowsFor, Rows, MTypeOK
    <3>. QED
      BY <2>4, <3>1, <3>2 DEF DrainSelect, history, errors
  <2>. QED
    BY <2>1, <2>2, <2>3, <2>4
<1>. QED
  BY <1>5, <1>6, <1>7, <1>8, <1>9

(* Blocks, deletions of accounts and restarts. *)
LEMMA BlockMails ==
  ASSUME MailInv, NEW c \in Conns, NEW v \in Users, Block(c, v) \/ Unblock(c, v)
  PROVE  MailStep
<1>0. MTypeOK
  BY DEF MailInv, RelayInv
<1>1. Hand' = Hand
  BY HandStays DEF Block, Unblock, relayVars
<1>2. CASE Block(c, v)
  <2>1. user[c] \in Users
    BY <1>2, MsgAssumption DEF Block, MsgAssumption
  <2>2. Mail!Block(user[c], v)
    BY <1>1, <1>2 DEF Block, blockUser, history, errors, Mail!Block
  <2>. QED
    BY <2>1, <2>2 DEF MailStep, Mail!Next
<1>3. CASE Unblock(c, v)
  <2>1. user[c] \in Users
    BY <1>0, <1>3 DEF Unblock, MTypeOK
  <2>2. muted' = muted \ {m \in Msgs : Mail!Between(m, user[c], v)}
    BY <1>3 DEF Unblock, BlockedPair, Mail!Between
  <2>3. Mail!Unblock(user[c], v)
    BY <1>1, <1>3, <2>2 DEF Unblock, unblockUser, errors, Mail!Unblock
  <2>. QED
    BY <2>1, <2>3 DEF MailStep, Mail!Next
<1>. QED
  BY <1>2, <1>3

LEMMA EraseMails ==
  ASSUME MailInv, NEW c \in Conns, EraseAccount(c)
  PROVE  MailStep
<1> USE DEF EraseAccount, relayVars, errors
<1>1. Hand' = Hand
  BY HandStays
<1>2. user[c] \in Users /\ queue \subseteq Msgs
  BY ConstAssumption DEF DeleteAccount, ConstAssumption, MailInv, RelayInv, MTypeOK
<1>3. Mail!Erase(user[c])
  BY <1>1, <1>2 DEF Mail!Erase
<1>. QED
  BY <1>2, <1>3 DEF MailStep, Mail!Next

LEMMA RestartMails == ASSUME Restart PROVE MailStep
<1>1. \A d \in Conns : job'[d] \notin Relaying
  BY DEF Restart, Relaying
<1>2. Hand' = {}
  BY <1>1 DEF Hand, Relaying
<1>3. Mail!Crash
  BY <1>2 DEF Restart, Mail!Crash
<1>. QED
  BY <1>3 DEF MailStep, Mail!Next

(* Every step of the relay is a step of the mailbox or none.               *)
LEMMA MailNext == ASSUME MailInv, [MNext]_allVars PROVE MailStep
<1>1. CASE UNCHANGED mvars
  <2>1. Hand' = Hand
    BY <1>1, HandStays DEF mvars, relayVars
  <2>. QED
    BY <1>1, <2>1 DEF mvars, history, errors, MailStep, Mail!mailVars
<1>2. ASSUME NEW c \in Conns, Relay(c) PROVE MailStep
  BY <1>2, RelayMails, ReplayMails DEF Relay
<1>. QED
  BY <1>1, <1>2, StartMails, ConvoMails, BlockMails, EraseMails, RestartMails
  DEF MNext, Session, allVars

(* The relay implements the mailbox: a message that was taken is dropped   *)
(* only under a block, in a restart or by a failing statement, is kept     *)
(* until it has been written or an account goes, and is not let past a     *)
(* block that stays and can be read - for any connections, repeated        *)
(* logins, overlapping replays, restarts and failures of the database.     *)
THEOREM ImplementsMailbox == MSpec => MailboxSpec
<1>1. MInit => Mail!Init
  BY MsgAssumption DEF MInit, Mail!Init, Hand, Relaying, MsgAssumption
<1>2. MailInv /\ [MNext]_allVars => [Mail!Next]_(Mail!mailVars)
  BY MailNext DEF MailStep
<1>. QED
  BY <1>1, <1>2, MailInvariant, PTL DEF MSpec, MailboxSpec, Mail!Spec
------------------------------------------------------------------------------
(* What the mailbox promises, proved of Mailbox and carried to the relay.  *)
LEMMA SortedNext ==
  ASSUME Mail!Sorted, [Mail!Next]_(Mail!mailVars)
  PROVE  Mail!Sorted'
<1> USE DEF Mail!Sorted
<1>1. CASE UNCHANGED Mail!mailVars
  BY <1>1 DEF Mail!mailVars
<1>2. ASSUME NEW m \in Msgs, Mail!Send(m) \/ Mail!Post(m) \/ Mail!Refuse(m) \/ Mail!Lose(m)
      PROVE  Mail!Sorted'
  BY <1>2 DEF Mail!Send, Mail!Post, Mail!Refuse, Mail!Lose
<1>3. ASSUME NEW m \in Msgs, Mail!Deliver(m) \/ Mail!Keep(m) \/ Mail!Replay(m) \/ Mail!Clear(m)
      PROVE  Mail!Sorted'
  BY <1>3 DEF Mail!Deliver, Mail!Keep, Mail!Replay, Mail!Clear
<1>4. ASSUME NEW u \in Users, NEW v \in Users, Mail!Block(u, v) \/ Mail!Unblock(u, v)
      PROVE  Mail!Sorted'
  BY <1>4 DEF Mail!Block, Mail!Unblock
<1>5. ASSUME NEW u \in Users, Mail!Erase(u) PROVE Mail!Sorted'
  BY <1>5 DEF Mail!Erase
<1>6. CASE Mail!Crash
  BY <1>6 DEF Mail!Crash
<1>7. ASSUME NEW M \in SUBSET Msgs, Mail!Neglect(M) PROVE Mail!Sorted'
  BY <1>7 DEF Mail!Neglect
<1>. QED
  BY <1>1, <1>2, <1>3, <1>4, <1>5, <1>6, <1>7 DEF Mail!Next

LEMMA SortedAlways == Mail!Spec => []Mail!Sorted
<1>1. Mail!Init => Mail!Sorted
  BY DEF Mail!Init, Mail!Sorted
<1>. QED
  BY <1>1, SortedNext, PTL DEF Mail!Spec

LEMMA LossesNext ==
  ASSUME Mail!Sorted, [Mail!Next]_(Mail!mailVars)
  PROVE  [Mail!Losses]_(Mail!mailVars)
<1> USE DEF Mail!Sorted, Mail!Losses, Mail!dropped
<1>1. ASSUME NEW m \in Msgs, Mail!Send(m) \/ Mail!Post(m) PROVE Mail!Losses
  BY <1>1 DEF Mail!Send, Mail!Post
<1>2. ASSUME NEW m \in Msgs, Mail!Refuse(m) \/ Mail!Deliver(m) \/ Mail!Keep(m) \/ Mail!Lose(m)
      PROVE  Mail!Losses
  BY <1>2 DEF Mail!Refuse, Mail!Deliver, Mail!Keep, Mail!Lose
<1>3. ASSUME NEW m \in Msgs, Mail!Replay(m) \/ Mail!Clear(m) PROVE Mail!Losses
  BY <1>3 DEF Mail!Replay, Mail!Clear
<1>4. ASSUME NEW u \in Users, NEW v \in Users, Mail!Block(u, v) \/ Mail!Unblock(u, v)
      PROVE  Mail!Losses
  BY <1>4 DEF Mail!Block, Mail!Unblock
<1>5. ASSUME NEW u \in Users, Mail!Erase(u) PROVE Mail!Losses
  BY <1>5 DEF Mail!Erase
<1>6. CASE Mail!Crash
  BY <1>6 DEF Mail!Crash
<1>7. ASSUME NEW M \in SUBSET Msgs, Mail!Neglect(M) PROVE Mail!Losses
  BY <1>7 DEF Mail!Neglect
<1>. QED
  BY <1>1, <1>2, <1>3, <1>4, <1>5, <1>6, <1>7 DEF Mail!Next

(* In the mailbox, and so on the relay, nothing is dropped but what a      *)
(* block stops, a crash takes from hand or the database fails to keep, and *)
(* no message leaves the mailbox unwritten but with an account.            *)
THEOREM OnlyKnownLosses == Mail!Spec => Mail!OnlyTheseLosses
BY SortedAlways, LossesNext, PTL DEF Mail!Spec, Mail!OnlyTheseLosses

(* The relay's messages are each in one place, and a step loses none but   *)
(* in the ways the mailbox allows.                                         *)
COROLLARY RelayLosses == MSpec => [](Mail!Sorted) /\ Mail!OnlyTheseLosses
BY ImplementsMailbox, SortedAlways, OnlyKnownLosses, PTL DEF MailboxSpec
===============================================================================
