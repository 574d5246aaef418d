---------------------------- MODULE NexusMessaging ----------------------------
(***************************************************************************)
(* Messages: the "msg" and "convo_msg" handlers, block and unblock, the    *)
(* table of offline messages and its replay at login, composed with the    *)
(* session registry of NexusSessions.  The step the registry module calls  *)
(* "drain" is taken apart here: look the client up, select the rows, send  *)
(* them, delete them - each a step of its own, as each is a separate lock, *)
(* query or write in the code.                                             *)
(***************************************************************************)
EXTENDS NexusSessions, Naturals, FiniteSets

CONSTANTS
    Msgs,          \* message frames clients will send, each at most once
    NoMsg,         \* "handles no message"
    Group,         \* those sent to a conversation, by "convo_msg"
    From, To,      \* sender and recipient (the other member) of each message
    Queue0,        \* messages queued before the relay started
    Blockers,      \* users that block and unblock others
    MaxFaults      \* bound: how often the relay process dies and starts again,
                   \* or a statement of its database fails

ASSUME MsgAssumption ==
    /\ NoMsg \notin Msgs /\ Group \subseteq Msgs
    /\ From \in [Msgs -> Users] /\ To \in [Msgs -> Users]
    /\ Queue0 \subseteq Msgs /\ Blockers \subseteq Users
    /\ MaxFaults \in Nat

VARIABLES
    job,        \* the step of the msg or drain code a handler is at
    held,       \* the message a handler is relaying
    peer,       \* the recipient connection it looked up, or None
    toSend,     \* selected rows it has yet to send
    toDelete,   \* rows it has sent and has yet to delete
    queue,      \* offline_messages
    blocks,     \* blocks: pairs <<blocker, blocked>>
    got,        \* got[c][m]: how often m was written to open connection c
    sent,       \* messages whose handler has started
    stored,     \* messages that were ever queued
    tried,      \* messages some connection was sent, successfully or not
    erased,     \* queued messages removed with an account
    muted,      \* messages started, and so far handled, under a block
    failed,     \* messages that a failed statement was about
    overlapped, \* have two replays of one queue overlapped, or one crashed?
    faults

relayVars == <<job, held, peer, toSend, toDelete>>
history   == <<sent, stored, tried, erased, muted, overlapped>>
errors    == <<failed, faults>>
mvars     == <<relayVars, queue, blocks, got, history, errors>>
allVars   == <<vars, mvars>>

MTypeOK ==
    /\ job \in [Conns -> {"none", "recheck", "lookup", "forward", "store",
                          "select", "send", "delete"}]
    /\ held \in [Conns -> Msgs \cup {NoMsg}]
    /\ peer \in [Conns -> Conns \cup {None}]
    /\ toSend \in [Conns -> SUBSET Msgs] /\ toDelete \in [Conns -> SUBSET Msgs]
    /\ queue \subseteq Msgs /\ blocks \subseteq Users \X Users
    /\ got \in [Conns -> [Msgs -> Nat]]
    /\ sent \subseteq Msgs /\ stored \subseteq Msgs /\ tried \subseteq Msgs
    /\ erased \subseteq Msgs /\ muted \subseteq Msgs /\ failed \subseteq Msgs
    /\ overlapped \in BOOLEAN /\ faults \in 0..MaxFaults

MInit ==
    /\ Init
    /\ job = [c \in Conns |-> "none"]
    /\ held = [c \in Conns |-> NoMsg]
    /\ peer = [c \in Conns |-> None]
    /\ toSend = [c \in Conns |-> {}] /\ toDelete = [c \in Conns |-> {}]
    /\ queue = Queue0 /\ blocks = {}
    /\ got = [c \in Conns |-> [m \in Msgs |-> 0]]
    /\ sent = Queue0 /\ stored = Queue0 /\ tried = {} /\ erased = {} /\ muted = {}
    /\ failed = {} /\ faults = 0 /\ overlapped = FALSE
------------------------------------------------------------------------------
Step(c, l) == job' = [job EXCEPT ![c] = l]

(* A frame written to d; a write to a closed socket is lost unnoticed.     *)
Write(d, m) ==
    /\ got' = IF sock[d] = "open" THEN [got EXCEPT ![d][m] = @ + 1] ELSE got
    /\ tried' = tried \cup {m}

(* The database fails a statement about the messages M, or ends its rows   *)
(* before them; no handler tells anyone.                                   *)
Fails(M) ==
    /\ faults < MaxFaults
    /\ faults' = faults + 1
    /\ failed' = failed \cup M

BlockedPair(m) == {<<To[m], From[m]>>, <<From[m], To[m]>>}

(* isBlocked, which takes a failed query for "not blocked".                *)
NotBlocked(u, v, m) ==
    \/ <<u, v>> \notin blocks /\ UNCHANGED errors
    \/ <<u, v>> \in blocks /\ Fails({m})

(* "msg": isBlocked(recipient, sender) is read first.                      *)
MsgStart(c, m) ==
    /\ pc[c] = "idle" /\ job[c] = "none"
    /\ user[c] = From[m] /\ m \notin sent \cup Group
    /\ sent' = sent \cup {m}
    /\ muted' = IF BlockedPair(m) \cap blocks # {} THEN muted \cup {m} ELSE muted
    /\ \/ /\ <<To[m], From[m]>> \in blocks
          /\ UNCHANGED <<relayVars, errors>>
       \/ /\ NotBlocked(To[m], From[m], m)
          /\ Step(c, "recheck")
          /\ held' = [held EXCEPT ![c] = m]
          /\ UNCHANGED <<peer, toSend, toDelete>>
    /\ UNCHANGED <<vars, queue, blocks, got, stored, tried, erased, overlapped>>

(* The handler has finished with its message.                              *)
Release(c) ==
    /\ Step(c, "none")
    /\ held' = [held EXCEPT ![c] = NoMsg]
    /\ peer' = [peer EXCEPT ![c] = None]

(* isBlocked(sender, recipient) is read second.                            *)
MsgNoRecheck(c) ==  \* variant: only the recipient's block counts
    /\ job[c] = "recheck"
    /\ Step(c, "lookup")
    /\ UNCHANGED <<vars, held, peer, toSend, toDelete, queue, blocks, got, history, errors>>

MsgRecheck(c) ==
    LET m == held[c] IN
    /\ job[c] = "recheck"
    /\ \/ <<From[m], To[m]>> \in blocks /\ Release(c) /\ UNCHANGED errors
       \/ /\ NotBlocked(From[m], To[m], m)
          /\ Step(c, "lookup")
          /\ UNCHANGED <<held, peer>>
    /\ UNCHANGED <<vars, toSend, toDelete, queue, blocks, got, history>>

(* The recipient's client is looked up under the read lock ...             *)
MsgLookup(c) ==
    LET d == clients[To[held[c]]] IN
    /\ job[c] = "lookup"
    /\ peer' = [peer EXCEPT ![c] = d]
    /\ Step(c, IF d = None THEN "store" ELSE "forward")
    /\ UNCHANGED <<vars, held, toSend, toDelete, queue, blocks, got, history, errors>>

(* ... and used after it: the message is written to that connection, or    *)
(* queued.                                                                 *)
MsgForward(c) ==
    /\ job[c] = "forward"
    /\ Write(peer[c], held[c])
    /\ Release(c)
    /\ UNCHANGED <<vars, toSend, toDelete, queue, blocks, sent, stored, erased,
                   muted, overlapped, errors>>

(* An INSERT that fails is logged; the sender is told "delivered_offline". *)
storeOfflineMessage(c) ==
    /\ job[c] = "store"
    /\ \/ /\ queue' = queue \cup {held[c]}
          /\ stored' = stored \cup {held[c]}
          /\ UNCHANGED errors
       \/ Fails({held[c]}) /\ UNCHANGED <<queue, stored>>
    /\ Release(c)
    /\ UNCHANGED <<vars, toSend, toDelete, blocks, got, sent, tried, erased,
                   muted, overlapped>>

(* "convo_msg": the read lock is held over the whole fan-out, queueing     *)
(* included.  Blocks are not consulted.  When the members cannot be read,  *)
(* or the INSERT fails, the message is gone.                               *)
ConvoMsgUnlocked(c, m) ==  \* variant: the lock covers the lookup only
    /\ pc[c] = "idle" /\ job[c] = "none"
    /\ user[c] = From[m] /\ m \in Group \ sent
    /\ sent' = sent \cup {m}
    /\ Step(c, "lookup")
    /\ held' = [held EXCEPT ![c] = m]
    /\ UNCHANGED <<vars, peer, toSend, toDelete, queue, blocks, got, stored,
                   tried, erased, muted, overlapped, errors>>

ConvoMsg(c, m) ==
    LET d == clients[To[m]] IN
    /\ pc[c] = "idle" /\ job[c] = "none"
    /\ user[c] = From[m] /\ m \in Group \ sent
    /\ sent' = sent \cup {m}
    /\ \/ d # None /\ Write(d, m) /\ UNCHANGED <<queue, stored, errors>>
       \/ /\ d = None
          /\ queue' = queue \cup {m}
          /\ stored' = stored \cup {m}
          /\ UNCHANGED <<got, tried, errors>>
       \/ Fails({m}) /\ UNCHANGED <<queue, stored, got, tried>>
    /\ UNCHANGED <<vars, relayVars, blocks, erased, muted, overlapped>>
------------------------------------------------------------------------------
(* deliverOfflineMessages, called by every login after its broadcast.      *)
Draining(c) == pc[c] = "drain" /\ job[c] # "none"

DrainLookup(c) ==
    LET d == clients[user[c]] IN
    /\ pc[c] = "drain" /\ job[c] = "none"
    /\ \/ d = None /\ Drained(c) /\ UNCHANGED <<job, peer, overlapped>>
       \/ /\ d # None
          /\ Step(c, "select")
          /\ peer' = [peer EXCEPT ![c] = d]
          /\ overlapped' = (overlapped \/
                \E e \in Conns \ {c} : Draining(e) /\ user[e] = user[c])
          /\ UNCHANGED vars
    /\ UNCHANGED <<held, toSend, toDelete, queue, blocks, got, sent, stored,
                   tried, erased, muted, errors>>

(* The rows the SELECT returns.                                            *)
AllRows(u) == queue                             \* variant: no WHERE
RowsFor(u) == {m \in queue : To[m] = u}

(* A SELECT that fails, or ends early, returns fewer.                      *)
DrainSelect(c) ==
    /\ job[c] = "select"
    /\ \/ /\ toSend' = [toSend EXCEPT ![c] = RowsFor(user[c])]
          /\ UNCHANGED errors
       \/ \E missing \in SUBSET RowsFor(user[c]) \ {{}} :
             /\ Fails(missing)
             /\ toSend' = [toSend EXCEPT ![c] = RowsFor(user[c]) \ missing]
    /\ Step(c, "send")
    /\ UNCHANGED <<vars, held, peer, toDelete, queue, blocks, got, history>>

DrainSend(c) ==
    /\ job[c] = "send"
    /\ \/ /\ \E m \in toSend[c] :
                /\ Write(peer[c], m)
                /\ toSend' = [toSend EXCEPT ![c] = @ \ {m}]
                /\ toDelete' = [toDelete EXCEPT ![c] = @ \cup {m}]
          /\ UNCHANGED job
       \/ toSend[c] = {} /\ Step(c, "delete") /\ UNCHANGED <<toSend, toDelete, got, tried>>
    /\ UNCHANGED <<vars, held, peer, queue, blocks, sent, stored, erased, muted,
                   overlapped, errors>>

DrainDeleteAll(c) ==  \* variant: DELETE ... WHERE recipient = ?
    /\ job[c] = "delete"
    /\ queue' = queue \ RowsFor(user[c])
    /\ toDelete' = [toDelete EXCEPT ![c] = {}]
    /\ Drained(c) /\ Release(c)
    /\ UNCHANGED <<toSend, blocks, got, history, errors>>

DrainDeleteNone(c) ==  \* variant: the rows stay
    /\ job[c] = "delete"
    /\ toDelete' = [toDelete EXCEPT ![c] = {}]
    /\ Drained(c) /\ Release(c)
    /\ UNCHANGED <<queue, toSend, blocks, got, history, errors>>

(* The error of a DELETE is ignored: the row stays.                        *)
DrainDelete(c) ==
    /\ job[c] = "delete"
    /\ \/ /\ \E m \in toDelete[c] :
                /\ \/ queue' = queue \ {m} /\ UNCHANGED errors
                   \/ Fails({m}) /\ UNCHANGED queue
                /\ toDelete' = [toDelete EXCEPT ![c] = @ \ {m}]
          /\ UNCHANGED <<vars, job, held, peer>>
       \/ toDelete[c] = {} /\ Drained(c) /\ Release(c) /\ UNCHANGED <<queue, toDelete, errors>>
    /\ UNCHANGED <<toSend, blocks, got, history>>
------------------------------------------------------------------------------
(* "block" and "unblock".  A message under way while a block is lifted is  *)
(* no longer one the block should have stopped.                            *)
blockUser(u, v) == u # v /\ blocks' = blocks \cup {<<u, v>>}
unblockUser(u, v) == blocks' = blocks \ {<<u, v>>}

Block(c, v) ==
    /\ pc[c] = "idle" /\ job[c] = "none"
    /\ user[c] \in Blockers
    /\ blockUser(user[c], v)
    /\ UNCHANGED <<vars, relayVars, queue, got, history, errors>>

Unblock(c, v) ==
    /\ pc[c] = "idle" /\ job[c] = "none"
    /\ <<user[c], v>> \in blocks
    /\ unblockUser(user[c], v)
    /\ muted' = muted \ {m \in Msgs : <<user[c], v>> \in BlockedPair(m)}
    /\ UNCHANGED <<vars, relayVars, queue, got, sent, stored, tried, erased,
                   overlapped, errors>>

(* Deleting an account also deletes its queued messages and its blocks.    *)
EraseAccount(c) ==
    LET gone == {m \in queue : user[c] \in {From[m], To[m]}} IN
    /\ job[c] = "none"
    /\ DeleteAccount(c)
    /\ queue' = queue \ gone
    /\ erased' = erased \cup gone
    /\ blocks' = {b \in blocks : user[c] \notin {b[1], b[2]}}
    /\ muted' = muted \ {m \in Msgs : user[c] \in {From[m], To[m]}}
    /\ UNCHANGED <<relayVars, got, sent, stored, tried, overlapped, errors>>

(* The relay process dies: the registry and every handler are lost, the    *)
(* database is not.                                                        *)
Restart ==
    /\ faults < MaxFaults
    /\ faults' = faults + 1
    /\ clients' = [u \in Users |-> None]
    /\ sock' = [c \in Conns |-> "closed"]
    /\ pc' = [c \in Conns |-> IF pc[c] = "unused" THEN "unused" ELSE "exit"]
    /\ banning' = [u \in Users |-> "idle"]
    /\ job' = [c \in Conns |-> "none"]
    /\ held' = [c \in Conns |-> NoMsg]
    /\ peer' = [c \in Conns |-> None]
    /\ toSend' = [c \in Conns |-> {}] /\ toDelete' = [c \in Conns |-> {}]
    /\ overlapped' = (overlapped \/ \E c \in Conns : Draining(c))
    /\ UNCHANGED <<status, user, req, tgt, say, todo, seen, shown, dbVars, logged,
                   queue, blocks, got, sent, stored, tried, erased, muted, failed>>
------------------------------------------------------------------------------
Relay(c) ==
    \/ MsgRecheck(c) \/ MsgLookup(c) \/ MsgForward(c) \/ storeOfflineMessage(c)
    \/ DrainLookup(c) \/ DrainSelect(c) \/ DrainSend(c) \/ DrainDelete(c)

Session(c) == job[c] = "none" /\ (Continue(c) \/ Request(c)) /\ UNCHANGED mvars

MNext ==
    \/ \E c \in Conns :
          \/ Session(c) \/ Relay(c) \/ EraseAccount(c)
          \/ Vanish(c) /\ UNCHANGED mvars
          \/ \E m \in Msgs : MsgStart(c, m) \/ ConvoMsg(c, m)
          \/ \E v \in Users : Block(c, v) \/ Unblock(c, v)
    \/ \E u \in Users : (Admin(u) \/ Environment(u)) /\ UNCHANGED mvars
    \/ Restart

MSpec == MInit /\ [][MNext]_allVars

(* As in NexusSessions: goroutines are scheduled.                          *)
MFairSpec ==
    MSpec /\ \A c \in Conns : WF_allVars(Relay(c) \/ (Continue(c) /\ UNCHANGED mvars))
------------------------------------------------------------------------------
(* The arrivals of m: at which connection, for the first or second time.   *)
Times(m) == {r \in Conns \X {1, 2} : got[r[1]][m] >= r[2]}

(* The replay deletes exactly the rows it has sent: a message stored while *)
(* a replay runs is not deleted unsent, nor is one whose replay crashed.   *)
NoRowDeletedUnsent ==
    \A m \in stored : m \in queue \/ m \in tried \/ m \in erased

(* Only connections that have logged in as the recipient get a message,    *)
(* although the connection was looked up in an earlier critical section.   *)
OnlyRecipientGets ==
    \A c \in Conns, m \in Msgs : got[c][m] > 0 => To[m] \in logged[c]

(* A message arrives once unless two logins of the recipient replay the    *)
(* queue at the same time, the relay dies during a replay, or the database *)
(* fails to delete its row.                                                *)
OnceUnlessOverlapped ==
    ~overlapped => \A m \in Msgs \ failed : Cardinality(Times(m)) <= 1

(* A message sent under a block that stays in force is neither delivered   *)
(* nor queued (TestSmoke_BlockSuppressesDelivery: "alice receives nothing, *)
(* no offline queueing"), unless the query for the block fails.            *)
MutedStaysOut == \A m \in muted \ failed : m \notin stored \cup tried

(* A group message is not left in the queue of a member who is registered  *)
(* and idle: it is queued under the lock a login needs to register, so the *)
(* replay of that login finds it.  ("msg" queues after it has released the *)
(* lock, and its row can stay until the login after next.)  A row that the *)
(* database did not return, or did not delete, does stay.                  *)
ConvoNotStranded ==
    \A m \in (Group \cap queue) \ failed :
        LET d == clients[To[m]] IN
        d # None => pc[d] \in {"announce", "drain"} /\ req[d] \in LoginKinds

(* The relay implements the mailbox: whatever connections, lookups and     *)
(* replays interleave, a message that was taken is dropped only under a    *)
(* block, in a restart or by a statement that fails, and leaves the queue  *)
(* only written or with an account.                                        *)
Hand == {held[c] : c \in {d \in Conns : job[d] \in {"recheck", "lookup", "forward", "store"}}}
Mail == INSTANCE Mailbox
          WITH fresh <- Msgs \ sent, hand <- Hand, kept <- queue, written <- tried
MailboxSpec == Mail!Spec

(* A login that finds rows for its user empties the queue of them, unless  *)
(* the user is gone from the registry again, the relay dies first or the   *)
(* database fails the SELECT or the DELETE.                                *)
LoginDrainsQueue ==
    \A c \in Conns, m \in Msgs :
        (pc[c] = "announce" /\ req[c] \in LoginKinds /\ user[c] = To[m] /\ m \in queue)
            ~> (m \notin queue \/ m \in failed \/ clients[To[m]] = None \/ pc[c] = "exit")
------------------------------------------------------------------------------
(* Statements of the repository that do not hold.                          *)

(* TestSmoke_OfflineDelivery: "messages sent to an offline user are queued *)
(* and replayed on next auth".                                             *)
StoredIsReplayed ==
    \A m \in stored \ erased : m \in queue \/ Times(m) # {}
=============================================================================
