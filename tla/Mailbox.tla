------------------------------- MODULE Mailbox -------------------------------
(***************************************************************************)
(* What the relay promises a sender: where a message can be and what moves *)
(* it.  Connections, lookups and replays are the business of               *)
(* NexusMessaging.  A message that was taken is written to the recipient   *)
(* or kept for later; only a block, a crash of the relay before that or a  *)
(* failure of its database loses it; what is kept leaves the mailbox only  *)
(* after it has been written, or with an account; and a block that stays   *)
(* holds while it can be read.                                             *)
(***************************************************************************)
CONSTANTS Users, Msgs,   \* account names, messages
          Group,         \* messages that blocks do not concern
          Queue0,        \* what is kept at the start
          From, To       \* sender and recipient of each message

VARIABLES
    fresh,     \* messages not sent yet
    hand,      \* messages the relay is working on, in memory only
    kept,      \* messages in the mailbox, on disk
    written,   \* messages that were written to the recipient
    erased,    \* messages that left the mailbox with an account
    blocks,    \* pairs <<blocker, blocked>>
    muted,     \* messages sent under a block that has not been lifted since
    failed     \* messages that the database failed to look up, keep or remove

dropped == Msgs \ (fresh \cup hand \cup kept \cup written \cup erased)

mailVars == <<fresh, hand, kept, written, erased, blocks, muted, failed>>

Init ==
    /\ fresh = Msgs \ Queue0 /\ kept = Queue0
    /\ hand = {} /\ written = {} /\ erased = {} /\ blocks = {} /\ muted = {}
    /\ failed = {}
------------------------------------------------------------------------------
Stopped(m) == <<From[m], To[m]>> \in blocks \/ <<To[m], From[m]>> \in blocks

(* A message is taken in hand; one that a block stops is dropped now,      *)
(* later, or, when the block cannot be read, not at all.                   *)
Send(m) ==
    /\ m \in fresh \ Group
    /\ fresh' = fresh \ {m}
    /\ muted' = IF Stopped(m) THEN muted \cup {m} ELSE muted
    /\ hand' = hand \cup {m} \/ (Stopped(m) /\ hand' = hand)
    /\ failed' = failed \/ (Stopped(m) /\ failed' = failed \cup {m})
    /\ UNCHANGED <<kept, written, erased, blocks>>

(* A group message goes out, or is lost, in one step.                      *)
Post(m) ==
    /\ m \in fresh \cap Group
    /\ fresh' = fresh \ {m}
    /\ \/ written' = written \cup {m} /\ UNCHANGED <<kept, failed>>
       \/ kept' = kept \cup {m} /\ UNCHANGED <<written, failed>>
       \/ failed' = failed \cup {m} /\ UNCHANGED <<written, kept>>
    /\ UNCHANGED <<hand, erased, blocks, muted>>

(* A message in hand is stopped by a block, written, or kept.              *)
Refuse(m) ==
    /\ m \in hand /\ Stopped(m)
    /\ hand' = hand \ {m}
    /\ UNCHANGED <<fresh, kept, written, erased, blocks, muted, failed>>

Deliver(m) ==
    /\ m \in hand \ (muted \ failed)
    /\ hand' = hand \ {m}
    /\ written' = written \cup {m}
    /\ UNCHANGED <<fresh, kept, erased, blocks, muted, failed>>

Keep(m) ==
    /\ m \in hand \ (muted \ failed)
    /\ hand' = hand \ {m}
    /\ kept' = kept \cup {m}
    /\ UNCHANGED <<fresh, written, erased, blocks, muted, failed>>

(* It should be kept and cannot.                                           *)
Lose(m) ==
    /\ m \in hand
    /\ hand' = hand \ {m}
    /\ failed' = failed \cup {m}
    /\ UNCHANGED <<fresh, kept, written, erased, blocks, muted>>

(* What was taken is not looked up, or not removed, as it should be; it    *)
(* stays where it is.                                                      *)
Neglect(M) ==
    /\ M \cap fresh = {}
    /\ failed' = failed \cup M
    /\ UNCHANGED <<fresh, hand, kept, written, erased, blocks, muted>>

(* What is kept, or was when it was read, is written ...                   *)
Replay(m) ==
    /\ m \in kept \cup erased
    /\ written' = written \cup {m}
    /\ UNCHANGED <<fresh, hand, kept, erased, blocks, muted, failed>>

(* ... and removed once it has been.                                       *)
Clear(m) ==
    /\ m \in kept \cap written
    /\ kept' = kept \ {m}
    /\ UNCHANGED <<fresh, hand, written, erased, blocks, muted, failed>>

(* A message still in hand when the block is lifted is not muted any more. *)
Block(u, v) ==
    /\ u # v
    /\ blocks' = blocks \cup {<<u, v>>}
    /\ UNCHANGED <<fresh, hand, kept, written, erased, muted, failed>>

Between(m, u, v) == <<u, v>> \in {<<From[m], To[m]>>, <<To[m], From[m]>>}

Unblock(u, v) ==
    /\ blocks' = blocks \ {<<u, v>>}
    /\ muted' = muted \ {m \in Msgs : Between(m, u, v)}
    /\ UNCHANGED <<fresh, hand, kept, written, erased, failed>>

(* The account of u is deleted.                                            *)
Erase(u) ==
    LET mine == {m \in Msgs : u \in {From[m], To[m]}} IN
    /\ kept' = kept \ mine
    /\ erased' = erased \cup (kept \cap mine)
    /\ blocks' = {b \in blocks : u \notin {b[1], b[2]}}
    /\ muted' = muted \ mine
    /\ UNCHANGED <<fresh, hand, written, failed>>

(* What is in hand is lost; what is kept is not.                           *)
Crash == hand' = {} /\ UNCHANGED <<fresh, kept, written, erased, blocks, muted, failed>>

Next ==
    \/ \E m \in Msgs :
          \/ Send(m) \/ Post(m) \/ Refuse(m) \/ Deliver(m) \/ Keep(m)
          \/ Lose(m) \/ Replay(m) \/ Clear(m)
    \/ \E M \in SUBSET Msgs : Neglect(M)
    \/ \E u \in Users : Erase(u) \/ \E v \in Users : Block(u, v) \/ Unblock(u, v)
    \/ Crash

Spec == Init /\ [][Next]_mailVars
------------------------------------------------------------------------------
(* A message is in one place before it is written or kept, and a muted one *)
(* never gets that far unless the database failed it.                      *)
Sorted ==
    /\ fresh \cap (hand \cup kept \cup written \cup erased \cup muted \cup failed) = {}
    /\ hand \cap (Group \cup kept \cup written \cup erased) = {}
    /\ (muted \ failed) \cap (kept \cup written \cup erased) = {}

(* Nothing is dropped but what a block stops, a crash takes from hand or   *)
(* the database fails to keep;                                             *)
(* nothing leaves the mailbox unwritten but with an account; and what is   *)
(* written, or dropped, stays so.                                          *)
Losses ==
    /\ \A m \in dropped' \ dropped :
          \/ m \in failed'
          \/ m \notin Group /\ (Stopped(m) \/ (m \in hand /\ hand' = {}))
    /\ \A m \in kept \ kept' : m \in written \cup erased'
    /\ written \subseteq written' /\ dropped \subseteq dropped'
OnlyTheseLosses == [][Losses]_mailVars
==============================================================================
