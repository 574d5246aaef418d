-------------------------- MODULE NexusAccountsProofs --------------------------
(***************************************************************************)
(* For any names, connections, numbers of random values and QR logins: a   *)
(* verification, a second factor, a session and a reset token mean what    *)
(* they say, with the exceptions NexusAccounts names.                      *)
(***************************************************************************)
EXTENDS NexusSocial, TLAPS

(***************************************************************************)
(* The invariant.                                                          *)
(***************************************************************************)
Drawn == 0 .. fresh

PCs == {"idle", "verified", "resend", "linked", "wipe", "confirmed", "disable",
        "issue", "enter", "reset", "approve", "erase", "gone"}

AtType == [pc : PCs, u : Names \cup {None}, id : Drawn, x : Drawn, tok : Drawn]
RowType == [id : Drawn, verified : BOOLEAN, code : Drawn, phone : Phones \cup {None},
            phoneOK : BOOLEAN, secret : Drawn, totpOn : BOOLEAN]
SessionType == [tok : Drawn, u : Names, id : Drawn, live : BOOLEAN, late : BOOLEAN]
ResetType == [tok : Drawn, u : Names, id : Drawn, used : BOOLEAN, uses : Nat,
              raced : BOOLEAN, late : BOOLEAN]
QRType == [tok : Drawn, u : Names \cup {None}, id : Drawn, sess : Drawn, late : BOOLEAN]

ConnTyped ==
    /\ sock \in [Conns -> {"new", "open", "closed"}]
    /\ who \in [Conns -> [u : Names \cup {None}, id : Drawn]]
    /\ clients \in [Names -> Conns \cup {None}]
    /\ at \in [Conns -> AtType]

TableTyped ==
    /\ users \in [Names -> RowType]
    /\ sessions \subseteq SessionType /\ resets \subseteq ResetType
    /\ qrs \subseteq QRType /\ mails \subseteq [u : Names, id : Drawn]
    /\ DOMAIN codeTo \subseteq Drawn \ {0}

Typed == flow \in Flows /\ fresh \in Serials /\ ConnTyped /\ TableTyped

(* Whoever was let in to an account of that id was let in to a verified one.*)
Vouched(u, id) == id # 0 /\ (users[u].id = id => users[u].verified)

Proved(id) == <<id, id>> \in proof \/ <<id, "late">> \in doubt

HasSession(tok, u, id) == \E t \in sessions : t.tok = tok /\ t.u = u /\ t.id = id

WhoInv(c) == who[c] # Nobody => who[c].u \in Names /\ Vouched(who[c].u, who[c].id)

(* What a handler knows between two statements.                            *)
AtInv(c) ==
    LET u == at[c].u
        id == at[c].id IN
    /\ at[c].pc # "idle" => u \in Names /\ id # 0
    /\ at[c].pc \in {"issue", "enter", "approve"} => Vouched(u, id)
    /\ at[c].pc = "verified" /\ users[u].id = id => Proved(id)
    /\ at[c].pc = "linked" /\ users[u].id = id =>
          \/ <<id, users[u].phone>> \in proof
          \/ Doubtful(u, {"late", "resent", "relinked"})
    /\ at[c].pc = "confirmed" => <<id, at[c].x>> \in proof
    /\ at[c].pc = "approve" /\ users[u].id = id => HasSession(at[c].tok, u, id)

(* The codes and the verifications of one account.                         *)
RowInv(u) ==
    /\ users[u].id = 0 => users[u] = NoRow
    /\ users[u].code # 0 =>
          /\ users[u].code \in DOMAIN codeTo
          /\ codeTo[users[u].code] = users[u].id \/ Proved(users[u].id)
          /\ users[u].verified =>
                codeTo[users[u].code] = users[u].phone \/ Doubtful(u, {"late", "resent"})
    /\ users[u].verified => Proved(users[u].id)
    /\ users[u].phoneOK => \/ <<users[u].id, users[u].phone>> \in proof
                           \/ Doubtful(u, {"late", "resent", "relinked"})
    /\ users[u].totpOn => \/ <<users[u].id, users[u].secret>> \in proof
                          \/ Doubtful(u, {"late"})

(* Rows of tokens.                                                         *)
Held(r) == r.id # 0 /\ (r.id = users[r.u].id \/ r.late)
SessionInv(t) == Held(t) /\ Vouched(t.u, t.id)
QRInv(q) == q.u # None =>
    Held(q) /\ Vouched(q.u, q.id) /\ (q.late \/ HasSession(q.sess, q.u, q.id))
TokenInv ==
    /\ \A t \in sessions : SessionInv(t)
    /\ \A r \in resets : Held(r)
    /\ \A q \in qrs : QRInv(q)
    /\ \A m \in mails : m.id # 0

(* A token is known by its number; one that nobody raced for has been used *)
(* once, or is about to be at most once.                                   *)
ResetInv ==
    /\ \A r, s \in resets : r.tok = s.tok => r = s
    /\ \A r \in resets : ~r.raced =>
          /\ \A c, d \in Resetting(r) : c = d
          /\ r.uses = 0 \/ (r.uses = 1 /\ r.used /\ Resetting(r) = {})

AccountsInv ==
    /\ Typed
    /\ \A c \in Conns : WhoInv(c) /\ AtInv(c)
    /\ \A u \in Names : RowInv(u)
    /\ TokenInv /\ ResetInv

(***************************************************************************)
(* What every step but the deletion of an account leaves true: numbers are *)
(* drawn upwards, proofs and doubts and codes stay, an account keeps its   *)
(* row and its sessions, a free name gets an account not seen before.      *)
(***************************************************************************)
RowGrows(u) ==
    \/ users'[u].id = users[u].id /\ (users[u].verified => users'[u].verified)
    \/ users[u].id = 0 /\ users'[u].id > fresh

PhoneStays(d) ==
    at[d].pc = "linked" /\ users[at[d].u].id # 0 =>
       \/ users'[at[d].u].phone = users[at[d].u].phone
       \/ <<users[at[d].u].id, "relinked">> \in doubt'

Grows ==
    /\ fresh \in Nat /\ fresh' \in Nat /\ fresh <= fresh'
    /\ proof \subseteq proof' /\ doubt \subseteq doubt'
    /\ \A k \in DOMAIN codeTo : k \in DOMAIN codeTo' /\ codeTo'[k] = codeTo[k]
    /\ \A u \in Names : RowGrows(u)
    /\ \A d \in Conns : PhoneStays(d)
    /\ \A t \in sessions : \E s \in sessions' : s.tok = t.tok /\ s.u = t.u /\ s.id = t.id

LEMMA FreshIsNat == ASSUME Typed PROVE fresh \in Nat /\ MaxFresh[flow] \in Nat
BY AccountsAssumption DEF Typed, Serials

LEMMA VouchedStays ==
    ASSUME Grows, NEW u \in Names, NEW id \in Drawn, Vouched(u, id)
    PROVE  Vouched(u, id)'
BY DEF Grows, RowGrows, Vouched, Drawn

LEMMA HeldStays ==
    ASSUME Grows, NEW r, r.u \in Names, r.id \in Drawn, Held(r)
    PROVE  Held(r)'
BY DEF Grows, RowGrows, Held, Drawn

LEMMA HasStays ==
    ASSUME Grows, NEW tok, NEW u, NEW id, HasSession(tok, u, id)
    PROVE  HasSession(tok, u, id)'
BY DEF Grows, HasSession

LEMMA WhoStays ==
    ASSUME Typed, Grows, NEW d \in Conns, WhoInv(d), who'[d] \in {who[d], Nobody}
    PROVE  WhoInv(d)'
<1>1. CASE who'[d] = Nobody
  BY <1>1 DEF WhoInv
<1>2. CASE who'[d] = who[d] /\ who[d] # Nobody
  <2>1. who[d].u \in Names /\ who[d].id \in Drawn /\ Vouched(who[d].u, who[d].id)
    BY <1>2 DEF WhoInv, Typed, ConnTyped
  <2>2. Vouched(who[d].u, who[d].id)'
    <3>1. ASSUME NEW w, w = who[d] PROVE Vouched(w.u, w.id)'
      BY <2>1, <3>1, VouchedStays
    <3> QED
      BY <1>2, <3>1 DEF Vouched
  <2> QED
    BY <1>2, <2>1, <2>2 DEF WhoInv
<1> QED
  BY <1>1, <1>2

LEMMA AtStays ==
    ASSUME Typed, Grows, NEW d \in Conns, AtInv(d), at'[d] = at[d]
    PROVE  AtInv(d)'
<1> DEFINE u == at[d].u
           id == at[d].id
<1>1. at[d].pc # "idle" => u \in Names /\ id # 0 /\ id \in Drawn
  BY DEF AtInv, Typed, ConnTyped, AtType
<1>2. at[d].pc \in {"issue", "enter", "approve"} => Vouched(u, id)'
  <2>1. ASSUME NEW w, NEW k \in Drawn, w \in Names, Vouched(w, k) PROVE Vouched(w, k)'
    BY <2>1, VouchedStays
  <2>2. CASE at[d].pc \in {"issue", "enter", "approve"}
    <3>1. Vouched(at[d].u, at[d].id) /\ at[d].u \in Names /\ at[d].id \in Drawn
      BY <1>1, <2>2 DEF AtInv
    <3> QED
      BY <2>1, <3>1 DEF Vouched
  <2> QED
    BY <2>2
<1>3. at[d].pc = "verified" /\ users'[u].id = id => Proved(id)'
  BY <1>1 DEF AtInv, Grows, RowGrows, Proved, Drawn
<1>4. at[d].pc = "linked" /\ users'[u].id = id =>
        <<id, users'[u].phone>> \in proof' \/ Doubtful(u, {"late", "resent", "relinked"})'
  <2> SUFFICES ASSUME at[d].pc = "linked", users'[u].id = id
               PROVE  <<id, users'[u].phone>> \in proof' \/ Doubtful(u, {"late", "resent", "relinked"})'
    OBVIOUS
  <2>1. u \in Names /\ id # 0 /\ id \in Drawn
    BY <1>1
  <2>2. users[u].id = id
    BY <2>1 DEF Grows, RowGrows, Drawn
  <2>3. users'[u].phone = users[u].phone \/ <<id, "relinked">> \in doubt'
    BY <2>1, <2>2 DEF Grows, PhoneStays
  <2>4. \/ <<id, users[u].phone>> \in proof
        \/ \E w \in {"late", "resent", "relinked"} : <<id, w>> \in doubt
    BY <2>2 DEF AtInv, Doubtful
  <2>5. proof \subseteq proof' /\ doubt \subseteq doubt'
    BY DEF Grows
  <2> QED
    BY <2>3, <2>4, <2>5 DEF Doubtful
<1>5. at[d].pc = "confirmed" => <<id, at[d].x>> \in proof'
  BY DEF AtInv, Grows
<1>6. at[d].pc = "approve" /\ users'[u].id = id => HasSession(at[d].tok, u, id)'
  <2> SUFFICES ASSUME at[d].pc = "approve", users'[u].id = id
               PROVE  HasSession(at[d].tok, u, id)'
    OBVIOUS
  <2>1. users[u].id = id
    BY <1>1 DEF Grows, RowGrows, Drawn
  <2>2. HasSession(at[d].tok, u, id)
    BY <2>1 DEF AtInv
  <2> QED
    BY <2>2 DEF HasSession, Grows
<1> QED
  BY <1>1, <1>2, <1>3, <1>4, <1>5, <1>6 DEF AtInv, Proved, Vouched, HasSession, Doubtful

LEMMA RowStays ==
    ASSUME Typed, Grows, NEW u \in Names, RowInv(u), users'[u] = users[u]
    PROVE  RowInv(u)'
BY DEF RowInv, Grows, Proved, Doubtful

LEMMA SessionStays ==
    ASSUME Typed, Grows, NEW t \in sessions, SessionInv(t)
    PROVE  SessionInv(t)'
<1>1. t.u \in Names /\ t.id \in Drawn
  BY DEF Typed, TableTyped, SessionType
<1> QED
  BY <1>1, HeldStays, VouchedStays DEF SessionInv

LEMMA QRStays ==
    ASSUME Typed, Grows, NEW q \in qrs, QRInv(q)
    PROVE  QRInv(q)'
<1>1. CASE q.u = None
  BY <1>1 DEF QRInv
<1>2. CASE q.u # None
  <2>1. q.u \in Names /\ q.id \in Drawn
    BY <1>2 DEF Typed, TableTyped, QRType
  <2> QED
    BY <1>2, <2>1, HeldStays, VouchedStays, HasStays DEF QRInv
<1> QED
  BY <1>1, <1>2

LEMMA ResetsStay ==
    ASSUME ResetInv, resets' = resets,
           \A d \in Conns : at'[d] = at[d] \/ at'[d].pc # "reset"
    PROVE  ResetInv'
<1>1. ASSUME NEW r \in resets PROVE Resetting(r)' \subseteq Resetting(r)
  BY DEF Resetting
<1> QED
  BY <1>1 DEF ResetInv

(* A step is sound if what it changes is.                                  *)
LEMMA Step ==
    ASSUME AccountsInv, Grows, Typed', ResetInv',
           \A d \in Conns : at'[d] = at[d] \/ AtInv(d)',
           \A d \in Conns : who'[d] \in {who[d], Nobody} \/ WhoInv(d)',
           \A u \in Names : users'[u] = users[u] \/ RowInv(u)',
           \A t \in sessions' : t \in sessions \/ SessionInv(t)',
           \A r \in resets' : (r.u \in Names /\ r.id \in Drawn /\ Held(r)) \/ Held(r)',
           \A q \in qrs' : q \in qrs \/ QRInv(q)',
           \A m \in mails' : m.id # 0
    PROVE  AccountsInv'
<1>1. \A c \in Conns : WhoInv(c)' /\ AtInv(c)'
  BY WhoStays, AtStays DEF AccountsInv
<1>2. \A u \in Names : RowInv(u)'
  BY RowStays DEF AccountsInv
<1>3. \A t \in sessions' : SessionInv(t)'
  BY SessionStays DEF AccountsInv, TokenInv
<1>4. \A r \in resets' : Held(r)'
  BY HeldStays
<1>5. \A q \in qrs' : QRInv(q)'
  BY QRStays DEF AccountsInv, TokenInv
<1> QED
  BY <1>1, <1>2, <1>3, <1>4, <1>5 DEF AccountsInv, TokenInv

------------------------------------------------------------------------------
(* Random values are new.                                                  *)
LEMMA DrawOne ==
    ASSUME Typed, Draw, flow' = flow
    PROVE  /\ fresh \in Nat /\ fresh' = fresh + 1 /\ fresh' \in Nat /\ fresh' # 0
           /\ fresh' \in Serials' /\ fresh' \in Drawn'
           /\ \A x \in Drawn : x \in Drawn' /\ x # fresh'
BY FreshIsNat DEF Draw, Serials, Drawn

LEMMA TypesGrow ==
    ASSUME fresh \in Nat, fresh' \in Nat, fresh <= fresh'
    PROVE  /\ Drawn \subseteq Drawn' /\ AtType \subseteq AtType' /\ RowType \subseteq RowType'
           /\ SessionType \subseteq SessionType' /\ ResetType \subseteq ResetType'
           /\ QRType \subseteq QRType'
           /\ [u : Names, id : Drawn] \subseteq [u : Names, id : Drawn']
           /\ [u : Names \cup {None}, id : Drawn] \subseteq [u : Names \cup {None}, id : Drawn']
<1>1. Drawn \subseteq Drawn'
  BY DEF Drawn
<1> QED
  BY <1>1 DEF AtType, RowType, SessionType, ResetType, QRType

(* The handler's next place.                                               *)
LEMMA Moves ==
    ASSUME Typed, NEW c \in Conns, NEW pc \in PCs, NEW u \in Names \cup {None},
           NEW id \in Drawn', NEW x \in Drawn', Do(c, pc, u, id, x),
           fresh' \in Nat, fresh <= fresh'
    PROVE  /\ at' \in [Conns -> AtType']
           /\ at'[c] = [pc |-> pc, u |-> u, id |-> id, x |-> x, tok |-> 0]
           /\ \A d \in Conns \ {c} : at'[d] = at[d]
<1>1. at \in [Conns -> AtType'] /\ 0 \in Drawn'
  BY FreshIsNat, TypesGrow DEF Typed, ConnTyped, Drawn
<1> QED
  BY <1>1 DEF Do, AtType

LEMMA Finishes ==
    ASSUME Typed, NEW c \in Conns, Done(c), fresh' \in Nat, fresh <= fresh'
    PROVE  /\ at' \in [Conns -> AtType']
           /\ at'[c] = Idle /\ at'[c].pc = "idle" /\ AtInv(c)'
           /\ \A d \in Conns \ {c} : at'[d] = at[d]
<1>1. at \in [Conns -> AtType'] /\ Idle \in AtType'
  BY FreshIsNat, TypesGrow DEF Typed, ConnTyped, Drawn, Idle, AtType, PCs
<1>2. /\ at' \in [Conns -> AtType'] /\ at'[c] = Idle /\ at'[c].pc = "idle"
      /\ \A d \in Conns \ {c} : at'[d] = at[d]
  BY <1>1 DEF Done, Typed, ConnTyped, Idle
<1> QED
  BY <1>2 DEF AtInv

(* Steps that read the tables but leave them alone.                        *)
LEMMA ConnStep ==
    ASSUME AccountsInv, UNCHANGED <<flow, accountVars>>, ConnTyped',
           \A d \in Conns : at'[d] = at[d] \/ (AtInv(d)' /\ at'[d].pc # "reset"),
           \A d \in Conns : who'[d] \in {who[d], Nobody} \/ WhoInv(d)'
    PROVE  AccountsInv'
<1>1. /\ flow' = flow /\ users' = users /\ sessions' = sessions /\ resets' = resets
      /\ qrs' = qrs /\ mails' = mails /\ fresh' = fresh /\ codeTo' = codeTo
      /\ proof' = proof /\ doubt' = doubt
  BY DEF accountVars
<1>2. Typed /\ fresh \in Nat
  BY FreshIsNat DEF AccountsInv
<1>3. Typed'
  BY <1>1, <1>2 DEF Typed, TableTyped, Serials, Drawn, RowType, SessionType, ResetType, QRType
<1>4. Grows
  BY <1>1, <1>2 DEF Grows, RowGrows, PhoneStays
<1>5. ResetInv'
  BY <1>1, ResetsStay DEF AccountsInv
<1>6. \A r \in resets : r.u \in Names /\ r.id \in Drawn /\ Held(r)
  BY <1>2 DEF AccountsInv, TokenInv, Typed, TableTyped, ResetType
<1>7. \A m \in mails : m.id # 0
  BY DEF AccountsInv, TokenInv
<1> QED
  BY <1>1, <1>3, <1>4, <1>5, <1>6, <1>7, Step

LEMMA ConnectInv == ASSUME AccountsInv, NEW c \in Conns, Connect(c) PROVE AccountsInv'
<1>1. ConnTyped' /\ at' = at /\ who' = who
  BY DEF Connect, accountVars, AccountsInv, Typed, ConnTyped, Drawn, AtType
<1> QED
  BY <1>1, ConnStep DEF Connect

(* An account that is not NoRow has a number.                              *)
LEMMA RowHasId ==
    ASSUME AccountsInv, NEW u \in Names
    PROVE  /\ users[u] \in RowType /\ users[u].id \in Drawn /\ users[u].code \in Drawn
           /\ users[u] # NoRow => users[u].id # 0
           /\ users[u].verified => users[u].id # 0
           /\ users[u].code # 0 => users[u].id # 0
           /\ users[u].secret # 0 => users[u].id # 0
<1>1. users[u] \in RowType /\ users[u].id \in Drawn /\ users[u].code \in Drawn
  BY DEF AccountsInv, Typed, TableTyped, RowType
<1>2. users[u].id = 0 => users[u] = NoRow
  BY DEF AccountsInv, RowInv
<1>3. NoRow.verified = FALSE /\ NoRow.code = 0 /\ NoRow.secret = 0
  BY DEF NoRow
<1> QED
  BY <1>1, <1>2, <1>3

(* Whoever is logged in was let in to a verified account.                  *)
LEMMA LoggedInWho ==
    ASSUME AccountsInv, NEW c \in Conns, LoggedIn(c)
    PROVE  /\ who[c].u \in Names /\ who[c].id \in Drawn /\ who[c].id # 0
           /\ Vouched(who[c].u, who[c].id) /\ at[c] = Idle
<1>1. WhoInv(c) /\ Typed
  BY DEF AccountsInv
<1> QED
  BY <1>1 DEF LoggedIn, Ready, WhoInv, Vouched, Typed, ConnTyped

(* A request begins with what the handler knows of the account.            *)
LEMMA Begins ==
    ASSUME AccountsInv, UNCHANGED <<flow, sock, who, clients, accountVars>>, NEW c \in Conns,
           NEW pc \in PCs \ {"reset", "idle"}, NEW u \in Names, NEW id \in Drawn, NEW x \in Drawn,
           Do(c, pc, u, id, x), AtInv(c)'
    PROVE  AccountsInv'
<1>1. Typed /\ fresh' = fresh /\ fresh \in Nat
  BY FreshIsNat DEF AccountsInv, accountVars
<1>2. /\ id \in Drawn' /\ x \in Drawn' /\ fresh' \in Nat /\ fresh <= fresh'
      /\ pc \in PCs /\ u \in Names \cup {None}
  BY <1>1 DEF Drawn
<1>3. /\ at' \in [Conns -> AtType']
      /\ at'[c] = [pc |-> pc, u |-> u, id |-> id, x |-> x, tok |-> 0]
      /\ \A d \in Conns \ {c} : at'[d] = at[d]
  BY <1>1, <1>2, Moves
<1>4. ConnTyped'
  BY <1>1, <1>3 DEF Typed, ConnTyped, Drawn
<1>5. at'[c].pc # "reset"
  BY <1>3
<1> QED
  BY <1>3, <1>4, <1>5, ConnStep

LEMMA ResendInv ==
    ASSUME AccountsInv, NEW c \in Conns, NEW u \in Names, Resend(c, u)
    PROVE  AccountsInv'
<1>1. /\ users[u].id \in Drawn /\ users[u].id # 0 /\ 0 \in Drawn
      /\ Do(c, "resend", u, users[u].id, 0)
      /\ UNCHANGED <<flow, sock, who, clients, accountVars>>
  BY RowHasId, FreshIsNat DEF Resend, Drawn, AccountsInv
<1>2. at'[c] = [pc |-> "resend", u |-> u, id |-> users[u].id, x |-> 0, tok |-> 0]
  BY <1>1 DEF Do, AccountsInv, Typed, ConnTyped
<1>3. AtInv(c)'
  BY <1>1, <1>2 DEF AtInv
<1> QED
  BY <1>1, <1>3, Begins DEF PCs

LEMMA DisableTotpInv ==
    ASSUME AccountsInv, NEW c \in Conns, DisableTotp(c) \/ DeleteRequest(c)
    PROVE  AccountsInv'
<1> DEFINE u == who[c].u
           id == who[c].id
<1>1. PICK pc \in {"disable", "erase"} : Do(c, pc, u, id, 0)
  BY DEF DisableTotp, DeleteRequest
<1>2. LoggedIn(c) /\ UNCHANGED <<flow, sock, who, clients, accountVars>>
  BY DEF DisableTotp, DeleteRequest
<1>3. u \in Names /\ id \in Drawn /\ id # 0 /\ 0 \in Drawn
  BY <1>2, LoggedInWho, FreshIsNat DEF Drawn, AccountsInv
<1>4. at'[c] = [pc |-> pc, u |-> u, id |-> id, x |-> 0, tok |-> 0]
  BY <1>1 DEF Do, AccountsInv, Typed, ConnTyped
<1>5. AtInv(c)'
  BY <1>3, <1>4 DEF AtInv
<1> QED
  BY <1>1, <1>2, <1>3, <1>5, Begins DEF PCs

LEMMA AuthInv ==
    ASSUME AccountsInv, NEW c \in Conns, NEW u \in Names, Auth(c, u)
    PROVE  AccountsInv'
<1>1. /\ users[u].id \in Drawn /\ users[u].id # 0 /\ 0 \in Drawn /\ users[u].verified
      /\ Do(c, "issue", u, users[u].id, 0)
      /\ UNCHANGED <<flow, sock, who, clients, accountVars>>
  BY RowHasId, FreshIsNat DEF Auth, Drawn, AccountsInv
<1>2. at'[c] = [pc |-> "issue", u |-> u, id |-> users[u].id, x |-> 0, tok |-> 0] /\ users' = users
  BY <1>1 DEF Do, AccountsInv, Typed, ConnTyped, accountVars
<1>3. AtInv(c)'
  BY <1>1, <1>2 DEF AtInv, Vouched
<1> QED
  BY <1>1, <1>3, Begins DEF PCs

LEMMA SessionAuthInv ==
    ASSUME AccountsInv, NEW c \in Conns, NEW t \in sessions, SessionAuth(c, t)
    PROVE  AccountsInv'
<1>1. t.u \in Names /\ t.id \in Drawn /\ t.tok \in Drawn /\ Vouched(t.u, t.id)
  BY DEF AccountsInv, Typed, TableTyped, SessionType, TokenInv, SessionInv
<1>2. at'[c] = [pc |-> "enter", u |-> t.u, id |-> t.id, x |-> t.tok, tok |-> 0] /\ users' = users
  BY DEF SessionAuth, Do, AccountsInv, Typed, ConnTyped, accountVars
<1>3. AtInv(c)'
  BY <1>1, <1>2 DEF AtInv, Vouched
<1> QED
  BY <1>1, <1>3, Begins DEF PCs, SessionAuth

LEMMA QRLoginCheckInv ==
    ASSUME AccountsInv, NEW c \in Conns, NEW q \in qrs, QRLoginCheck(c, q)
    PROVE  AccountsInv'
<1>1. q.u \in Names /\ q.id \in Drawn /\ q.sess \in Drawn /\ Vouched(q.u, q.id)
  BY DEF QRLoginCheck, AccountsInv, Typed, TableTyped, QRType, TokenInv, QRInv
<1>2. at'[c] = [pc |-> "enter", u |-> q.u, id |-> q.id, x |-> q.sess, tok |-> 0] /\ users' = users
  BY DEF QRLoginCheck, Do, AccountsInv, Typed, ConnTyped, accountVars
<1>3. AtInv(c)'
  BY <1>1, <1>2 DEF AtInv, Vouched
<1> QED
  BY <1>1, <1>3, Begins DEF PCs, QRLoginCheck

(* A login ends with the account its checks let in.                        *)
LEMMA EnterInv == ASSUME AccountsInv, NEW c \in Conns, Enter(c) PROVE AccountsInv'
<1> DEFINE u == at[c].u
           id == at[c].id
<1>1. Typed /\ fresh' = fresh /\ fresh \in Nat /\ users' = users
  BY FreshIsNat DEF AccountsInv, Enter, accountVars
<1>2. u \in Names /\ id \in Drawn /\ id # 0 /\ Vouched(u, id)
  BY <1>1 DEF Enter, AccountsInv, AtInv, Typed, ConnTyped, AtType
<1>3. /\ at' \in [Conns -> AtType'] /\ AtInv(c)' /\ at'[c].pc # "reset"
      /\ \A d \in Conns \ {c} : at'[d] = at[d]
  BY <1>1, Finishes DEF Enter
<1>4. sock' \in [Conns -> {"new", "open", "closed"}]
  BY <1>1 DEF Enter, Typed, ConnTyped
<1>5. clients' \in [Names -> Conns \cup {None}]
  BY <1>1 DEF Enter, Typed, ConnTyped
<1>6. who' \in [Conns -> [u : Names \cup {None}, id : Drawn']]
  <2>1. [u |-> u, id |-> id] \in [u : Names \cup {None}, id : Drawn'] /\ Drawn' = Drawn
    BY <1>1, <1>2 DEF Drawn
  <2>2. Nobody \in [u : Names \cup {None}, id : Drawn']
    BY <1>1 DEF Nobody, Drawn
  <2> QED
    BY <1>1, <2>1, <2>2 DEF Enter, Typed, ConnTyped
<1>7. \A d \in Conns : who'[d] \in {who[d], Nobody} \/ WhoInv(d)'
  <2>1. who'[c] = [u |-> u, id |-> id]
    BY DEF Enter
  <2>2. WhoInv(c)'
    BY <1>1, <1>2, <2>1 DEF WhoInv, Vouched
  <2> QED
    BY <2>2 DEF Enter
<1> QED
  BY <1>3, <1>4, <1>5, <1>6, <1>7, ConnStep DEF ConnTyped, Enter

LEMMA LeavesInv ==
    ASSUME AccountsInv, NEW c \in Conns, Disconnect(c) \/ Gone(c)
    PROVE  AccountsInv'
<1>1. Typed /\ fresh' = fresh /\ fresh \in Nat /\ UNCHANGED <<flow, accountVars>>
  BY FreshIsNat DEF AccountsInv, Disconnect, Gone, accountVars
<1>2. /\ at' \in [Conns -> AtType']
      /\ \A d \in Conns : at'[d] = at[d] \/ (AtInv(d)' /\ at'[d].pc # "reset")
  <2>1. CASE Disconnect(c)
    BY <1>1, <2>1 DEF Disconnect, Typed, ConnTyped, AtType, Drawn
  <2>2. CASE Gone(c)
    BY <1>1, <2>2, Finishes DEF Gone
  <2> QED
    BY <2>1, <2>2
<1>3. sock' \in [Conns -> {"new", "open", "closed"}] /\ clients' \in [Names -> Conns \cup {None}]
  BY <1>1 DEF Disconnect, Gone, Typed, ConnTyped
<1>4. /\ who' \in [Conns -> [u : Names \cup {None}, id : Drawn']]
      /\ \A d \in Conns : who'[d] \in {who[d], Nobody}
  BY <1>1 DEF Disconnect, Gone, Typed, ConnTyped, Nobody, Drawn
<1> QED
  BY <1>1, <1>2, <1>3, <1>4, ConnStep DEF ConnTyped

------------------------------------------------------------------------------
(* Steps that change a row of users, the codes and what is proved by them. *)
LEMMA RowStep ==
    ASSUME AccountsInv, Grows, ConnTyped', fresh' \in Serials', flow' = flow,
           users' \in [Names -> RowType'], DOMAIN codeTo' \subseteq Drawn' \ {0},
           UNCHANGED <<sessions, resets, qrs, mails>>,
           \A d \in Conns : at'[d] = at[d] \/ (AtInv(d)' /\ at'[d].pc # "reset"),
           who' = who,
           \A u \in Names : users'[u] = users[u] \/ RowInv(u)'
    PROVE  AccountsInv'
<1>1. sessions' = sessions /\ resets' = resets /\ qrs' = qrs /\ mails' = mails
  OBVIOUS
<1>2. Typed /\ fresh \in Nat /\ fresh' \in Nat /\ fresh <= fresh'
  BY DEF AccountsInv, Grows
<1>3. TableTyped'
  <2>1. /\ sessions \subseteq SessionType' /\ resets \subseteq ResetType'
        /\ qrs \subseteq QRType' /\ mails \subseteq [u : Names, id : Drawn']
    BY <1>2, TypesGrow DEF Typed, TableTyped
  <2> QED
    BY <1>1, <2>1 DEF TableTyped
<1>4. Typed'
  BY <1>2, <1>3 DEF Typed
<1>5. ResetInv'
  BY <1>1, ResetsStay DEF AccountsInv
<1>6. \A r \in resets : r.u \in Names /\ r.id \in Drawn /\ Held(r)
  BY <1>2 DEF AccountsInv, TokenInv, Typed, TableTyped, ResetType
<1>7. \A m \in mails : m.id # 0
  BY DEF AccountsInv, TokenInv
<1> QED
  BY <1>1, <1>4, <1>5, <1>6, <1>7, Step

(* A code is sent: the others stay what they were.                         *)
LEMMA CodeSent ==
    ASSUME Typed, Draw, flow' = flow, NEW to, SendCode(to)
    PROVE  /\ DOMAIN codeTo' \subseteq Drawn' \ {0}
           /\ fresh' \in DOMAIN codeTo' /\ codeTo'[fresh'] = to
           /\ \A k \in DOMAIN codeTo : k \in DOMAIN codeTo' /\ codeTo'[k] = codeTo[k]
<1>1. DOMAIN codeTo \subseteq Drawn \ {0}
  BY DEF Typed, TableTyped
<1>2. /\ DOMAIN codeTo' = DOMAIN codeTo \cup {fresh'}
      /\ codeTo'[fresh'] = to
      /\ \A k \in DOMAIN codeTo : k # fresh' => codeTo'[k] = codeTo[k]
  BY DEF SendCode
<1> QED
  BY <1>1, <1>2, DrawOne

LEMMA NewRow ==
    ASSUME NEW k, NEW row, row = [NoRow EXCEPT !.id = k, !.code = k]
    PROVE  row = [id |-> k, verified |-> FALSE, code |-> k, phone |-> None,
                  phoneOK |-> FALSE, secret |-> 0, totpOn |-> FALSE]
BY DEF NoRow

LEMMA registerUserInv ==
    ASSUME AccountsInv, NEW c \in Conns, NEW u \in Names, registerUser(c, u)
    PROVE  AccountsInv'
<1>0. PICK row : /\ row = [NoRow EXCEPT !.id = fresh', !.code = fresh']
                 /\ users' = [users EXCEPT ![u] = row]
  BY DEF registerUser, SetRow
<1>1. /\ Typed /\ Draw /\ flow' = flow /\ users[u] = NoRow /\ SendCode(fresh')
      /\ users \in [Names -> RowType]
  BY DEF registerUser, AccountsInv, Typed, TableTyped
<1>2. /\ sock' = sock /\ who' = who /\ clients' = clients /\ at' = at /\ sessions' = sessions
      /\ proof' = proof /\ doubt' = doubt
      /\ UNCHANGED <<sessions, resets, qrs, mails>>
  BY DEF registerUser, connVars
<1>3. /\ fresh \in Nat /\ fresh' \in Nat /\ fresh < fresh' /\ fresh' \in Serials'
      /\ fresh' \in Drawn' /\ fresh' # 0 /\ fresh <= fresh'
  BY <1>1, DrawOne
<1>a. row = [id |-> fresh', verified |-> FALSE, code |-> fresh', phone |-> None,
             phoneOK |-> FALSE, secret |-> 0, totpOn |-> FALSE]
  BY <1>0, NewRow
<1>4. row \in RowType' /\ row.id = fresh' /\ row.code = fresh'
      /\ ~row.verified /\ ~row.phoneOK /\ ~row.totpOn
  BY <1>3, <1>a DEF RowType, Drawn
<1>5. /\ users' \in [Names -> RowType'] /\ users'[u] = row
      /\ \A w \in Names \ {u} : users'[w] = users[w]
  BY <1>0, <1>1, <1>3, <1>4, TypesGrow
<1>6. /\ DOMAIN codeTo' \subseteq Drawn' \ {0}
      /\ fresh' \in DOMAIN codeTo' /\ codeTo'[fresh'] = fresh'
      /\ \A k \in DOMAIN codeTo : k \in DOMAIN codeTo' /\ codeTo'[k] = codeTo[k]
  <2>1. ASSUME NEW to, to = fresh', SendCode(to) PROVE codeTo'[fresh'] = fresh'
    BY <1>1, <2>1, CodeSent
  <2> QED
    BY <1>1, <2>1, CodeSent
<1>7. Grows
  <2>1. \A w \in Names : RowGrows(w)
    BY <1>1, <1>3, <1>4, <1>5 DEF RowGrows, NoRow
  <2>2. \A d \in Conns : PhoneStays(d)
    <3>1. \A d \in Conns : at[d].pc = "linked" => at[d].u \in Names
      BY DEF AccountsInv, AtInv
    <3> QED
      BY <1>1, <1>5, <3>1 DEF PhoneStays, NoRow
  <2> QED
    BY <1>2, <1>3, <1>6, <2>1, <2>2 DEF Grows
<1>8. ConnTyped'
  BY <1>1, <1>2, <1>3, TypesGrow DEF Typed, ConnTyped
<1>9. RowInv(u)'
  BY <1>3, <1>4, <1>5, <1>6 DEF RowInv
<1> QED
  BY <1>1, <1>2, <1>3, <1>5, <1>6, <1>7, <1>8, <1>9, RowStep

(* UPDATE for a request that was checked for an account.                   *)
LEMMA Updated ==
    ASSUME AccountsInv, fresh' \in Nat, fresh <= fresh',
           NEW u \in Names, NEW id \in Drawn, id # 0,
           NEW row \in RowType', Update(u, id, row),
           row.id = users[u].id, row.phone = users[u].phone,
           users[u].verified => row.verified
    PROVE  /\ users' \in [Names -> RowType'] /\ doubt \subseteq doubt'
           /\ \A w \in Names \ {u} : users'[w] = users[w]
           /\ \/ users'[u] = users[u]
              \/ /\ users'[u] = row /\ users[u].id # 0
                 /\ users[u].id = id \/ <<users[u].id, "late">> \in doubt'
           /\ \A w \in Names : RowGrows(w)
           /\ \A d \in Conns : PhoneStays(d)
<1>1. users \in [Names -> RowType] /\ users \in [Names -> RowType'] /\ fresh \in Nat
  BY FreshIsNat, TypesGrow DEF AccountsInv, Typed, TableTyped
<1>2. users[u] # NoRow => users[u].id # 0
  BY RowHasId
<1>3. doubt \subseteq doubt'
      /\ (users[u].id # 0 /\ users[u].id # id => <<users[u].id, "late">> \in doubt')
  BY DEF Update
<1>4. \/ users' = users
      \/ users[u] # NoRow /\ users' = [users EXCEPT ![u] = row]
  BY DEF Update
<1>5. /\ users' \in [Names -> RowType']
      /\ \A w \in Names \ {u} : users'[w] = users[w]
      /\ users'[u] = users[u] \/ (users'[u] = row /\ users[u] # NoRow)
  BY <1>1, <1>4
<1>6. \A w \in Names : RowGrows(w) /\ users'[w].phone = users[w].phone
  BY <1>5 DEF RowGrows
<1>7. \A d \in Conns : PhoneStays(d)
  <2>1. \A d \in Conns : at[d].pc = "linked" => at[d].u \in Names
    BY DEF AccountsInv, AtInv
  <2> QED
    BY <1>6, <2>1 DEF PhoneStays
<1> QED
  BY <1>2, <1>3, <1>5, <1>6, <1>7

(* The write at the end of a request, with what must be shown of the row.  *)
LEMMA UpdateEnds ==
    ASSUME AccountsInv, NEW c \in Conns, NEW u \in Names, NEW id \in Drawn, id # 0,
           NEW row \in RowType, Update(u, id, row),
           row.id = users[u].id, row.phone = users[u].phone,
           users[u].verified => row.verified,
           Done(c),
           UNCHANGED <<flow, sock, who, clients, sessions, resets, qrs, mails, fresh,
                       codeTo, proof>>,
           /\ users'[u] = row /\ doubt \subseteq doubt' /\ users[u].id # 0
           /\ users[u].id = id \/ <<users[u].id, "late">> \in doubt'
           => RowInv(u)'
    PROVE  AccountsInv'
<1>1. /\ Typed /\ fresh' = fresh /\ fresh \in Nat /\ fresh' \in Nat /\ fresh <= fresh'
      /\ fresh' \in Serials' /\ flow' = flow
  BY FreshIsNat DEF AccountsInv, Typed, Serials
<1>3. row \in RowType'
  BY <1>1, TypesGrow
<1>4. /\ users' \in [Names -> RowType'] /\ doubt \subseteq doubt'
      /\ \A w \in Names \ {u} : users'[w] = users[w]
      /\ \/ users'[u] = users[u]
         \/ /\ users'[u] = row /\ users[u].id # 0
            /\ users[u].id = id \/ <<users[u].id, "late">> \in doubt'
      /\ \A w \in Names : RowGrows(w)
      /\ \A d \in Conns : PhoneStays(d)
  BY <1>1, <1>3, Updated
<1>5. Grows
  BY <1>1, <1>4 DEF Grows
<1>6. /\ at' \in [Conns -> AtType'] /\ at'[c].pc # "reset" /\ AtInv(c)'
      /\ \A d \in Conns \ {c} : at'[d] = at[d]
  BY <1>1, Finishes
<1>7. ConnTyped'
  BY <1>1, <1>6, TypesGrow DEF Typed, ConnTyped
<1>8. DOMAIN codeTo' \subseteq Drawn' \ {0}
  BY <1>1, TypesGrow DEF Typed, TableTyped
<1>9. \A w \in Names : users'[w] = users[w] \/ RowInv(w)'
  BY <1>4
<1> QED
  BY <1>1, <1>4, <1>5, <1>6, <1>7, <1>8, <1>9, RowStep

(* The account a request is about.                                         *)
LEMMA Subject ==
    ASSUME AccountsInv, NEW c \in Conns, at[c].pc # "idle"
    PROVE  at[c].u \in Names /\ at[c].id \in Drawn /\ at[c].id # 0 /\ at[c].x \in Drawn
           /\ at[c].tok \in Drawn /\ 0 \in Drawn
<1>1. 0 \in Drawn
  BY FreshIsNat DEF Drawn, AccountsInv
<1> QED
  BY <1>1 DEF AccountsInv, AtInv, Typed, ConnTyped, AtType

(* What a row may become: the code goes or stays, and what is new is shown. *)
LEMMA RowKept ==
    ASSUME NEW u, RowInv(u), users[u].id # 0, doubt \subseteq doubt', proof' = proof,
           codeTo' = codeTo, users'[u].id = users[u].id, users'[u].phone = users[u].phone,
           \/ users'[u].code = 0
           \/ users'[u].code = users[u].code /\ (users'[u].verified => users[u].verified),
           users'[u].verified => users[u].verified \/ Proved(users[u].id)',
           users'[u].phoneOK => users[u].phoneOK
              \/ <<users[u].id, users[u].phone>> \in proof
              \/ Doubtful(u, {"late", "resent", "relinked"})',
           users'[u].totpOn => (users[u].totpOn /\ users'[u].secret = users[u].secret)
              \/ <<users[u].id, users'[u].secret>> \in proof \/ Doubtful(u, {"late"})'
    PROVE  RowInv(u)'
<1>1. /\ Proved(users[u].id) => Proved(users[u].id)'
      /\ \A why : Doubtful(u, why) => Doubtful(u, why)'
  BY DEF Proved, Doubtful
<1>2. users'[u].id # 0
  OBVIOUS
<1>3. users'[u].code # 0 =>
         /\ users'[u].code \in DOMAIN codeTo'
         /\ codeTo'[users'[u].code] = users'[u].id \/ Proved(users[u].id)'
         /\ users'[u].verified =>
               codeTo'[users'[u].code] = users'[u].phone \/ Doubtful(u, {"late", "resent"})'
  BY <1>1 DEF RowInv
<1>4. users'[u].verified => Proved(users[u].id)'
  BY <1>1 DEF RowInv, Proved
<1>5. users'[u].phoneOK => \/ <<users'[u].id, users'[u].phone>> \in proof'
                          \/ Doubtful(u, {"late", "resent", "relinked"})'
  BY <1>1 DEF RowInv
<1>6. users'[u].totpOn => \/ <<users'[u].id, users'[u].secret>> \in proof'
                         \/ Doubtful(u, {"late"})'
  BY <1>1 DEF RowInv
<1> QED
  BY <1>2, <1>3, <1>4, <1>5, <1>6 DEF RowInv, Proved, Doubtful

LEMMA verifyUserWriteInv ==
    ASSUME AccountsInv, NEW c \in Conns, verifyUserWrite(c)
    PROVE  AccountsInv'
<1>0. PICK u \in Names, id \in Drawn : u = at[c].u /\ id = at[c].id /\ id # 0 /\ 0 \in Drawn
  BY Subject DEF verifyUserWrite
<1>1. PICK row : row = [users[u] EXCEPT !.verified = TRUE, !.code = 0] /\ Update(u, id, row)
  BY <1>0 DEF verifyUserWrite
<1>2. u \in Names /\ at[c].pc = "verified" /\ (users[u].id = id => Proved(id)) /\ RowInv(u)
      /\ users[u] \in RowType /\ proof' = proof /\ codeTo' = codeTo
  BY <1>0, RowHasId DEF AccountsInv, AtInv, verifyUserWrite
<1>3. /\ row \in RowType /\ row.id = users[u].id /\ row.phone = users[u].phone
      /\ row.verified /\ row.code = 0 /\ (row.phoneOK => users[u].phoneOK)
      /\ (row.totpOn => users[u].totpOn) /\ row.secret = users[u].secret
  BY <1>0, <1>1, <1>2 DEF RowType
<1>4. ASSUME users'[u] = row, doubt \subseteq doubt', users[u].id # 0,
             users[u].id = id \/ <<users[u].id, "late">> \in doubt'
      PROVE  RowInv(u)'
  BY <1>2, <1>3, <1>4, RowKept DEF Proved, Doubtful
<1> QED
  BY <1>0, <1>1, <1>2, <1>3, <1>4, UpdateEnds DEF verifyUserWrite

LEMMA verifyPhoneLinkWriteInv ==
    ASSUME AccountsInv, NEW c \in Conns, verifyPhoneLinkWrite(c)
    PROVE  AccountsInv'
<1>0. PICK u \in Names, id \in Drawn : u = at[c].u /\ id = at[c].id /\ id # 0 /\ 0 \in Drawn
  BY Subject DEF verifyPhoneLinkWrite
<1>1. PICK row : /\ row = [users[u] EXCEPT !.code = 0, !.phoneOK = @ \/ at[c].pc = "linked"]
                 /\ Update(u, id, row)
  BY <1>0 DEF verifyPhoneLinkWrite
<1>2. /\ u \in Names /\ at[c].pc \in {"linked", "wipe"} /\ RowInv(u)
      /\ at[c].pc = "linked" /\ users[u].id = id =>
            \/ <<id, users[u].phone>> \in proof
            \/ Doubtful(u, {"late", "resent", "relinked"})
      /\ users[u] \in RowType /\ proof' = proof /\ codeTo' = codeTo
  BY <1>0, RowHasId DEF AccountsInv, AtInv, verifyPhoneLinkWrite
<1>3. /\ row \in RowType /\ row.id = users[u].id /\ row.phone = users[u].phone
      /\ (row.verified => users[u].verified) /\ (users[u].verified => row.verified) /\ row.code = 0
      /\ row.phoneOK => users[u].phoneOK \/ at[c].pc = "linked"
      /\ (row.totpOn => users[u].totpOn) /\ row.secret = users[u].secret
  BY <1>0, <1>1, <1>2 DEF RowType
<1>4. ASSUME users'[u] = row, doubt \subseteq doubt', users[u].id # 0,
             users[u].id = id \/ <<users[u].id, "late">> \in doubt'
      PROVE  RowInv(u)'
  BY <1>2, <1>3, <1>4, RowKept DEF Proved, Doubtful
<1> QED
  BY <1>0, <1>1, <1>2, <1>3, <1>4, UpdateEnds DEF verifyPhoneLinkWrite

LEMMA enableTOTPInv ==
    ASSUME AccountsInv, NEW c \in Conns, enableTOTP(c)
    PROVE  AccountsInv'
<1>0. PICK u \in Names, id \in Drawn : u = at[c].u /\ id = at[c].id /\ id # 0 /\ 0 \in Drawn
  BY Subject DEF enableTOTP
<1>1. PICK row : /\ row = [users[u] EXCEPT !.secret = at[c].x, !.totpOn = TRUE]
                 /\ Update(u, id, row)
  BY <1>0 DEF enableTOTP
<1>2. /\ u \in Names /\ at[c].pc = "confirmed" /\ RowInv(u) /\ <<id, at[c].x>> \in proof
      /\ users[u] \in RowType /\ proof' = proof /\ codeTo' = codeTo /\ at[c].x \in Drawn
  BY <1>0, RowHasId DEF AccountsInv, AtInv, enableTOTP, Typed, ConnTyped, AtType
<1>3. /\ row \in RowType /\ row.id = users[u].id /\ row.phone = users[u].phone
      /\ (row.verified => users[u].verified) /\ (users[u].verified => row.verified) /\ row.code = users[u].code
      /\ (row.phoneOK => users[u].phoneOK) /\ row.secret = at[c].x
  BY <1>1, <1>2 DEF RowType
<1>4. ASSUME users'[u] = row, doubt \subseteq doubt', users[u].id # 0,
             users[u].id = id \/ <<users[u].id, "late">> \in doubt'
      PROVE  RowInv(u)'
  BY <1>2, <1>3, <1>4, RowKept DEF Proved, Doubtful
<1> QED
  BY <1>0, <1>1, <1>2, <1>3, <1>4, UpdateEnds DEF enableTOTP

LEMMA disableTOTPInv ==
    ASSUME AccountsInv, NEW c \in Conns, disableTOTP(c)
    PROVE  AccountsInv'
<1>0. PICK u \in Names, id \in Drawn : u = at[c].u /\ id = at[c].id /\ id # 0 /\ 0 \in Drawn
  BY Subject DEF disableTOTP
<1>1. PICK row : /\ row = [users[u] EXCEPT !.secret = 0, !.totpOn = FALSE]
                 /\ Update(u, id, row)
  BY <1>0 DEF disableTOTP, NoSecret
<1>2. /\ u \in Names /\ at[c].pc = "disable" /\ RowInv(u)
      /\ users[u] \in RowType /\ proof' = proof /\ codeTo' = codeTo
  BY <1>0, RowHasId DEF AccountsInv, AtInv, disableTOTP
<1>3. /\ row \in RowType /\ row.id = users[u].id /\ row.phone = users[u].phone
      /\ (row.verified => users[u].verified) /\ (users[u].verified => row.verified) /\ row.code = users[u].code
      /\ (row.phoneOK => users[u].phoneOK) /\ ~row.totpOn
  BY <1>0, <1>1, <1>2 DEF RowType
<1>4. ASSUME users'[u] = row, doubt \subseteq doubt', users[u].id # 0,
             users[u].id = id \/ <<users[u].id, "late">> \in doubt'
      PROVE  RowInv(u)'
  BY <1>2, <1>3, <1>4, RowKept DEF Proved, Doubtful
<1> QED
  BY <1>0, <1>1, <1>2, <1>3, <1>4, UpdateEnds DEF disableTOTP

(* A write that also sends a code, or comes at once.                       *)
LEMMA WriteStep ==
    ASSUME AccountsInv, NEW u \in Names, NEW row \in RowType',
           flow' = flow, fresh \in Nat, fresh' \in Nat, fresh <= fresh', fresh' \in Serials',
           UNCHANGED <<sock, who, clients, sessions, resets, qrs, mails, proof>>,
           at' \in [Conns -> AtType'],
           \A d \in Conns : at'[d] = at[d] \/ (AtInv(d)' /\ at'[d].pc # "reset"),
           doubt \subseteq doubt', DOMAIN codeTo' \subseteq Drawn' \ {0},
           \A k \in DOMAIN codeTo : k \in DOMAIN codeTo' /\ codeTo'[k] = codeTo[k],
           \/ users' = users
           \/ users[u] # NoRow /\ users' = [users EXCEPT ![u] = row],
           row.id = users[u].id, users[u].verified => row.verified,
           \/ row.phone = users[u].phone
           \/ \A d \in Conns : at[d].pc = "linked" /\ at[d].u = u =>
                 <<users[u].id, "relinked">> \in doubt',
           users'[u] = row /\ users[u].id # 0 => RowInv(u)'
    PROVE  AccountsInv'
<1>1. Typed /\ users \in [Names -> RowType] /\ users \in [Names -> RowType']
  BY TypesGrow DEF AccountsInv, Typed, TableTyped
<1>2. users[u] # NoRow => users[u].id # 0
  BY RowHasId
<1>3. /\ users' \in [Names -> RowType']
      /\ \A w \in Names \ {u} : users'[w] = users[w]
      /\ users'[u] = users[u] \/ (users'[u] = row /\ users[u] # NoRow)
  BY <1>1
<1>4. \A w \in Names : RowGrows(w)
  BY <1>3 DEF RowGrows
<1>5. \A d \in Conns : PhoneStays(d)
  <2>1. \A d \in Conns : at[d].pc = "linked" => at[d].u \in Names
    BY DEF AccountsInv, AtInv
  <2> QED
    BY <1>3, <2>1 DEF PhoneStays
<1>6. Grows
  BY <1>4, <1>5 DEF Grows
<1>7. ConnTyped'
  BY <1>1, TypesGrow DEF Typed, ConnTyped
<1>8. \A w \in Names : users'[w] = users[w] \/ RowInv(w)'
  BY <1>2, <1>3
<1> QED
  BY <1>3, <1>6, <1>7, <1>8, RowStep

LEMMA EnableTotpInv ==
    ASSUME AccountsInv, NEW c \in Conns, EnableTotp(c)
    PROVE  AccountsInv'
<1>0. PICK u \in Names, id \in Drawn : /\ u = who[c].u /\ id = who[c].id /\ id # 0
                                       /\ Vouched(u, id)
  BY LoggedInWho DEF EnableTotp
<1>1. PICK row : /\ row = [users[u] EXCEPT !.secret = fresh', !.totpOn = FALSE]
                 /\ Update(u, id, row)
  BY <1>0 DEF EnableTotp
<1>2. /\ Typed /\ flow' = flow /\ Draw /\ RowInv(u) /\ users[u] \in RowType
      /\ sock' = sock /\ who' = who /\ clients' = clients /\ at' = at
      /\ sessions' = sessions /\ resets' = resets /\ qrs' = qrs /\ mails' = mails
      /\ codeTo' = codeTo /\ proof' = proof
  BY RowHasId DEF EnableTotp, AccountsInv, connVars
<1>3. /\ fresh \in Nat /\ fresh' \in Nat /\ fresh <= fresh' /\ fresh' \in Serials'
      /\ fresh' \in Drawn'
  BY <1>2, DrawOne
<1>4. users[u] \in RowType'
  BY <1>2, <1>3, TypesGrow
<1>5. /\ row \in RowType' /\ row.id = users[u].id /\ row.phone = users[u].phone
      /\ (row.verified => users[u].verified) /\ (users[u].verified => row.verified)
      /\ row.code = users[u].code /\ (row.phoneOK => users[u].phoneOK) /\ ~row.totpOn
  BY <1>1, <1>3, <1>4 DEF RowType
<1>6. /\ doubt \subseteq doubt'
      /\ \/ users' = users
         \/ users[u] # NoRow /\ users' = [users EXCEPT ![u] = row]
  BY <1>1 DEF Update
<1>7. ASSUME users'[u] = row, users[u].id # 0 PROVE RowInv(u)'
  BY <1>2, <1>5, <1>6, <1>7, RowKept
<1>8. at' \in [Conns -> AtType'] /\ DOMAIN codeTo' \subseteq Drawn' \ {0}
  BY <1>2, <1>3, TypesGrow DEF Typed, ConnTyped, TableTyped
<1> QED
  BY <1>2, <1>3, <1>5, <1>6, <1>7, <1>8, WriteStep

(* A row with a new code.                                                  *)
LEMMA RowCoded ==
    ASSUME NEW u, RowInv(u), users[u].id # 0, doubt \subseteq doubt', proof' = proof,
           users'[u].id = users[u].id, users'[u].code \in DOMAIN codeTo',
           users'[u].verified => users[u].verified,
           users'[u].totpOn => users[u].totpOn /\ users'[u].secret = users[u].secret,
           users'[u].phoneOK => users[u].phoneOK /\
              (users'[u].phone = users[u].phone \/ <<users[u].id, "relinked">> \in doubt'),
           codeTo'[users'[u].code] = users[u].id \/ Proved(users[u].id)',
           users'[u].verified =>
              codeTo'[users'[u].code] = users'[u].phone \/ Doubtful(u, {"late", "resent"})'
    PROVE  RowInv(u)'
<1>1. /\ Proved(users[u].id) => Proved(users[u].id)'
      /\ \A why : Doubtful(u, why) => Doubtful(u, why)'
      /\ <<users[u].id, "relinked">> \in doubt' => Doubtful(u, {"late", "resent", "relinked"})'
  BY DEF Proved, Doubtful
<1>2. users'[u].code # 0 =>
         /\ users'[u].code \in DOMAIN codeTo'
         /\ codeTo'[users'[u].code] = users'[u].id \/ Proved(users[u].id)'
         /\ users'[u].verified =>
               codeTo'[users'[u].code] = users'[u].phone \/ Doubtful(u, {"late", "resent"})'
  OBVIOUS
<1>3. users'[u].verified => Proved(users[u].id)'
  BY <1>1 DEF RowInv
<1>4. users'[u].phoneOK => \/ <<users'[u].id, users'[u].phone>> \in proof'
                          \/ Doubtful(u, {"late", "resent", "relinked"})'
  BY <1>1 DEF RowInv
<1>5. users'[u].totpOn => \/ <<users'[u].id, users'[u].secret>> \in proof'
                         \/ Doubtful(u, {"late"})'
  BY <1>1 DEF RowInv
<1> QED
  BY <1>2, <1>3, <1>4, <1>5 DEF RowInv, Proved, Doubtful

LEMMA ResendWriteInv ==
    ASSUME AccountsInv, NEW c \in Conns, ResendWrite(c)
    PROVE  AccountsInv'
<1>0. PICK u \in Names, id \in Drawn : u = at[c].u /\ id = at[c].id /\ id # 0
  BY Subject DEF ResendWrite
<1>1. PICK row : row = [users[u] EXCEPT !.code = fresh']
  OBVIOUS
<1>2. /\ Typed /\ flow' = flow /\ Draw /\ RowInv(u) /\ users[u] \in RowType
      /\ sock' = sock /\ who' = who /\ clients' = clients
      /\ sessions' = sessions /\ resets' = resets /\ qrs' = qrs /\ mails' = mails
      /\ proof' = proof /\ SendCode(id) /\ Done(c)
  BY <1>0, RowHasId DEF ResendWrite, AccountsInv
<1>3. /\ fresh \in Nat /\ fresh' \in Nat /\ fresh <= fresh' /\ fresh' \in Serials'
      /\ fresh' \in Drawn'
  BY <1>2, DrawOne
<1>4. users[u] \in RowType'
  BY <1>2, <1>3, TypesGrow
<1>5. /\ row \in RowType' /\ row.id = users[u].id /\ row.phone = users[u].phone
      /\ (row.verified => users[u].verified) /\ (users[u].verified => row.verified)
      /\ row.code = fresh' /\ (row.phoneOK => users[u].phoneOK)
      /\ (row.totpOn => users[u].totpOn) /\ row.secret = users[u].secret
  BY <1>1, <1>3, <1>4 DEF RowType
<1>6. /\ doubt \subseteq doubt'
      /\ users[u].verified => <<users[u].id, "resent">> \in doubt'
      /\ users[u].id = id \/ <<users[u].id, "late">> \in doubt'
  BY <1>0 DEF ResendWrite
<1>7. \/ users' = users
      \/ users[u] # NoRow /\ users' = [users EXCEPT ![u] = row]
  BY <1>0, <1>1 DEF ResendWrite
<1>8. /\ DOMAIN codeTo' \subseteq Drawn' \ {0}
      /\ fresh' \in DOMAIN codeTo' /\ codeTo'[fresh'] = id
      /\ \A k \in DOMAIN codeTo : k \in DOMAIN codeTo' /\ codeTo'[k] = codeTo[k]
  BY <1>2, CodeSent
<1>9. ASSUME users'[u] = row, users[u].id # 0 PROVE RowInv(u)'
  BY <1>2, <1>5, <1>6, <1>8, <1>9, RowCoded DEF Proved, Doubtful
<1>10. /\ at' \in [Conns -> AtType'] /\ at'[c].pc # "reset" /\ AtInv(c)'
       /\ \A d \in Conns \ {c} : at'[d] = at[d]
  BY <1>2, <1>3, Finishes
<1> QED
  BY <1>2, <1>3, <1>5, <1>6, <1>7, <1>8, <1>9, <1>10, WriteStep

LEMMA RequestPhoneLinkInv ==
    ASSUME AccountsInv, NEW c \in Conns, NEW n \in Phones, RequestPhoneLink(c, n)
    PROVE  AccountsInv'
<1>0. PICK u \in Names, id \in Drawn : /\ u = who[c].u /\ id = who[c].id /\ id # 0
                                       /\ Vouched(u, id)
  BY LoggedInWho DEF RequestPhoneLink
<1>1. PICK row : row = [users[u] EXCEPT !.code = fresh', !.phone = n]
  OBVIOUS
<1>2. /\ Typed /\ flow' = flow /\ Draw /\ RowInv(u) /\ users[u] \in RowType
      /\ sock' = sock /\ who' = who /\ clients' = clients /\ at' = at
      /\ sessions' = sessions /\ resets' = resets /\ qrs' = qrs /\ mails' = mails
      /\ proof' = proof /\ SendCode(n)
  BY RowHasId DEF RequestPhoneLink, AccountsInv, connVars
<1>3. /\ fresh \in Nat /\ fresh' \in Nat /\ fresh <= fresh' /\ fresh' \in Serials'
      /\ fresh' \in Drawn'
  BY <1>2, DrawOne
<1>4. users[u] \in RowType'
  BY <1>2, <1>3, TypesGrow
<1>5. /\ row \in RowType' /\ row.id = users[u].id /\ row.phone = n
      /\ (row.verified => users[u].verified) /\ (users[u].verified => row.verified)
      /\ row.code = fresh' /\ (row.phoneOK => users[u].phoneOK)
      /\ (row.totpOn => users[u].totpOn) /\ row.secret = users[u].secret
  BY <1>1, <1>3, <1>4 DEF RowType
<1>6. /\ doubt \subseteq doubt'
      /\ users[u].phoneOK => <<users[u].id, "relinked">> \in doubt'
      /\ \A d \in Conns : at[d].pc = "linked" /\ at[d].u = u =>
            <<users[u].id, "relinked">> \in doubt'
      /\ users[u].id = id \/ <<users[u].id, "late">> \in doubt'
  BY <1>0 DEF RequestPhoneLink
<1>7. \/ users' = users
      \/ users[u] # NoRow /\ users' = [users EXCEPT ![u] = row]
  BY <1>0, <1>1 DEF RequestPhoneLink
<1>8. /\ DOMAIN codeTo' \subseteq Drawn' \ {0}
      /\ fresh' \in DOMAIN codeTo' /\ codeTo'[fresh'] = n
      /\ \A k \in DOMAIN codeTo : k \in DOMAIN codeTo' /\ codeTo'[k] = codeTo[k]
  BY <1>2, CodeSent
<1>9. ASSUME users'[u] = row, users[u].id # 0 PROVE RowInv(u)'
  <2>1. Proved(users[u].id)'
    <3>1. users[u].id = id => Proved(users[u].id)
      BY <1>0, <1>2 DEF Vouched, RowInv
    <3> QED
      BY <1>2, <1>5, <1>6, <1>9, <3>1 DEF Proved
  <2> QED
    BY <1>2, <1>5, <1>6, <1>8, <1>9, <2>1, RowCoded
<1>10. at' \in [Conns -> AtType']
  BY <1>2, <1>3, TypesGrow DEF Typed, ConnTyped
<1> QED
  BY <1>2, <1>3, <1>5, <1>6, <1>7, <1>8, <1>9, <1>10, WriteStep

(* A code or a secret is shown: what is proved grows.                      *)
LEMMA ProofStep ==
    ASSUME AccountsInv, NEW c \in Conns, NEW pc \in PCs \ {"reset", "idle"},
           NEW u \in Names, NEW id \in Drawn, NEW x \in Drawn, Do(c, pc, u, id, x),
           proof \subseteq proof', AtInv(c)',
           UNCHANGED <<flow, sock, who, clients, users, sessions, resets, qrs, mails, fresh,
                       codeTo, doubt>>
    PROVE  AccountsInv'
<1>1. Typed /\ fresh' = fresh /\ fresh \in Nat /\ users' = users /\ codeTo' = codeTo
  BY FreshIsNat DEF AccountsInv
<1>2. /\ id \in Drawn' /\ x \in Drawn' /\ fresh' \in Nat /\ fresh <= fresh'
      /\ pc \in PCs /\ u \in Names \cup {None}
  BY <1>1 DEF Drawn
<1>3. /\ at' \in [Conns -> AtType']
      /\ at'[c] = [pc |-> pc, u |-> u, id |-> id, x |-> x, tok |-> 0]
      /\ \A d \in Conns \ {c} : at'[d] = at[d]
  BY <1>1, <1>2, Moves
<1>4. ConnTyped'
  BY <1>1, <1>3 DEF Typed, ConnTyped, Drawn
<1>5. at'[c].pc # "reset"
  BY <1>3
<1>6. Grows
  BY <1>1 DEF Grows, RowGrows, PhoneStays
<1>7. /\ users' \in [Names -> RowType'] /\ DOMAIN codeTo' \subseteq Drawn' \ {0}
      /\ fresh' \in Serials'
  BY <1>1 DEF Typed, TableTyped, RowType, Drawn, Serials
<1> QED
  BY <1>1, <1>3, <1>4, <1>5, <1>6, <1>7, RowStep

LEMMA verifyUserInv ==
    ASSUME AccountsInv, NEW c \in Conns, NEW u \in Names, NEW k, verifyUser(c, u, k)
    PROVE  AccountsInv'
<1>1. /\ k \in DOMAIN codeTo /\ users[u].code = k /\ users' = users
      /\ proof' = proof \cup {<<users[u].id, codeTo[k]>>}
      /\ Do(c, "verified", u, users[u].id, k)
  BY DEF verifyUser, CodeMatches, Shown
<1>2. k \in Drawn /\ k # 0 /\ users[u].id \in Drawn /\ users[u].id # 0
  BY <1>1, RowHasId DEF AccountsInv, Typed, TableTyped
<1>3. codeTo[k] = users[u].id \/ Proved(users[u].id)
  BY <1>1, <1>2 DEF AccountsInv, RowInv
<1>4. Proved(users[u].id)'
  BY <1>1, <1>3 DEF Proved, verifyUser
<1>5. at'[c] = [pc |-> "verified", u |-> u, id |-> users[u].id, x |-> k, tok |-> 0]
  BY <1>1 DEF Do, AccountsInv, Typed, ConnTyped
<1>6. AtInv(c)'
  BY <1>1, <1>2, <1>4, <1>5 DEF AtInv, Proved
<1> QED
  BY <1>1, <1>2, <1>6, ProofStep DEF PCs, verifyUser

LEMMA verifyPhoneLinkInv ==
    ASSUME AccountsInv, NEW c \in Conns, NEW k, verifyPhoneLink(c, k)
    PROVE  AccountsInv'
<1>0. PICK u \in Names, id \in Drawn : /\ u = who[c].u /\ id = who[c].id /\ id # 0
                                       /\ Vouched(u, id)
  BY LoggedInWho DEF verifyPhoneLink
<1>1. k \in DOMAIN codeTo /\ k \in Drawn /\ k # 0 /\ users' = users /\ doubt' = doubt /\ RowInv(u)
  BY DEF verifyPhoneLink, AccountsInv, Typed, TableTyped
<1>2. CASE CodeMatches(u, k) /\ proof' = Shown(u, k) /\ Do(c, "linked", u, id, k)
  <2>1. users[u].code = k /\ proof' = proof \cup {<<users[u].id, codeTo[k]>>}
    BY <1>2 DEF CodeMatches, Shown
  <2>2. users[u].id = id => \/ <<id, users[u].phone>> \in proof'
                            \/ Doubtful(u, {"late", "resent", "relinked"})
    BY <1>0, <1>1, <2>1 DEF Vouched, RowInv, Doubtful
  <2>3. at'[c] = [pc |-> "linked", u |-> u, id |-> id, x |-> k, tok |-> 0]
    BY <1>2 DEF Do, AccountsInv, Typed, ConnTyped
  <2>4. AtInv(c)'
    BY <1>0, <1>1, <2>2, <2>3 DEF AtInv, Doubtful
  <2> QED
    BY <1>1, <1>2, <2>1, <2>4, ProofStep DEF PCs, verifyPhoneLink
<1>3. CASE Do(c, "wipe", u, id, k) /\ proof' = proof
  <2>1. at'[c] = [pc |-> "wipe", u |-> u, id |-> id, x |-> k, tok |-> 0]
    BY <1>3 DEF Do, AccountsInv, Typed, ConnTyped
  <2>2. AtInv(c)'
    BY <1>0, <2>1 DEF AtInv
  <2> QED
    BY <1>1, <1>3, <2>2, ProofStep DEF PCs, verifyPhoneLink
<1> QED
  BY <1>0, <1>2, <1>3 DEF verifyPhoneLink

LEMMA ConfirmTotpInv ==
    ASSUME AccountsInv, NEW c \in Conns, ConfirmTotp(c)
    PROVE  AccountsInv'
<1>0. PICK u \in Names, id \in Drawn : u = who[c].u /\ id = who[c].id /\ id # 0
  BY LoggedInWho DEF ConfirmTotp
<1>1. PICK x \in Drawn : x = users[u].secret
  BY DEF AccountsInv, Typed, TableTyped, RowType
<1>2. /\ users[u].id = id /\ users' = users /\ proof' = proof \cup {<<id, x>>}
      /\ Do(c, "confirmed", u, id, x)
  BY <1>0, <1>1 DEF ConfirmTotp
<1>3. at'[c] = [pc |-> "confirmed", u |-> u, id |-> id, x |-> x, tok |-> 0]
  BY <1>2 DEF Do, AccountsInv, Typed, ConnTyped
<1>4. AtInv(c)'
  BY <1>0, <1>2, <1>3 DEF AtInv
<1> QED
  BY <1>2, <1>4, ProofStep DEF PCs, ConfirmTotp

------------------------------------------------------------------------------
(* Steps that change the tables of tokens and leave users alone.           *)
LEMMA TableStep ==
    ASSUME AccountsInv, flow' = flow, users' = users, codeTo' = codeTo, proof' = proof,
           doubt \subseteq doubt', who' = who, fresh' \in Nat, fresh <= fresh',
           fresh' \in Serials', ConnTyped', ResetInv',
           sessions' \subseteq SessionType', resets' \subseteq ResetType',
           qrs' \subseteq QRType', mails' \subseteq [u : Names, id : Drawn'],
           \A t \in sessions : \E s \in sessions' : s.tok = t.tok /\ s.u = t.u /\ s.id = t.id,
           \A d \in Conns : at'[d] = at[d] \/ AtInv(d)',
           \A t \in sessions' : t \in sessions \/ SessionInv(t)',
           \A r \in resets' : r \in resets \/ Held(r)',
           \A q \in qrs' : q \in qrs \/ QRInv(q)',
           \A m \in mails' : m.id # 0
    PROVE  AccountsInv'
<1>1. Typed /\ fresh \in Nat /\ Drawn \subseteq Drawn'
  BY FreshIsNat, TypesGrow DEF AccountsInv
<1>2. Grows
  BY <1>1 DEF Grows, RowGrows, PhoneStays
<1>3. users' \in [Names -> RowType'] /\ DOMAIN codeTo' \subseteq Drawn' \ {0}
  BY <1>1, TypesGrow DEF Typed, TableTyped
<1>4. Typed'
  BY <1>1, <1>3 DEF Typed, TableTyped
<1>5. \A r \in resets : r.u \in Names /\ r.id \in Drawn /\ Held(r)
  BY <1>1 DEF AccountsInv, TokenInv, Typed, TableTyped, ResetType
<1> QED
  BY <1>2, <1>4, <1>5, Step

(* A token is stored for whoever the handler let in.                       *)
LEMMA SessionStored ==
    ASSUME AccountsInv, Draw, flow' = flow, users' = users, NEW u \in Names, NEW id \in Drawn,
           Vouched(u, id), NEW t, t = NewToken(u, id), sessions' = sessions \cup {t},
           NEW k, k = fresh'
    PROVE  /\ sessions' \subseteq SessionType' /\ SessionInv(t)'
           /\ HasSession(k, u, id)'
<1>1. Typed /\ fresh \in Nat /\ fresh' \in Nat /\ fresh <= fresh' /\ fresh' \in Drawn' /\ id \in Drawn'
  BY DrawOne DEF AccountsInv
<1>2. t = [tok |-> fresh', u |-> u, id |-> id, live |-> TRUE, late |-> users[u].id # id]
  BY DEF NewToken
<1>3. t \in SessionType' /\ sessions \subseteq SessionType'
  BY <1>1, <1>2, TypesGrow DEF SessionType, Typed, TableTyped
<1>4. t.u = u /\ t.id = id /\ t.tok = k
  BY <1>2
<1>5. users[u].id # id => t.late
  <2>1. t.late = (users[u].id # id)
    BY <1>2
  <2> QED
    BY <2>1
<1>6. SessionInv(t)'
  BY <1>4, <1>5 DEF SessionInv, Held, Vouched
<1>7. HasSession(k, u, id)'
  BY <1>4 DEF HasSession
<1> QED
  BY <1>3, <1>6, <1>7

LEMMA issueSessionTokenInv ==
    ASSUME AccountsInv, NEW c \in Conns, issueSessionToken(c)
    PROVE  AccountsInv'
<1>0. PICK u \in Names, id \in Drawn : u = at[c].u /\ id = at[c].id /\ id # 0
  BY Subject DEF issueSessionToken
<1>1. PICK t : t = NewToken(u, id) /\ sessions' = sessions \cup {t}
  BY <1>0 DEF issueSessionToken
<1>2. /\ Draw /\ flow' = flow /\ users' = users /\ codeTo' = codeTo /\ proof' = proof
      /\ doubt' = doubt /\ who' = who /\ sock' = sock /\ clients' = clients
      /\ resets' = resets /\ qrs' = qrs /\ mails' = mails
      /\ Do(c, "enter", u, id, fresh') /\ Vouched(u, id) /\ Typed
  BY <1>0 DEF issueSessionToken, AccountsInv, AtInv
<1>3. /\ fresh \in Nat /\ fresh' \in Nat /\ fresh <= fresh' /\ fresh' \in Serials'
      /\ fresh' \in Drawn' /\ id \in Drawn'
  BY <1>2, DrawOne
<1>4. sessions' \subseteq SessionType' /\ SessionInv(t)'
  BY <1>1, <1>2, SessionStored
<1>5. /\ at' \in [Conns -> AtType']
      /\ at'[c] = [pc |-> "enter", u |-> u, id |-> id, x |-> fresh', tok |-> 0]
      /\ \A d \in Conns \ {c} : at'[d] = at[d]
  BY <1>2, <1>3, Moves DEF PCs
<1>6. AtInv(c)' /\ at'[c].pc # "reset"
  BY <1>0, <1>2, <1>5 DEF AtInv, Vouched
<1>7. ConnTyped'
  BY <1>2, <1>3, <1>5, TypesGrow DEF Typed, ConnTyped
<1>8. ResetInv'
  BY <1>2, <1>5, <1>6, ResetsStay DEF AccountsInv
<1>9. /\ resets' \subseteq ResetType' /\ qrs' \subseteq QRType'
      /\ mails' \subseteq [u : Names, id : Drawn']
  BY <1>2, <1>3, TypesGrow DEF Typed, TableTyped
<1>10. \A m \in mails : m.id # 0
  BY DEF AccountsInv, TokenInv
<1>11. \A x \in sessions : \E s \in sessions' : s.tok = x.tok /\ s.u = x.u /\ s.id = x.id
  BY <1>1
<1> QED
  BY <1>1, <1>2, <1>3, <1>4, <1>5, <1>6, <1>7, <1>8, <1>9, <1>10, <1>11, TableStep

LEMMA QRLoginApproveInv ==
    ASSUME AccountsInv, NEW c \in Conns, NEW q \in qrs, QRLoginApprove(c, q)
    PROVE  AccountsInv'
<1>0. PICK u \in Names, id \in Drawn : /\ u = who[c].u /\ id = who[c].id /\ id # 0
                                       /\ Vouched(u, id)
  BY LoggedInWho DEF QRLoginApprove
<1>1. PICK t : t = NewToken(u, id) /\ sessions' = sessions \cup {t}
  BY <1>0 DEF QRLoginApprove
<1>2. /\ Draw /\ flow' = flow /\ users' = users /\ codeTo' = codeTo /\ proof' = proof
      /\ doubt' = doubt /\ who' = who /\ sock' = sock /\ clients' = clients
      /\ resets' = resets /\ qrs' = qrs /\ mails' = mails /\ Typed /\ q.tok \in Drawn
  BY DEF QRLoginApprove, AccountsInv, Typed, TableTyped, QRType
<1>3. /\ fresh \in Nat /\ fresh' \in Nat /\ fresh <= fresh' /\ fresh' \in Serials'
      /\ fresh' \in Drawn' /\ id \in Drawn' /\ q.tok \in Drawn'
  BY <1>2, DrawOne
<1>k. PICK k : k = fresh'
  OBVIOUS
<1>4. sessions' \subseteq SessionType' /\ SessionInv(t)' /\ HasSession(k, u, id)'
  BY <1>0, <1>1, <1>2, <1>k, SessionStored
<1>5. PICK a : /\ a = [pc |-> "approve", u |-> u, id |-> id, x |-> q.tok, tok |-> fresh']
               /\ at' = [at EXCEPT ![c] = a]
  BY <1>0 DEF QRLoginApprove
<1>6. a \in AtType' /\ at \in [Conns -> AtType']
  BY <1>2, <1>3, <1>5, TypesGrow DEF AtType, PCs, Typed, ConnTyped
<1>7. /\ at' \in [Conns -> AtType'] /\ at'[c] = a /\ at'[c].pc # "reset"
      /\ \A d \in Conns \ {c} : at'[d] = at[d]
  BY <1>5, <1>6
<1>8. AtInv(c)'
  BY <1>0, <1>2, <1>4, <1>5, <1>7, <1>k DEF AtInv, Vouched, HasSession
<1>9. ConnTyped'
  BY <1>2, <1>3, <1>7, TypesGrow DEF Typed, ConnTyped
<1>10. ResetInv'
  BY <1>2, <1>7, ResetsStay DEF AccountsInv
<1>11. /\ resets' \subseteq ResetType' /\ qrs' \subseteq QRType'
       /\ mails' \subseteq [u : Names, id : Drawn']
  BY <1>2, <1>3, TypesGrow DEF Typed, TableTyped
<1>12. \A m \in mails : m.id # 0
  BY DEF AccountsInv, TokenInv
<1>13. \A x \in sessions : \E s \in sessions' : s.tok = x.tok /\ s.u = x.u /\ s.id = x.id
  BY <1>1
<1> QED
  BY <1>1, <1>2, <1>3, <1>4, <1>7, <1>8, <1>9, <1>10, <1>11, <1>12, <1>13, TableStep

(* Steps in which no random value is drawn.                                *)
LEMMA QuietTableStep ==
    ASSUME AccountsInv, UNCHANGED <<flow, sock, who, clients, users, fresh, codeTo, proof>>,
           doubt \subseteq doubt', at' \in [Conns -> AtType], ResetInv',
           sessions' \subseteq SessionType, resets' \subseteq ResetType,
           qrs' \subseteq QRType, mails' \subseteq [u : Names, id : Drawn],
           \A t \in sessions : \E s \in sessions' : s.tok = t.tok /\ s.u = t.u /\ s.id = t.id,
           \A d \in Conns : at'[d] = at[d] \/ AtInv(d)',
           \A t \in sessions' : t \in sessions \/ SessionInv(t)',
           \A r \in resets' : r \in resets \/ Held(r)',
           \A q \in qrs' : q \in qrs \/ QRInv(q)',
           \A m \in mails' : m.id # 0
    PROVE  AccountsInv'
<1>1. Typed /\ fresh' = fresh /\ fresh \in Nat /\ fresh' \in Serials'
  BY FreshIsNat DEF AccountsInv, Typed, Serials
<1>2. /\ SessionType' = SessionType /\ ResetType' = ResetType /\ QRType' = QRType
      /\ [u : Names, id : Drawn'] = [u : Names, id : Drawn] /\ AtType' = AtType /\ Drawn' = Drawn
  BY <1>1 DEF SessionType, ResetType, QRType, AtType, Drawn
<1>3. ConnTyped'
  BY <1>1, <1>2 DEF Typed, ConnTyped
<1> QED
  BY <1>1, <1>2, <1>3, TableStep

LEMMA revokeSessionInv ==
    ASSUME AccountsInv, NEW t \in sessions, revokeSession(t)
    PROVE  AccountsInv'
<1>1. PICK s : s = [t EXCEPT !.live = FALSE] /\ sessions' = (sessions \ {t}) \cup {s}
  BY DEF revokeSession
<1>2. Typed /\ t \in SessionType /\ SessionInv(t) /\ at' = at /\ users' = users
  BY DEF AccountsInv, Typed, TableTyped, TokenInv, revokeSession, connVars
<1>3. s \in SessionType /\ s.tok = t.tok /\ s.u = t.u /\ s.id = t.id /\ s.late = t.late
  BY <1>1, <1>2 DEF SessionType
<1>4. SessionInv(s)'
  BY <1>2, <1>3 DEF SessionInv, Held, Vouched
<1>5. /\ resets' = resets /\ qrs' = qrs /\ mails' = mails /\ at \in [Conns -> AtType]
      /\ sessions \subseteq SessionType /\ resets \subseteq ResetType /\ qrs \subseteq QRType
      /\ mails \subseteq [u : Names, id : Drawn]
  BY <1>2 DEF revokeSession, Typed, ConnTyped, TableTyped
<1>6. ResetInv' /\ \A m \in mails : m.id # 0
  BY <1>2, <1>5, ResetsStay DEF AccountsInv, TokenInv
<1>7. \A x \in sessions : \E y \in sessions' : y.tok = x.tok /\ y.u = x.u /\ y.id = x.id
  BY <1>1, <1>3
<1>8. UNCHANGED <<flow, sock, who, clients, users, fresh, codeTo, proof, doubt>>
  BY DEF revokeSession, connVars
<1> QED
  BY <1>1, <1>2, <1>3, <1>4, <1>5, <1>6, <1>7, <1>8, QuietTableStep

LEMMA TablesTyped ==
    ASSUME AccountsInv
    PROVE  /\ at \in [Conns -> AtType] /\ users \in [Names -> RowType]
           /\ sessions \subseteq SessionType /\ resets \subseteq ResetType
           /\ qrs \subseteq QRType /\ mails \subseteq [u : Names, id : Drawn]
           /\ \A m \in mails : m.id # 0
           /\ \A x \in sessions : \E y \in sessions : y.tok = x.tok /\ y.u = x.u /\ y.id = x.id
           /\ fresh \in Nat /\ 0 \in Drawn
BY FreshIsNat DEF AccountsInv, Typed, ConnTyped, TableTyped, TokenInv, Drawn

LEMMA ForgotPasswordInv ==
    ASSUME AccountsInv, NEW u \in Names, ForgotPassword(u)
    PROVE  AccountsInv'
<1>1. PICK m : m = [u |-> u, id |-> users[u].id] /\ mails' = mails \cup {m}
  BY DEF ForgotPassword
<1>2. m \in [u : Names, id : Drawn] /\ m.id # 0
  BY <1>1, RowHasId DEF ForgotPassword
<1>3. /\ UNCHANGED <<flow, sock, who, clients, users, fresh, codeTo, proof, doubt>>
      /\ at' = at /\ sessions' = sessions /\ resets' = resets /\ qrs' = qrs
  BY DEF ForgotPassword, connVars
<1>4. ResetInv'
  BY <1>3, ResetsStay DEF AccountsInv
<1> QED
  BY <1>1, <1>2, <1>3, <1>4, TablesTyped, QuietTableStep

(* The number of a new token is that of no other.                          *)
LEMMA createPasswordResetInv ==
    ASSUME AccountsInv, NEW m, createPasswordReset(m)
    PROVE  AccountsInv'
<1>1. PICK r : /\ r = [tok |-> fresh', u |-> m.u, id |-> m.id, used |-> FALSE, uses |-> 0,
                       raced |-> FALSE, late |-> users[m.u].id # m.id]
               /\ resets' = resets \cup {r}
  BY DEF createPasswordReset
<1>2. /\ m \in mails /\ Draw /\ flow' = flow /\ users' = users /\ codeTo' = codeTo
      /\ proof' = proof /\ doubt' = doubt /\ who' = who /\ sock' = sock /\ clients' = clients
      /\ at' = at /\ sessions' = sessions /\ qrs' = qrs /\ mails' = mails \ {m} /\ Typed
  BY DEF createPasswordReset, connVars, AccountsInv
<1>3. /\ fresh \in Nat /\ fresh' \in Nat /\ fresh <= fresh' /\ fresh' \in Serials'
      /\ fresh' \in Drawn' /\ \A x \in Drawn : x \in Drawn' /\ x # fresh'
  BY <1>2, DrawOne
<1>4. m.u \in Names /\ m.id \in Drawn /\ m.id # 0
  BY <1>2, TablesTyped
<1>5. /\ r.tok = fresh' /\ r.u = m.u /\ r.id = m.id /\ r.uses = 0 /\ ~r.raced
  BY <1>1
<1>6. r \in ResetType'
  BY <1>1, <1>3, <1>4 DEF ResetType
<1>7. Held(r)'
  <2>1. r.late = (users[m.u].id # m.id)
    BY <1>1
  <2> QED
    BY <1>2, <1>4, <1>5, <2>1 DEF Held
<1>8. ResetInv'
  <2>1. /\ \A s \in resets : s.tok # r.tok
        /\ \A c \in Conns : at[c].x # r.tok
    BY <1>3, <1>5, TablesTyped DEF ResetType, AtType
  <2>2. Resetting(r)' = {}
    BY <1>2, <2>1 DEF Resetting
  <2>3. \A s \in resets : Resetting(s)' = Resetting(s)
    BY <1>2 DEF Resetting
  <2>4. \A s, t \in resets' : s.tok = t.tok => s = t
    BY <1>1, <2>1, ZenonT(30) DEF AccountsInv, ResetInv
  <2>5. \A s \in resets : ~s.raced =>
          /\ \A c, d \in Resetting(s)' : c = d
          /\ s.uses = 0 \/ (s.uses = 1 /\ s.used /\ Resetting(s)' = {})
    BY <2>3 DEF AccountsInv, ResetInv
  <2> QED
    BY <1>1, <1>5, <2>2, <2>4, <2>5 DEF ResetInv
<1>9. ConnTyped'
  BY <1>2, <1>3, TypesGrow DEF Typed, ConnTyped
<1>10. /\ sessions' \subseteq SessionType' /\ resets' \subseteq ResetType' /\ qrs' \subseteq QRType'
       /\ mails' \subseteq [u : Names, id : Drawn']
  BY <1>1, <1>2, <1>3, <1>6, TablesTyped, TypesGrow
<1> QED
  BY <1>1, <1>2, <1>3, <1>7, <1>8, <1>9, <1>10, TablesTyped, TableStep

LEMMA readPasswordResetInv ==
    ASSUME AccountsInv, NEW c \in Conns, NEW r, readPasswordReset(c, r)
    PROVE  AccountsInv'
<1>1. PICK s : /\ s = [r EXCEPT !.raced = @ \/ Resetting(r) # {}]
               /\ resets' = (resets \ {r}) \cup {s}
  BY DEF readPasswordReset
<1>2. /\ r \in resets /\ r \in ResetType /\ ~r.used /\ at[c] = Idle /\ Held(r) /\ Typed
      /\ flow' = flow /\ sock' = sock /\ who' = who /\ clients' = clients /\ users' = users
      /\ fresh' = fresh /\ codeTo' = codeTo /\ proof' = proof /\ doubt' = doubt
      /\ sessions' = sessions /\ qrs' = qrs /\ mails' = mails
      /\ Do(c, "reset", r.u, r.id, r.tok)
  BY TablesTyped DEF readPasswordReset, Ready, AccountsInv, TokenInv
<1>3. /\ s \in ResetType /\ s.tok = r.tok /\ s.u = r.u /\ s.id = r.id /\ s.late = r.late
      /\ s.uses = r.uses /\ s.used = r.used /\ (~s.raced => ~r.raced /\ Resetting(r) = {})
  BY <1>1, <1>2 DEF ResetType
<1>4. r.u \in Names /\ r.id \in Drawn /\ r.tok \in Drawn /\ r.id # 0
  BY <1>2 DEF ResetType, Held
<1>5. /\ at' \in [Conns -> AtType]
      /\ at'[c] = [pc |-> "reset", u |-> r.u, id |-> r.id, x |-> r.tok, tok |-> 0]
      /\ \A d \in Conns \ {c} : at'[d] = at[d]
  BY <1>2, <1>4, TablesTyped DEF Do, AtType, PCs
<1>6. AtInv(c)'
  BY <1>4, <1>5 DEF AtInv
<1>7. Held(s)'
  BY <1>2, <1>3 DEF Held
<1>8. ResetInv'
  <2>1. \A t \in resets \ {r} : t.tok # r.tok
    BY <1>2 DEF AccountsInv, ResetInv
  <2>2. \A t \in resets \ {r} : Resetting(t)' \subseteq Resetting(t)
    BY <1>5, <2>1 DEF Resetting
  <2>3. Resetting(s)' \subseteq Resetting(r) \cup {c}
    BY <1>3, <1>5 DEF Resetting
  <2>4. \A t, w \in resets' : t.tok = w.tok => t = w
    <3>1. s.tok = r.tok /\ \A t \in resets' : t = s \/ t \in resets \ {r}
      BY <1>1, <1>3
    <3>2. \A t, w \in resets : t.tok = w.tok => t = w
      BY DEF AccountsInv, ResetInv
    <3> QED
      BY <2>1, <3>1, <3>2
  <2>5. ~s.raced => (\A d, e \in Resetting(s)' : d = e) /\ s.uses = 0
    BY <1>2, <1>3, <2>3 DEF AccountsInv, ResetInv
  <2>6. \A t \in resets \ {r} : ~t.raced =>
          /\ \A d, e \in Resetting(t)' : d = e
          /\ t.uses = 0 \/ (t.uses = 1 /\ t.used /\ Resetting(t)' = {})
    BY <2>2 DEF AccountsInv, ResetInv
  <2> QED
    BY <1>1, <2>4, <2>5, <2>6 DEF ResetInv
<1>9. resets' \subseteq ResetType
  BY <1>1, <1>3, TablesTyped
<1> QED
  BY <1>1, <1>2, <1>5, <1>6, <1>7, <1>8, <1>9, TablesTyped, QuietTableStep

LEMMA consumePasswordResetInv ==
    ASSUME AccountsInv, NEW c \in Conns, consumePasswordReset(c)
    PROVE  AccountsInv'
<1> DEFINE mine == {r \in resets : r.tok = at[c].x}
<1>1. /\ at[c].pc = "reset" /\ Typed
      /\ flow' = flow /\ sock' = sock /\ who' = who /\ clients' = clients
      /\ fresh' = fresh /\ codeTo' = codeTo /\ proof' = proof
      /\ sessions' = sessions /\ qrs' = qrs /\ mails' = mails /\ Done(c)
      /\ resets' = (resets \ mine) \cup {MarkUsed(r) : r \in mine}
      /\ Update(at[c].u, at[c].id, users[at[c].u])
  BY DEF consumePasswordReset, AccountsInv
<1>2. users' = users /\ doubt \subseteq doubt'
  BY <1>1, TablesTyped DEF Update
<1>3. /\ at' \in [Conns -> AtType] /\ AtInv(c)' /\ at'[c].pc = "idle"
      /\ \A d \in Conns \ {c} : at'[d] = at[d]
  <2>1. fresh' \in Nat /\ fresh <= fresh' /\ AtType' = AtType
    BY <1>1, TablesTyped DEF AtType, Drawn
  <2> QED
    BY <1>1, <2>1, Finishes
<1>4. ASSUME NEW r \in resets
      PROVE  /\ MarkUsed(r) \in ResetType /\ MarkUsed(r).tok = r.tok
             /\ MarkUsed(r).u = r.u /\ MarkUsed(r).id = r.id
             /\ MarkUsed(r).late = r.late /\ MarkUsed(r).raced = r.raced
             /\ MarkUsed(r).used /\ MarkUsed(r).uses = r.uses + 1
  <2>1. r \in ResetType
    BY TablesTyped
  <2>2. PICK m : m = MarkUsed(r)
    OBVIOUS
  <2>3. m = [tok |-> r.tok, u |-> r.u, id |-> r.id, used |-> TRUE, uses |-> r.uses + 1,
             raced |-> r.raced, late |-> r.late]
    BY <2>1, <2>2 DEF MarkUsed, ResetType
  <2>4. m \in ResetType
    BY <2>1, <2>3 DEF ResetType
  <2>5. m.tok = r.tok /\ m.u = r.u /\ m.id = r.id /\ m.uses = r.uses + 1
    BY <2>3
  <2>6. m.used /\ m.late = r.late /\ m.raced = r.raced
    BY <2>3
  <2> QED
    BY <2>2, <2>4, <2>5, <2>6
<1>5. \A r \in resets : Held(r) => Held(MarkUsed(r))'
  BY <1>2, <1>4 DEF Held
<1>6. \A r \in resets : Held(r)
  BY DEF AccountsInv, TokenInv
<1>7. \A r \in resets' : r \in resets \/ Held(r)'
  BY <1>1, <1>5, <1>6
<1>8. ResetInv'
  <2>1. \A r, s \in resets : r.tok = s.tok => r = s
    BY DEF AccountsInv, ResetInv
  <2>2. \A t, w \in resets' : t.tok = w.tok => t = w
    BY <1>1, <1>4, <2>1
  <2>3. \A r \in resets : Resetting(r)' \subseteq Resetting(r) \ {c}
    BY <1>3 DEF Resetting
  <2>4. \A r \in mine : Resetting(MarkUsed(r))' \subseteq Resetting(r) \ {c}
    BY <1>3, <1>4 DEF Resetting
  <2>5. \A r \in mine : ~r.raced => r.uses = 0 /\ Resetting(r) = {c}
    BY <1>1 DEF AccountsInv, ResetInv, Resetting
  <2>6. \A r \in mine : ~MarkUsed(r).raced =>
          MarkUsed(r).uses = 1 /\ MarkUsed(r).used /\ Resetting(MarkUsed(r))' = {}
    BY <1>4, <2>4, <2>5
  <2>7. \A r \in resets \ mine : ~r.raced =>
          /\ \A d, e \in Resetting(r)' : d = e
          /\ r.uses = 0 \/ (r.uses = 1 /\ r.used /\ Resetting(r)' = {})
    BY <2>3 DEF AccountsInv, ResetInv
  <2> QED
    BY <1>1, <2>2, <2>6, <2>7 DEF ResetInv
<1>9. resets' \subseteq ResetType
  BY <1>1, <1>4, TablesTyped
<1> QED
  BY <1>1, <1>2, <1>3, <1>7, <1>8, <1>9, TablesTyped, QuietTableStep

LEMMA createQRLoginInv ==
    ASSUME AccountsInv, NEW c \in Conns, createQRLogin(c)
    PROVE  AccountsInv'
<1>1. PICK q : /\ q = [tok |-> fresh', u |-> None, id |-> 0, sess |-> 0, late |-> FALSE]
               /\ qrs' = qrs \cup {q}
  BY DEF createQRLogin
<1>2. /\ Draw /\ flow' = flow /\ users' = users /\ codeTo' = codeTo
      /\ proof' = proof /\ doubt' = doubt /\ who' = who /\ sock' = sock /\ clients' = clients
      /\ at' = at /\ sessions' = sessions /\ resets' = resets /\ mails' = mails /\ Typed
  BY DEF createQRLogin, connVars, AccountsInv
<1>3. /\ fresh \in Nat /\ fresh' \in Nat /\ fresh <= fresh' /\ fresh' \in Serials'
      /\ fresh' \in Drawn' /\ 0 \in Drawn'
  BY <1>2, DrawOne DEF Drawn
<1>4. q \in QRType' /\ q.u = None
  BY <1>1, <1>3 DEF QRType
<1>5. QRInv(q)'
  BY <1>4 DEF QRInv
<1>6. ResetInv'
  BY <1>2, ResetsStay DEF AccountsInv
<1>7. ConnTyped'
  BY <1>2, <1>3, TypesGrow DEF Typed, ConnTyped
<1>8. /\ sessions' \subseteq SessionType' /\ resets' \subseteq ResetType' /\ qrs' \subseteq QRType'
      /\ mails' \subseteq [u : Names, id : Drawn']
  BY <1>1, <1>2, <1>3, <1>4, TablesTyped, TypesGrow
<1> QED
  BY <1>1, <1>2, <1>3, <1>5, <1>6, <1>7, <1>8, TablesTyped, TableStep

LEMMA approveQRLoginInv ==
    ASSUME AccountsInv, NEW c \in Conns, approveQRLogin(c)
    PROVE  AccountsInv'
<1>0. PICK u \in Names, id \in Drawn : u = at[c].u /\ id = at[c].id /\ id # 0
  BY Subject DEF approveQRLogin
<1>1. /\ at[c].pc = "approve" /\ Typed
      /\ flow' = flow /\ sock' = sock /\ who' = who /\ clients' = clients /\ users' = users
      /\ fresh' = fresh /\ codeTo' = codeTo /\ proof' = proof /\ doubt' = doubt
      /\ sessions' = sessions /\ resets' = resets /\ mails' = mails /\ Done(c)
  BY DEF approveQRLogin, AccountsInv
<1>r. \A r \in qrs' : r \in qrs \/ \E q \in qrs :
         r = [q EXCEPT !.u = u, !.id = id, !.sess = at[c].tok, !.late = users[u].id # id]
  BY <1>0 DEF approveQRLogin
<1>2. /\ Vouched(u, id) /\ at[c].tok \in Drawn
      /\ users[u].id = id => HasSession(at[c].tok, u, id)
  BY <1>0, <1>1, TablesTyped DEF AccountsInv, AtInv, AtType
<1>3. ASSUME NEW q \in qrs, NEW r,
             r = [q EXCEPT !.u = u, !.id = id, !.sess = at[c].tok, !.late = users[u].id # id]
      PROVE  r \in QRType /\ QRInv(r)'
  <2>1. q \in QRType
    BY TablesTyped
  <2>3. r = [tok |-> q.tok, u |-> u, id |-> id, sess |-> at[c].tok, late |-> users[u].id # id]
    BY <1>3, <2>1 DEF QRType
  <2>4. r.late = (users[u].id # id)
    BY <2>3
  <2>5. r \in QRType /\ r.u = u /\ r.id = id /\ r.sess = at[c].tok
    BY <1>2, <2>1, <2>3 DEF QRType
  <2>6. Held(r)' /\ Vouched(r.u, r.id)'
    BY <1>0, <1>1, <1>2, <2>4, <2>5 DEF Held, Vouched
  <2>7. r.late \/ HasSession(r.sess, r.u, r.id)
    BY <1>2, <2>4, <2>5
  <2>8. QRInv(r)'
    BY <1>1, <2>6, <2>7 DEF QRInv, HasSession
  <2> QED
    BY <2>5, <2>8
<1>4. /\ at' \in [Conns -> AtType] /\ AtInv(c)' /\ at'[c].pc = "idle"
      /\ \A d \in Conns \ {c} : at'[d] = at[d]
  <2>1. fresh' \in Nat /\ fresh <= fresh' /\ AtType' = AtType
    BY <1>1, TablesTyped DEF AtType, Drawn
  <2> QED
    BY <1>1, <2>1, Finishes
<1>5. ResetInv'
  BY <1>1, <1>4, ResetsStay DEF AccountsInv
<1>6. qrs' \subseteq QRType
  BY <1>3, <1>r, TablesTyped
<1>7. \A q \in qrs' : q \in qrs \/ QRInv(q)'
  BY <1>3, <1>r
<1> QED
  BY <1>1, <1>4, <1>5, <1>6, <1>7, TablesTyped, QuietTableStep

LEMMA ExpireQRInv == ASSUME AccountsInv, NEW q, ExpireQR(q) PROVE AccountsInv'
<1>1. /\ UNCHANGED <<flow, sock, who, clients, users, fresh, codeTo, proof, doubt>>
      /\ at' = at /\ sessions' = sessions /\ resets' = resets /\ mails' = mails
      /\ qrs' \subseteq qrs
  BY DEF ExpireQR, connVars
<1>2. ResetInv'
  BY <1>1, ResetsStay DEF AccountsInv
<1> QED
  BY <1>1, <1>2, TablesTyped, QuietTableStep

(* A deletion takes every token of the account; what is left is about      *)
(* other names, or is held by handlers that have begun before.             *)
LEMMA deleteAccountInv ==
    ASSUME AccountsInv, NEW c \in Conns, deleteAccount(c)
    PROVE  AccountsInv'
<1>0. PICK u \in Names, id \in Drawn : u = at[c].u /\ id = at[c].id /\ id # 0
  BY Subject DEF deleteAccount
<1>1. /\ flow' = flow /\ sock' = sock /\ who' = who /\ clients' = clients /\ mails' = mails
      /\ fresh' = fresh /\ codeTo' = codeTo /\ proof' = proof /\ doubt' = doubt
      /\ Do(c, "gone", u, id, 0) /\ users' = [users EXCEPT ![u] = NoRow]
      /\ sessions' = {r \in sessions : r.u # u} /\ resets' = {r \in resets : r.u # u}
      /\ qrs' = {r \in qrs : r.u # u} /\ Typed /\ fresh \in Nat
  BY <1>0, TablesTyped DEF deleteAccount, SetRow, Surviving, AccountsInv
<1>2. /\ NoRow \in RowType /\ NoRow.id = 0 /\ ~NoRow.verified /\ ~NoRow.phoneOK
      /\ ~NoRow.totpOn /\ NoRow.code = 0
  BY <1>1 DEF NoRow, RowType, Drawn
<1>3. /\ users' \in [Names -> RowType] /\ users'[u] = NoRow
      /\ \A w \in Names \ {u} : users'[w] = users[w]
  BY <1>1, <1>2, TablesTyped
<1>4. /\ at' \in [Conns -> AtType]
      /\ at'[c] = [pc |-> "gone", u |-> u, id |-> id, x |-> 0, tok |-> 0]
      /\ \A d \in Conns \ {c} : at'[d] = at[d]
  BY <1>0, <1>1, TablesTyped DEF Do, AtType, PCs
<1>5. Typed'
  <2>1. /\ Drawn' = Drawn /\ AtType' = AtType /\ RowType' = RowType /\ Serials' = Serials
        /\ SessionType' = SessionType /\ ResetType' = ResetType /\ QRType' = QRType
    BY <1>1 DEF Drawn, AtType, RowType, SessionType, ResetType, QRType, Serials
  <2>2. ConnTyped'
    BY <1>1, <1>4, <2>1 DEF Typed, ConnTyped
  <2>3. TableTyped'
    BY <1>1, <1>3, <2>1 DEF Typed, TableTyped
  <2> QED
    BY <1>1, <2>1, <2>2, <2>3 DEF Typed
<1>6. ASSUME NEW w \in Names, NEW k \in Drawn, Vouched(w, k) PROVE Vouched(w, k)'
  BY <1>2, <1>3, <1>6 DEF Vouched
<1>h. ASSUME NEW tok, NEW w \in Names \ {u}, NEW k, HasSession(tok, w, k)
      PROVE  HasSession(tok, w, k)'
  BY <1>1, <1>h DEF HasSession
<1>7. \A d \in Conns : WhoInv(d)'
  <2>1. ASSUME NEW d \in Conns, who[d] # Nobody PROVE WhoInv(d)'
    <3>1. PICK w \in Names, k \in Drawn : w = who[d].u /\ k = who[d].id /\ Vouched(w, k)
      BY <1>1, <2>1 DEF AccountsInv, WhoInv, Typed, ConnTyped
    <3>2. Vouched(w, k)'
      BY <1>6, <3>1
    <3> QED
      BY <1>1, <3>1, <3>2 DEF WhoInv, Vouched
  <2> QED
    BY <1>1, <2>1 DEF WhoInv
<1>8. \A d \in Conns : AtInv(d)'
  <2>1. AtInv(c)'
    BY <1>0, <1>4 DEF AtInv
  <2>2. ASSUME NEW d \in Conns \ {c}, at[d].pc # "idle" PROVE AtInv(d)'
    <3>1. PICK w \in Names, k \in Drawn, tok \in Drawn :
             w = at[d].u /\ k = at[d].id /\ k # 0 /\ tok = at[d].tok
      <4>1. at[d].u \in Names /\ at[d].id # 0
        BY <2>2 DEF AccountsInv, AtInv
      <4>2. at[d].id \in Drawn /\ at[d].tok \in Drawn
        BY TablesTyped DEF AtType
      <4> QED
        BY <4>1, <4>2
    <3>2. at'[d] = at[d] /\ AtInv(d)
      BY <1>4 DEF AccountsInv
    <3>3. users'[w].id = k => users'[w] = users[w] /\ w # u
      BY <1>2, <1>3, <3>1
    <3>4. Vouched(w, k) => Vouched(w, k)'
      BY <1>6
    <3>5. at[d].pc = "approve" /\ users'[w].id = k => HasSession(tok, w, k)'
      <4>1. at[d].pc = "approve" /\ users'[w].id = k => w # u /\ HasSession(tok, w, k)
        BY <3>1, <3>2, <3>3 DEF AtInv
      <4> QED
        BY <1>h, <4>1
    <3>6. at[d].pc \in {"issue", "enter", "approve"} => Vouched(w, k)'
      BY <3>1, <3>2, <3>4 DEF AtInv
    <3>7. at[d].pc = "verified" /\ users'[w].id = k => Proved(k)'
      BY <1>1, <3>1, <3>2, <3>3 DEF AtInv, Proved
    <3>8. at[d].pc = "linked" /\ users'[w].id = k =>
             <<k, users'[w].phone>> \in proof' \/ Doubtful(w, {"late", "resent", "relinked"})'
      BY <1>1, <3>1, <3>2, <3>3 DEF AtInv, Doubtful
    <3>9. at[d].pc = "confirmed" => <<k, at[d].x>> \in proof'
      BY <1>1, <3>1, <3>2 DEF AtInv
    <3> QED
      BY <3>1, <3>2, <3>3, <3>5, <3>6, <3>7, <3>8, <3>9 DEF AtInv, Proved, Doubtful, Vouched, HasSession
  <2>3. ASSUME NEW d \in Conns \ {c}, at[d].pc = "idle" PROVE AtInv(d)'
    BY <1>4, <2>3 DEF AtInv
  <2> QED
    BY <2>1, <2>2, <2>3
<1>9. \A w \in Names : RowInv(w)'
  <2>1. RowInv(u)'
    BY <1>2, <1>3 DEF RowInv
  <2>2. ASSUME NEW w \in Names \ {u} PROVE RowInv(w)'
    <3>1. RowInv(w) /\ users'[w] = users[w]
      BY <1>3 DEF AccountsInv
    <3> QED
      BY <1>1, <3>1 DEF RowInv, Proved, Doubtful
  <2> QED
    BY <2>1, <2>2
<1>10. TokenInv'
  <2>1. \A r : r.u \in Names \ {u} /\ Held(r) => Held(r)'
    BY <1>3 DEF Held
  <2>2. \A t \in sessions' : SessionInv(t)'
    BY <1>1, <1>6, <2>1 DEF SessionInv, Typed, TableTyped, SessionType, AccountsInv, TokenInv
  <2>3. \A r \in resets' : Held(r)'
    BY <1>1, <2>1 DEF Typed, TableTyped, ResetType, AccountsInv, TokenInv
  <2>4. \A q \in qrs' : QRInv(q)'
    <3>1. ASSUME NEW q \in qrs', q.u # None PROVE QRInv(q)'
      <4>1. q.u \in Names \ {u} /\ q.id \in Drawn /\ QRInv(q)
        BY <1>1, <3>1 DEF Typed, TableTyped, QRType, AccountsInv, TokenInv
      <4>2. Held(q)' /\ Vouched(q.u, q.id)'
        BY <1>6, <2>1, <3>1, <4>1 DEF QRInv
      <4>3. HasSession(q.sess, q.u, q.id) => HasSession(q.sess, q.u, q.id)'
        BY <1>1, <4>1 DEF HasSession
      <4> QED
        BY <3>1, <4>1, <4>2, <4>3 DEF QRInv
    <3>2. ASSUME NEW q \in qrs', q.u = None PROVE QRInv(q)'
      BY <3>2 DEF QRInv
    <3> QED
      BY <3>1, <3>2
  <2> QED
    BY <1>1, <2>2, <2>3, <2>4 DEF TokenInv, AccountsInv
<1>11. ResetInv'
  <2>1. \A r \in resets : Resetting(r)' \subseteq Resetting(r)
    BY <1>4 DEF Resetting
  <2> QED
    BY <1>1, <2>1 DEF ResetInv, AccountsInv
<1> QED
  BY <1>5, <1>7, <1>8, <1>9, <1>10, <1>11 DEF AccountsInv

------------------------------------------------------------------------------
(* A behaviour about friends or rooms leaves the tables of accounts alone. *)
Untouched ==
    /\ users = [u \in Names |-> NoRow]
    /\ sessions = {} /\ resets = {} /\ qrs = {} /\ mails = {}
    /\ fresh = 0 /\ DOMAIN codeTo = {}

CredentialsInv == IF flow \in AccountFlows THEN AccountsInv ELSE Untouched

LEMMA CredentialsInit == ASSUME SocialInit PROVE CredentialsInv
<1>1. AccountsInit
  BY DEF SocialInit
<1>2. /\ flow \in Flows /\ fresh = 0 /\ MaxFresh[flow] \in Nat
      /\ sessions = {} /\ resets = {} /\ qrs = {} /\ mails = {} /\ DOMAIN codeTo = {}
      /\ users = [u \in Names |-> NoRow] /\ at = [c \in Conns |-> Idle]
      /\ who = [c \in Conns |-> Nobody]
  BY <1>1, AccountsAssumption DEF AccountsInit
<1>3. fresh \in Serials /\ 0 \in Drawn
  BY <1>2 DEF Serials, Drawn
<1>4. Idle \in AtType /\ NoRow \in RowType /\ Nobody \in [u : Names \cup {None}, id : Drawn]
  BY <1>3 DEF Idle, NoRow, Nobody, AtType, RowType, PCs
<1>5. ConnTyped
  BY <1>1, <1>2, <1>4 DEF ConnTyped, AccountsInit
<1>6. TableTyped
  BY <1>2, <1>4 DEF TableTyped
<1>7. \A c \in Conns : WhoInv(c) /\ AtInv(c)
  BY <1>2 DEF WhoInv, AtInv, Idle
<1>8. \A u \in Names : RowInv(u)
  <2>1. NoRow.id = 0 /\ NoRow.code = 0 /\ ~NoRow.verified /\ ~NoRow.phoneOK /\ ~NoRow.totpOn
    BY DEF NoRow
  <2> QED
    BY <1>2, <2>1 DEF RowInv
<1>9. TokenInv /\ ResetInv
  BY <1>2 DEF TokenInv, ResetInv
<1>10. AccountsInv
  BY <1>2, <1>3, <1>5, <1>6, <1>7, <1>8, <1>9 DEF AccountsInv, Typed
<1> QED
  BY <1>2, <1>10 DEF CredentialsInv, Untouched

(* The kind of work never changes.                                         *)
LEMMA FlowFixed ==
    ASSUME SocialNext PROVE flow' = flow
<1>1. ASSUME NEW c \in Conns, LoginStep(c) PROVE flow' = flow
  BY <1>1 DEF LoginStep, Connect, issueSessionToken, Enter, Disconnect, Auth, accountVars
<1>2. ASSUME NEW c \in Conns, Deletion(c) PROVE flow' = flow
  BY <1>2 DEF Deletion, DeleteRequest, deleteAccount, Gone, registerUser, verifyUser, verifyUserWrite
<1>3. ASSUME NEW c \in Conns, CodesStep(c) PROVE flow' = flow
  BY <1>3 DEF CodesStep, Resend, ResendWrite, verifyPhoneLinkWrite, RequestPhoneLink, verifyPhoneLink
<1>4. ASSUME NEW c \in Conns, TotpStep(c) PROVE flow' = flow
  BY <1>4 DEF TotpStep, EnableTotp, ConfirmTotp, enableTOTP, DisableTotp, disableTOTP
<1>5. ASSUME ResetStep PROVE flow' = flow
  BY <1>5 DEF ResetStep, ForgotPassword, createPasswordReset, consumePasswordReset, readPasswordReset
<1>6. ASSUME TokensStep PROVE flow' = flow
  BY <1>6 DEF TokensStep, createQRLogin, approveQRLogin, QRLoginApprove, QRLoginCheck,
              SessionAuth, ExpireQR, revokeSession
<1>7. ASSUME NEW c \in Conns,
             Connect(c) \/ Leave(c) \/ getPendingRequests(c) \/ userConversations(c)
      PROVE  flow' = flow
  BY <1>7 DEF Connect, Leave, Disconnect, Gone, getPendingRequests, userConversations
<1>8. ASSUME NEW c \in Conns, NEW u, SignIn(c, u) \/ removeFriend(c, u) PROVE flow' = flow
  BY <1>8 DEF SignIn, removeFriend
<1>9. ASSUME NEW c \in Conns, FriendStep(c) PROVE flow' = flow
  BY <1>9 DEF FriendStep, FriendRequest, FriendAccept, FriendReject, acceptFriendRequest,
              rejectFriendRequest, removeFriend,
              FriendSignal, sendFriendRequest, NotifyRequest, SignalSend
<1>10. ASSUME NEW c \in Conns, RoomStep(c) PROVE flow' = flow
  BY <1>10 DEF RoomStep, leaveConversation, ConvoCreate, createConversation, ConvoCreated,
               ConvoNotice, deleteSocial
<1> QED
  BY <1>1, <1>2, <1>3, <1>4, <1>5, <1>6, <1>7, <1>8, <1>9, <1>10 DEF SocialNext, AccountsNext

(* Every step of the work on accounts keeps the invariant.                 *)
LEMMA AccountsKept ==
    ASSUME AccountsInv, AccountsNext PROVE AccountsInv'
<1>0. People[flow] \subseteq Names
  BY AccountsAssumption DEF AccountsInv, Typed
<1>1. ASSUME NEW c \in Conns, LoginStep(c) PROVE AccountsInv'
  BY <1>0, <1>1, ConnectInv, issueSessionTokenInv, EnterInv, LeavesInv, AuthInv DEF LoginStep
<1>2. ASSUME NEW c \in Conns, Deletion(c) PROVE AccountsInv'
  BY <1>0, <1>2, DisableTotpInv, deleteAccountInv, LeavesInv, registerUserInv, verifyUserInv,
     verifyUserWriteInv DEF Deletion
<1>3. ASSUME NEW c \in Conns, CodesStep(c) PROVE AccountsInv'
  BY <1>0, <1>3, ResendInv, ResendWriteInv, verifyPhoneLinkWriteInv, RequestPhoneLinkInv,
     verifyPhoneLinkInv DEF CodesStep
<1>4. ASSUME NEW c \in Conns, TotpStep(c) PROVE AccountsInv'
  BY <1>4, EnableTotpInv, ConfirmTotpInv, enableTOTPInv, DisableTotpInv, disableTOTPInv DEF TotpStep
<1>5. ASSUME ResetStep PROVE AccountsInv'
  BY <1>0, <1>5, ForgotPasswordInv, createPasswordResetInv, consumePasswordResetInv,
     readPasswordResetInv DEF ResetStep
<1>6. ASSUME TokensStep PROVE AccountsInv'
  BY <1>6, createQRLoginInv, approveQRLoginInv, QRLoginApproveInv, QRLoginCheckInv,
     SessionAuthInv, ExpireQRInv, revokeSessionInv DEF TokensStep
<1> QED
  BY <1>1, <1>2, <1>3, <1>4, <1>5, <1>6 DEF AccountsNext

LEMMA TablesKept ==
    ASSUME NEW c \in Conns,
           \/ Connect(c) \/ Leave(c) \/ getPendingRequests(c) \/ userConversations(c)
           \/ \E u \in People[flow] : SignIn(c, u) \/ removeFriend(c, u)
           \/ FriendStep(c) \/ RoomStep(c)
    PROVE  UNCHANGED accountVars
<1>1. CASE \/ Connect(c) \/ Leave(c) \/ getPendingRequests(c) \/ userConversations(c)
           \/ \E u \in People[flow] : SignIn(c, u) \/ removeFriend(c, u)
  BY <1>1 DEF Connect, Leave, Disconnect, Gone, getPendingRequests, userConversations, SignIn,
              removeFriend
<1>2. CASE FriendStep(c)
  BY <1>2 DEF FriendStep, FriendRequest, FriendAccept, FriendReject, acceptFriendRequest,
              rejectFriendRequest, removeFriend,
              FriendSignal, sendFriendRequest, NotifyRequest, SignalSend
<1>3. CASE RoomStep(c)
  BY <1>3 DEF RoomStep, leaveConversation, ConvoCreate, createConversation, ConvoCreated,
              ConvoNotice, deleteSocial
<1> QED
  BY <1>1, <1>2, <1>3

LEMMA CredentialsNext ==
    ASSUME CredentialsInv, [SocialNext]_allSocial PROVE CredentialsInv'
<1>1. CASE UNCHANGED allSocial
  <2>1. UNCHANGED <<flow, sock, who, clients, at, accountVars>>
    BY <1>1 DEF allSocial, accVars, connVars
  <2>2. CASE flow \in AccountFlows
    <3>1. AccountsInv /\ ConnTyped'
      BY <2>1, <2>2 DEF CredentialsInv, AccountsInv, Typed, ConnTyped, AtType, Drawn, accountVars
    <3>2. AccountsInv'
      BY <2>1, <3>1, ConnStep
    <3> QED
      BY <2>1, <2>2, <3>2 DEF CredentialsInv
  <2>3. CASE flow \notin AccountFlows
    BY <2>1, <2>3 DEF CredentialsInv, Untouched, accountVars
  <2> QED
    BY <2>2, <2>3
<1>2. CASE SocialNext
  <2>1. flow' = flow
    BY <1>2, FlowFixed
  <2>2. "codes" \in AccountFlows /\ "totp" \in AccountFlows /\ "resets" \in AccountFlows
        /\ "tokens" \in AccountFlows /\ SocialFlows \cap AccountFlows = {}
    BY DEF AccountFlows, SocialFlows
  <2>3. CASE flow \in AccountFlows
    <3>1. AccountsNext
      BY <1>2, <2>2, <2>3 DEF SocialNext
    <3> QED
      BY <2>1, <2>3, <3>1, AccountsKept DEF CredentialsInv
  <2>4. CASE flow \notin AccountFlows
    <3>1. ~AccountsNext
      BY <2>2, <2>4 DEF AccountsNext
    <3>2. UNCHANGED accountVars
      BY <1>2, <3>1, TablesKept DEF SocialNext
    <3> QED
      BY <2>1, <2>4, <3>2 DEF CredentialsInv, Untouched, accountVars
  <2> QED
    BY <2>3, <2>4
<1> QED
  BY <1>1, <1>2

(* The tables of accounts and tokens satisfy their invariant throughout.   *)
THEOREM CredentialsHold == SocialSpec => []CredentialsInv
<1> QED
  BY CredentialsInit, CredentialsNext, PTL DEF SocialSpec

------------------------------------------------------------------------------
(* What the invariant says of a row of users, whichever work it is about.  *)
LEMMA RowMeans ==
    ASSUME CredentialsInv, NEW u \in Names
    PROVE  /\ users[u].verified => Proved(users[u].id)
           /\ users[u].phoneOK => \/ <<users[u].id, users[u].phone>> \in proof
                                  \/ Doubtful(u, {"late", "resent", "relinked"})
           /\ users[u].totpOn => \/ <<users[u].id, users[u].secret>> \in proof
                                 \/ Doubtful(u, {"late"})
<1>1. CASE flow \in AccountFlows
  BY <1>1 DEF CredentialsInv, AccountsInv, RowInv
<1>2. CASE flow \notin AccountFlows
  BY <1>2 DEF CredentialsInv, Untouched, NoRow
<1> QED
  BY <1>1, <1>2

(* verifyUser and verifyPhoneLink compare the code in one statement and    *)
(* write the verification in another: whatever runs in between, a verified *)
(* address or number was shown to be its holder's, with the exceptions     *)
(* that CodesProve names.                                                  *)
THEOREM VerifiedMeansShown == SocialSpec => []CodesProve
<1>1. CredentialsInv => CodesProve
  BY RowMeans DEF CodesProve, Proved, Doubtful
<1> QED
  BY <1>1, CredentialsHold, PTL

(* confirm_totp validates a secret and enableTOTP writes the one it        *)
(* validated: no overlap of enrolments turns the second factor on with a   *)
(* secret nobody has entered a code for.                                   *)
THEOREM SecretsAreConfirmed == SocialSpec => []TotpConfirmed
<1>1. CredentialsInv => TotpConfirmed
  BY RowMeans DEF TotpConfirmed
<1> QED
  BY <1>1, CredentialsHold, PTL

(* consumePasswordReset reads used before the transaction that sets it: a  *)
(* reset token serves once unless two requests held it at the same time.   *)
THEOREM ResetsServeOnce == SocialSpec => []ResetOnce
<1>1. CredentialsInv => ResetOnce
  BY DEF CredentialsInv, Untouched, AccountsInv, ResetInv, ResetOnce
<1> QED
  BY <1>1, CredentialsHold, PTL

(* deleteAccount clears the tables of tokens: none serves a later account  *)
(* of the same name, unless an earlier request wrote it after.             *)
THEOREM TokensHaveHolders == SocialSpec => []HoldersOnly
<1>1. CredentialsInv => HoldersOnly
  BY DEF CredentialsInv, Untouched, AccountsInv, TokenInv, SessionInv, QRInv, Held, HoldersOnly
<1> QED
  BY <1>1, CredentialsHold, PTL

(* approveQRLogin issues the session token before the row takes it: what   *)
(* qr_login_check answers with is a token of the user that approved.       *)
THEOREM ApprovalsHaveSessions == SocialSpec => []ApprovedHasSession
<1>1. CredentialsInv => ApprovedHasSession
  BY DEF CredentialsInv, Untouched, AccountsInv, TokenInv, QRInv, HasSession, ApprovedHasSession
<1> QED
  BY <1>1, CredentialsHold, PTL
================================================================================
