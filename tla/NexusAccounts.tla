---------------------------- MODULE NexusAccounts ----------------------------
(***************************************************************************)
(* Accounts and their credentials: registration and the codes that prove   *)
(* an e-mail address or a telephone number, two-factor secrets, session    *)
(* tokens, password resets, QR logins, and the deletion of an account.     *)
(*                                                                         *)
(* Every statement a handler executes is a step of its own, so requests of *)
(* different connections interleave between the SELECT that checks and the *)
(* UPDATE that relies on it.  Random values (codes, secrets, tokens) are   *)
(* the numbers 1, 2, ... in the order they are drawn; nobody guesses one.  *)
(* Passwords are not represented: whoever registered an account knows its  *)
(* password, and nobody else does.                                         *)
(***************************************************************************)
EXTENDS Naturals, FiniteSets

CONSTANTS
    Names,      \* user names
    Conns,      \* connections
    None,       \* no name, no connection, no number
    Phones,     \* telephone numbers
    Flows,      \* the kinds of work; a behaviour is about one of them
    People,     \* whose accounts each kind of work is about
    MaxQR,      \* how many QR logins are pending at a time
    MaxFresh    \* how many random values are drawn, for each kind of work

ASSUME AccountsAssumption ==
    /\ None \notin Names \cup Conns \cup Phones
    /\ Phones \cap Nat = {}
    /\ People \in [Flows -> SUBSET Names]
    /\ MaxQR \in Nat /\ MaxFresh \in [Flows -> Nat]

VARIABLES
    flow,       \* what clients ask for in this behaviour; fixed at the start
    sock,       \* is the connection open?
    who,        \* the handler's username, with the account it logged in to
    clients,    \* s.Clients
    at,         \* the step each handler is at, and its locals
    users,      \* rows of users
    sessions,   \* rows of session_tokens
    resets,     \* rows of password_resets
    qrs,        \* rows of qr_login_tokens
    mails,      \* reset mails being prepared by their goroutines
    fresh,      \* random values drawn so far
    codeTo,     \* where each code was sent: to an account's e-mail, or a phone
    proof,      \* <<account, what its holder proved to have>>
    doubt       \* <<account, why a verification may not mean what it says>>

accountVars == <<users, sessions, resets, qrs, mails, fresh, codeTo, proof, doubt>>
connVars    == <<sock, who, clients, at>>
accVars     == <<flow, connVars, accountVars>>

(* An account is told from a later one of the same name by its id.         *)
NoRow == [id |-> 0, verified |-> FALSE, code |-> 0, phone |-> None,
          phoneOK |-> FALSE, secret |-> 0, totpOn |-> FALSE]
Nobody == [u |-> None, id |-> 0]
Idle == [pc |-> "idle", u |-> None, id |-> 0, x |-> 0, tok |-> 0]
AccountFlows == {"codes", "totp", "resets", "tokens"}
Serials == 0..MaxFresh[flow]

AccountsTypeOK ==
    /\ flow \in Flows
    /\ sock \in [Conns -> {"new", "open", "closed"}]
    /\ who \in [Conns -> [u : Names \cup {None}, id : Serials]]
    /\ clients \in [Names -> Conns \cup {None}]
    /\ \A c \in Conns : at[c].u \in Names \cup {None} /\ at[c].id \in Serials
    /\ users \in [Names -> [id : Serials, verified : BOOLEAN, code : Serials,
                            phone : Phones \cup {None}, phoneOK : BOOLEAN,
                            secret : Serials, totpOn : BOOLEAN]]
    /\ sessions \subseteq [tok : Serials, u : Names, id : Serials,
                           live : BOOLEAN, late : BOOLEAN]
    /\ resets \subseteq [tok : Serials, u : Names, id : Serials, used : BOOLEAN,
                         uses : Nat, raced : BOOLEAN, late : BOOLEAN]
    /\ qrs \subseteq [tok : Serials, u : Names \cup {None}, id : Serials,
                      sess : Serials, late : BOOLEAN]
    /\ mails \subseteq [u : Names, id : Serials]
    /\ fresh \in Serials
    /\ DOMAIN codeTo \subseteq Serials

AccountsInit ==
    /\ flow \in Flows
    /\ sock = [c \in Conns |-> "new"]
    /\ who = [c \in Conns |-> Nobody]
    /\ clients = [u \in Names |-> None]
    /\ at = [c \in Conns |-> Idle]
    /\ users = [u \in Names |-> NoRow]
    /\ sessions = {} /\ resets = {} /\ qrs = {} /\ mails = {}
    /\ fresh = 0
    /\ codeTo = [k \in {} |-> None] /\ proof = {} /\ doubt = {}
------------------------------------------------------------------------------
(* Idle handlers read the next frame; a closed connection sends no more,   *)
(* so its username no longer matters: a request under way carries its own. *)
Ready(c) == sock[c] = "open" /\ at[c] = Idle
LoggedIn(c) == Ready(c) /\ who[c] # Nobody

Do(c, pc, u, id, x) ==
    at' = [at EXCEPT ![c] = [pc |-> pc, u |-> u, id |-> id, x |-> x, tok |-> 0]]
Done(c) == at' = [at EXCEPT ![c] = Idle]

Draw == fresh < MaxFresh[flow] /\ fresh' = fresh + 1
SendCode(to) == codeTo' = [k \in DOMAIN codeTo \cup {fresh'} |->
                             IF k = fresh' THEN to ELSE codeTo[k]]
SetRow(u, row) == users' = [users EXCEPT ![u] = row]

(* UPDATE users ... WHERE username = u, for a request that was checked for *)
(* account id: there may be another account of that name by now, or none.  *)
Update(u, id, row) ==
    /\ users' = IF users[u] = NoRow THEN users ELSE [users EXCEPT ![u] = row]
    /\ doubt' = IF users[u].id \in {0, id} THEN doubt
                ELSE doubt \cup {<<users[u].id, "late">>}

Connect(c) ==
    /\ sock[c] = "new"
    /\ sock' = [sock EXCEPT ![c] = "open"]
    /\ UNCHANGED <<flow, who, clients, at, accountVars>>

(* ------------------------- registration and codes ---------------------- *)
(* "register": one INSERT, refused by UNIQUE when the name is taken.       *)
registerUser(c, u) ==
    /\ Ready(c) /\ users[u] = NoRow /\ Draw
    /\ SetRow(u, [NoRow EXCEPT !.id = fresh', !.code = fresh'])
    /\ SendCode(fresh')
    /\ UNCHANGED <<flow, connVars, sessions, resets, qrs, mails, proof, doubt>>

(* "verify_email", "verify_phone_link": the stored code is compared ...    *)
AnyCodeMatches(u, k) == users[u] # NoRow  \* variant: no comparison
CodeMatches(u, k) == users[u].code = k

(* What the holder of the code has shown to control.                       *)
Shown(u, k) == proof \cup
    (IF users[u].code = k THEN {<<users[u].id, codeTo[k]>>} ELSE {})

verifyUser(c, u, k) ==
    /\ Ready(c) /\ k \in DOMAIN codeTo /\ CodeMatches(u, k)
    /\ proof' = Shown(u, k)
    /\ Do(c, "verified", u, users[u].id, k)
    /\ UNCHANGED <<flow, sock, who, clients, users, sessions, resets, qrs, mails,
                   fresh, codeTo, doubt>>

(* ... and the verification is recorded.                                   *)
verifyUserWrite(c) ==
    LET u == at[c].u IN
    /\ at[c].pc = "verified"
    /\ Update(u, at[c].id, [users[u] EXCEPT !.verified = TRUE, !.code = 0])
    /\ Done(c)
    /\ UNCHANGED <<flow, sock, who, clients, sessions, resets, qrs, mails, fresh,
                   codeTo, proof>>

(* "resend_verification": the address is read, then a new code stored.     *)
Resend(c, u) ==
    /\ Ready(c) /\ users[u] # NoRow
    /\ Do(c, "resend", u, users[u].id, 0)
    /\ UNCHANGED <<flow, sock, who, clients, accountVars>>

(* A verified account has use for a code only to link a number: one sent   *)
(* to the e-mail address then passes for the number's.                     *)
ResendWrite(c) ==
    LET u == at[c].u IN
    /\ at[c].pc = "resend" /\ Draw
    /\ users' = IF users[u] = NoRow THEN users
                ELSE [users EXCEPT ![u].code = fresh']
    /\ SendCode(at[c].id)
    /\ doubt' = doubt \cup
          (IF users[u].verified THEN {<<users[u].id, "resent">>} ELSE {}) \cup
          (IF users[u].id = at[c].id THEN {} ELSE {<<users[u].id, "late">>})
    /\ Done(c)
    /\ UNCHANGED <<flow, sock, who, clients, sessions, resets, qrs, mails, proof>>

(* "request_phone_link" replaces the number and the code, and leaves       *)
(* phone_verified as it is.                                                *)
RequestPhoneLink(c, n) ==
    LET u == who[c].u IN
    /\ LoggedIn(c) /\ Draw
    /\ users' = IF users[u] = NoRow THEN users
                ELSE [users EXCEPT ![u].code = fresh', ![u].phone = n]
    /\ SendCode(n)
    /\ doubt' = doubt \cup
          (IF users[u].phoneOK \/ \E d \in Conns : at[d].pc = "linked" /\ at[d].u = u
           THEN {<<users[u].id, "relinked">>} ELSE {}) \cup
          (IF users[u].id = who[c].id THEN {} ELSE {<<users[u].id, "late">>})
    /\ UNCHANGED <<flow, connVars, sessions, resets, qrs, mails, proof>>

verifyPhoneLink(c, k) ==
    LET u == who[c].u IN
    /\ LoggedIn(c) /\ k \in DOMAIN codeTo
    /\ \/ CodeMatches(u, k) /\ proof' = Shown(u, k)
          /\ Do(c, "linked", u, who[c].id, k)
       \/ ~CodeMatches(u, k) /\ Do(c, "wipe", u, who[c].id, k) /\ UNCHANGED proof
    /\ UNCHANGED <<flow, sock, who, clients, users, sessions, resets, qrs, mails,
                   fresh, codeTo, doubt>>

(* Right code: the number is verified.  Wrong code: the code is cleared.   *)
verifyPhoneLinkWrite(c) ==
    LET u == at[c].u IN
    /\ at[c].pc \in {"linked", "wipe"}
    /\ Update(u, at[c].id, [users[u] EXCEPT !.code = 0,
                              !.phoneOK = @ \/ at[c].pc = "linked"])
    /\ Done(c)
    /\ UNCHANGED <<flow, sock, who, clients, sessions, resets, qrs, mails, fresh,
                   codeTo, proof>>

(* -------------------------- two-factor secrets ------------------------- *)
(* "enable_totp": a new secret is stashed, and the second factor is off    *)
(* until it is confirmed.                                                  *)
EnableTotp(c) ==
    LET u == who[c].u IN
    /\ LoggedIn(c) /\ Draw
    /\ Update(u, who[c].id, [users[u] EXCEPT !.secret = fresh', !.totpOn = FALSE])
    /\ UNCHANGED <<flow, connVars, sessions, resets, qrs, mails, codeTo, proof>>

(* "confirm_totp": the stored secret is read, and the code of the frame    *)
(* validated against it; the holder computes it from the secret shown.     *)
ConfirmTotp(c) ==
    LET u == who[c].u IN
    /\ LoggedIn(c) /\ users[u].secret # 0 /\ users[u].id = who[c].id
    /\ proof' = proof \cup {<<users[u].id, users[u].secret>>}
    /\ Do(c, "confirmed", u, who[c].id, users[u].secret)
    /\ UNCHANGED <<flow, sock, who, clients, users, sessions, resets, qrs, mails,
                   fresh, codeTo, doubt>>

(* enableTOTP writes the secret it validated, not the one now stored.      *)
enableTOTPFlag(c) ==  \* variant: only the flag is set
    LET u == at[c].u IN
    /\ at[c].pc = "confirmed"
    /\ Update(u, at[c].id, [users[u] EXCEPT !.totpOn = TRUE])
    /\ Done(c)
    /\ UNCHANGED <<flow, sock, who, clients, sessions, resets, qrs, mails, fresh,
                   codeTo, proof>>

enableTOTP(c) ==
    LET u == at[c].u IN
    /\ at[c].pc = "confirmed"
    /\ Update(u, at[c].id, [users[u] EXCEPT !.secret = at[c].x, !.totpOn = TRUE])
    /\ Done(c)
    /\ UNCHANGED <<flow, sock, who, clients, sessions, resets, qrs, mails, fresh,
                   codeTo, proof>>

(* authenticateUser: only a verified account, by who knows its password.   *)
Knows(c) == users[who[c].u].id = who[c].id /\ users[who[c].u].verified

DisableTotp(c) ==
    /\ LoggedIn(c) /\ Knows(c)
    /\ Do(c, "disable", who[c].u, who[c].id, 0)
    /\ UNCHANGED <<flow, sock, who, clients, accountVars>>

NullSecret(row) == [row EXCEPT !.secret = None, !.totpOn = FALSE]  \* variant: NULL for ''
NoSecret(row) == [row EXCEPT !.secret = 0, !.totpOn = FALSE]

disableTOTP(c) ==
    LET u == at[c].u IN
    /\ at[c].pc = "disable"
    /\ Update(u, at[c].id, NoSecret(users[u]))
    /\ Done(c)
    /\ UNCHANGED <<flow, sock, who, clients, sessions, resets, qrs, mails, fresh,
                   codeTo, proof>>

(* -------------------------------- logins ------------------------------- *)
(* "auth": password, ban flag and second factor are checked, a token is    *)
(* issued, and the connection takes the place of the one before it.        *)
Auth(c, u) ==
    /\ Ready(c) /\ users[u].verified
    /\ Do(c, "issue", u, users[u].id, 0)
    /\ UNCHANGED <<flow, sock, who, clients, accountVars>>

NewToken(u, id) == [tok |-> fresh', u |-> u, id |-> id, live |-> TRUE,
                    late |-> users[u].id # id]

issueSessionToken(c) ==
    /\ at[c].pc = "issue" /\ Draw
    /\ sessions' = sessions \cup {NewToken(at[c].u, at[c].id)}
    /\ Do(c, "enter", at[c].u, at[c].id, fresh')
    /\ UNCHANGED <<flow, sock, who, clients, users, resets, qrs, mails, codeTo,
                   proof, doubt>>

(* "session_auth": any unrevoked, unexpired token.                         *)
SessionAuth(c, t) ==
    /\ Ready(c) /\ t.live
    /\ Do(c, "enter", t.u, t.id, t.tok)
    /\ UNCHANGED <<flow, sock, who, clients, accountVars>>

Enter(c) ==
    LET u == at[c].u IN
    /\ at[c].pc = "enter"
    /\ sock' = [d \in Conns |-> IF d = clients[u] THEN "closed" ELSE sock[d]]
    /\ who' = [d \in Conns |-> IF d = c THEN [u |-> u, id |-> at[c].id]
                              ELSE IF d = clients[u] THEN Nobody ELSE who[d]]
    /\ clients' = [clients EXCEPT ![u] = c]
    /\ Done(c)
    /\ UNCHANGED <<flow, accountVars>>

(* "revoke_session", a ban, or thirty days.                                *)
revokeSession(t) ==
    /\ t \in sessions /\ t.live
    /\ sessions' = (sessions \ {t}) \cup {[t EXCEPT !.live = FALSE]}
    /\ UNCHANGED <<flow, connVars, users, resets, qrs, mails, fresh, codeTo,
                   proof, doubt>>

(* The connection is lost; the entry is removed if it is its own.          *)
Disconnect(c) ==
    /\ at[c] = Idle /\ \/ sock[c] = "open"
                       \/ \E u \in Names : clients[u] = c
    /\ sock' = [sock EXCEPT ![c] = "closed"]
    /\ clients' = [u \in Names |-> IF clients[u] = c THEN None ELSE clients[u]]
    /\ who' = [who EXCEPT ![c] = Nobody]
    /\ UNCHANGED <<flow, at, accountVars>>

(* ---------------------------- password resets -------------------------- *)
(* "forgot_password" answers at once; a goroutine finds the account and    *)
(* then inserts the token it mails.                                        *)
ForgotPassword(u) ==
    /\ users[u] # NoRow
    /\ mails' = mails \cup {[u |-> u, id |-> users[u].id]}
    /\ UNCHANGED <<flow, connVars, users, sessions, resets, qrs, fresh, codeTo,
                   proof, doubt>>

createPasswordReset(m) ==
    /\ m \in mails /\ Draw
    /\ mails' = mails \ {m}
    /\ resets' = resets \cup {[tok |-> fresh', u |-> m.u, id |-> m.id, used |-> FALSE,
                               uses |-> 0, raced |-> FALSE,
                               late |-> users[m.u].id # m.id]}
    /\ UNCHANGED <<flow, connVars, users, sessions, qrs, codeTo, proof, doubt>>

Resetting(r) == {c \in Conns : at[c].pc = "reset" /\ at[c].x = r.tok}

(* consumePasswordReset: the row is read, the new password hashed ...      *)
readPasswordReset(c, r) ==
    /\ Ready(c) /\ r \in resets /\ ~r.used
    /\ resets' = (resets \ {r}) \cup {[r EXCEPT !.raced = @ \/ Resetting(r) # {}]}
    /\ Do(c, "reset", r.u, r.id, r.tok)
    /\ UNCHANGED <<flow, sock, who, clients, users, sessions, qrs, mails, fresh,
                   codeTo, proof, doubt>>

(* ... and one transaction sets the password and marks the token.          *)
MarkNothing(r) == [r EXCEPT !.uses = @ + 1]  \* variant: the token stays good
MarkUsed(r) == [r EXCEPT !.used = TRUE, !.uses = @ + 1]

consumePasswordReset(c) ==
    LET u == at[c].u
        mine == {r \in resets : r.tok = at[c].x} IN
    /\ at[c].pc = "reset"
    /\ Update(u, at[c].id, users[u])
    /\ resets' = (resets \ mine) \cup {MarkUsed(r) : r \in mine}
    /\ Done(c)
    /\ UNCHANGED <<flow, sock, who, clients, sessions, qrs, mails, fresh, codeTo,
                   proof>>

(* ------------------------------- QR logins ----------------------------- *)
createQRLogin(c) ==
    /\ Ready(c) /\ Cardinality(qrs) < MaxQR /\ Draw
    /\ qrs' = qrs \cup {[tok |-> fresh', u |-> None, id |-> 0, sess |-> 0,
                         late |-> FALSE]}
    /\ UNCHANGED <<flow, connVars, users, sessions, resets, mails, codeTo, proof,
                   doubt>>

(* approveQRLogin: a session token is issued first, whatever the QR token; *)
(* then the row takes it, unless it is gone, expired or approved already.  *)
ApproveFirst(c, q) ==  \* variant: the row is approved before the token is there
    /\ LoggedIn(c) /\ q \in qrs /\ q.u = None /\ Draw
    /\ qrs' = (qrs \ {q}) \cup {[q EXCEPT !.u = who[c].u, !.id = who[c].id,
                                          !.sess = fresh']}
    /\ Do(c, "issue", who[c].u, who[c].id, q.tok)
    /\ UNCHANGED <<flow, sock, who, clients, users, sessions, resets, mails,
                   codeTo, proof, doubt>>

QRLoginApprove(c, q) ==
    /\ LoggedIn(c) /\ Draw
    /\ sessions' = sessions \cup {NewToken(who[c].u, who[c].id)}
    /\ at' = [at EXCEPT ![c] = [pc |-> "approve", u |-> who[c].u, id |-> who[c].id,
                                x |-> q.tok, tok |-> fresh']]
    /\ UNCHANGED <<flow, sock, who, clients, users, resets, qrs, mails, codeTo,
                   proof, doubt>>

approveQRLogin(c) ==
    LET rows == {q \in qrs : q.tok = at[c].x /\ q.u = None}
        u == at[c].u IN
    /\ at[c].pc = "approve"
    /\ qrs' = (qrs \ rows) \cup
         {[q EXCEPT !.u = u, !.id = at[c].id, !.sess = at[c].tok,
                    !.late = users[u].id # at[c].id] : q \in rows}
    /\ Done(c)
    /\ UNCHANGED <<flow, sock, who, clients, users, sessions, resets, mails, fresh,
                   codeTo, proof, doubt>>

(* "qr_login_check": whoever shows an approved token is logged in; neither *)
(* the session token nor the account is looked at.                         *)
QRLoginCheck(c, q) ==
    /\ Ready(c) /\ q.u # None
    /\ Do(c, "enter", q.u, q.id, q.sess)
    /\ UNCHANGED <<flow, sock, who, clients, accountVars>>

(* Five minutes later the row is no use to anybody.                        *)
ExpireQR(q) ==
    /\ qrs' = qrs \ {q}
    /\ UNCHANGED <<flow, connVars, users, sessions, resets, mails, fresh, codeTo,
                   proof, doubt>>

(* ---------------------------- the end of one --------------------------- *)
DeleteRequest(c) ==
    /\ LoggedIn(c) /\ Knows(c)
    /\ Do(c, "erase", who[c].u, who[c].id, 0)
    /\ UNCHANGED <<flow, sock, who, clients, accountVars>>

(* deleteAccount: one transaction over every table that names the user.    *)
SurvivingAll(rows, u) == rows  \* variant: the tables are forgotten
Surviving(rows, u) == {r \in rows : r.u # u}

deleteAccount(c) ==
    LET u == at[c].u IN
    /\ at[c].pc = "erase"
    /\ SetRow(u, NoRow)
    /\ sessions' = Surviving(sessions, u)
    /\ resets' = Surviving(resets, u)
    /\ qrs' = Surviving(qrs, u)
    /\ Do(c, "gone", u, at[c].id, 0)
    /\ UNCHANGED <<flow, sock, who, clients, mails, fresh, codeTo, proof, doubt>>

(* The connection leaves the registry and closes.                          *)
Gone(c) ==
    LET u == at[c].u IN
    /\ at[c].pc = "gone"
    /\ clients' = [clients EXCEPT ![u] = IF @ = c THEN None ELSE @]
    /\ sock' = [sock EXCEPT ![c] = "closed"]
    /\ who' = [who EXCEPT ![c] = Nobody]
    /\ Done(c)
    /\ UNCHANGED <<flow, accountVars>>
------------------------------------------------------------------------------
LoginStep(c) ==
    \/ Connect(c) \/ issueSessionToken(c) \/ Enter(c) \/ Disconnect(c)
    \/ \E u \in People[flow] : Auth(c, u)

Deletion(c) ==
    \/ DeleteRequest(c) \/ deleteAccount(c) \/ Gone(c)
    \/ \E u \in People[flow] : registerUser(c, u)
    \/ \E u \in People[flow], k \in DOMAIN codeTo : verifyUser(c, u, k)
    \/ verifyUserWrite(c)

CodesStep(c) ==
    \/ \E u \in People[flow] : Resend(c, u)
    \/ ResendWrite(c) \/ verifyPhoneLinkWrite(c)
    \/ \E n \in Phones : RequestPhoneLink(c, n)
    \/ \E k \in DOMAIN codeTo : verifyPhoneLink(c, k)

TotpStep(c) ==
    \/ EnableTotp(c) \/ ConfirmTotp(c) \/ enableTOTP(c)
    \/ DisableTotp(c) \/ disableTOTP(c)

ResetStep ==
    \/ \E u \in People[flow] : ForgotPassword(u)
    \/ \E m \in mails : createPasswordReset(m)
    \/ \E c \in Conns :
          consumePasswordReset(c) \/ \E r \in resets : readPasswordReset(c, r)

TokensStep ==
    \/ \E c \in Conns : createQRLogin(c) \/ approveQRLogin(c)
    \/ \E c \in Conns, q \in qrs : QRLoginApprove(c, q) \/ QRLoginCheck(c, q)
    \/ \E c \in Conns, t \in sessions : SessionAuth(c, t)
    \/ \E q \in qrs : ExpireQR(q)
    \/ \E t \in sessions : revokeSession(t)

AccountsNext ==
    \/ \E c \in Conns :
          \/ flow \in AccountFlows /\ (LoginStep(c) \/ Deletion(c))
          \/ flow = "codes" /\ CodesStep(c)
          \/ flow = "totp" /\ TotpStep(c)
    \/ flow = "resets" /\ ResetStep
    \/ flow = "tokens" /\ TokensStep

AccountsSpec == AccountsInit /\ [][AccountsNext]_accVars
------------------------------------------------------------------------------
(* An e-mail address or a number counts as verified only when its holder   *)
(* has shown a code that was sent there - except where the one shared code *)
(* column gives way: a number changed after or while it was verified, a    *)
(* mailed code taken for a number's, or a request for an earlier account   *)
(* of the same name that completes after that one was deleted.             *)
Doubtful(u, why) == \E w \in why : <<users[u].id, w>> \in doubt

CodesProve ==
    \A u \in Names :
        /\ users[u].verified =>
              \/ <<users[u].id, users[u].id>> \in proof
              \/ Doubtful(u, {"late"})
        /\ users[u].phoneOK =>
              \/ <<users[u].id, users[u].phone>> \in proof
              \/ Doubtful(u, {"late", "resent", "relinked"})

(* The second factor is only ever on with a secret its holder has entered  *)
(* a code for, whatever enrolments overlapped: nobody is locked out by a   *)
(* secret that replaced the confirmed one in between.                      *)
TotpConfirmed ==
    \A u \in Names : users[u].totpOn =>
        <<users[u].id, users[u].secret>> \in proof \/ Doubtful(u, {"late"})

(* A reset link sets one password, unless two requests were under way with *)
(* it at once: used is read long before the transaction that sets it.      *)
ResetOnce == \A r \in resets : r.uses <= 1 \/ r.raced

(* A token of a deleted account never serves a later account of the same   *)
(* name, unless it was written by a handler that had begun before the      *)
(* deletion (no later statement notices).                                  *)
HoldersOnly ==
    \A r \in sessions \cup resets \cup {q \in qrs : q.u # None} :
        r.id = users[r.u].id \/ r.late

(* Whoever polls an approved QR login receives a session token that exists *)
(* and belongs to the user that approved.                                  *)
ApprovedHasSession ==
    \A q \in qrs : q.u # None => q.late \/
        \E t \in sessions : t.tok = q.sess /\ t.u = q.u /\ t.id = q.id
==============================================================================
