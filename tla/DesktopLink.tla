------------------------------ MODULE DesktopLink ------------------------------
(***************************************************************************)
(* The desktop's one connection to the relay (native_client/main.go        *)
(* connect, ConnectToServer, ReadLoop, the auth_result case, the sign-in   *)
(* window, and internal/sentinel).  A sign-in, the reconnector a broken    *)
(* read loop leaves behind and the watchdog's repair all run connect,      *)
(* which replaces the connection and the channel for the answer under      *)
(* ConnMu but looks at the channel, and waits on it, outside it; a read    *)
(* loop looks at the current connection anew for every message, the first  *)
(* included, without the mutex.                                            *)
(* A routine is a goroutine: the sign-in window's, those of the watchdog,  *)
(* and a pool for the read loops and their reconnectors.                   *)
(***************************************************************************)
EXTENDS Integers

CONSTANTS Window,    \* the routine of the sign-in window
          Watchers,  \* bound: watchdog routines, one more for every success
          Loops,     \* bound: read loops and reconnectors at one time
          MaxFaults  \* bound: failed dials, drops, refusals, late answers, QR sign-ins

ASSUME LinkAssumption ==
    /\ Window \in Nat \ {0} /\ Loops \cup Watchers \subseteq Nat \ {0, Window}
    /\ Loops \cap Watchers = {} /\ MaxFaults \in Nat

None == 0
Routines == {Window} \cup Watchers \cup Loops

VARIABLES
    link,      \* the current connection: open, in (the relay let it in),
               \* refused or closed; an earlier one has been closed
    wire,      \* the auth_result on its way over it: none, ok, refused
    authChan,  \* what the channel made with it holds
    ConnMu,    \* the routine that holds the mutex
    window,    \* the sign-in window is open
    qr,        \* its QR dialog: shown; approved (its connection is the current
               \* one), replaced (no longer), both still to be hidden; over
    routine,   \* what a goroutine is at, with what result, in which attempt
    stale,     \* no message for 60 seconds
    faults

connVars == <<link, wire>>
linkVars == <<connVars, authChan, ConnMu, window, qr, routine, stale, faults>>

At(p) == [at |-> p, res |-> "none", second |-> FALSE, late |-> FALSE]
Off(r) == routine[r].at = "off"
Fault == faults < MaxFaults /\ faults' = faults + 1

LinkInit ==
    /\ link = "closed" /\ wire = "none" /\ authChan = "none"
    /\ ConnMu = None /\ window = TRUE /\ qr = "shown"
    /\ routine = [r \in Routines |-> At("off")]
    /\ stale = FALSE /\ faults = 0

(***************************************************************************)
(* connect.                                                                *)
(***************************************************************************)

(* The current connection is closed before the dial.                       *)
Lock(r) ==
    /\ routine[r].at \in {"lock", "asleep"} /\ ConnMu = None
    /\ ConnMu' = r
    /\ routine' = [routine EXCEPT ![r].at = "dial"]
    /\ link' = "closed" /\ wire' = "none"
    /\ qr' = IF qr = "approved" THEN "replaced" ELSE qr
    /\ UNCHANGED <<authChan, window, stale, faults>>

(* The others, once there is a new connection and a new channel.  A loop   *)
(* between two messages that has looked at s.Conn gets an error, one that  *)
(* has not, or that handles a message, will read from the new connection;  *)
(* a caller that has looked at s.authChan waits on with the old channel,   *)
(* and one of those, the heir, finds what it holds.                        *)
Overtaken(k, looked, heir) ==
    CASE routine[k].at = "read" /\ looked -> At("lost")
      [] routine[k].at = "handle" \/ (routine[k].at = "read" /\ ~ looked) ->
            [routine[k] EXCEPT !.late = TRUE]
      [] routine[k].at = "wait" /\ looked ->
            [routine[k] EXCEPT !.at = "waitold", !.res = IF heir THEN authChan ELSE "none"]
      [] OTHER -> routine[k]

(* A new connection, with a caller that waits for its answer (None for a   *)
(* QR sign-in), and its read loop, in any one of the idle routines.  Who   *)
(* has looked at s.Conn or s.authChan, which happens outside the mutex, is *)
(* settled only here, where it matters.                                    *)
Install(caller) ==
    \E l \in Loops, looked \in SUBSET {k \in Routines : routine[k].at \in {"read", "wait"}} :
       LET olds == {k \in looked : routine[k].at = "wait"} IN
       /\ Off(l) /\ \A k \in Loops : Off(k) => l <= k
       /\ wire' = "none" /\ authChan' = "none"
       /\ \E heir \in IF olds = {} THEN {None} ELSE olds :
             routine' = [k \in Routines |->
                IF k = caller THEN [routine[k] EXCEPT !.at = "wait"]
                ELSE IF k = l THEN At("read") ELSE Overtaken(k, k \in looked, k = heir)]

Dial(r) ==
    /\ routine[r].at = "dial"
    /\ Install(r)
    /\ link' = "open"
    /\ ConnMu' = None
    /\ UNCHANGED <<window, qr, stale, faults>>

\* Sentinel.Watch starts a routine more; the older ones are never stopped.
Watch(rs) ==
    LET idle == {w \in Watchers : rs[w].at = "off"} IN
    IF idle = {} THEN rs
    ELSE [rs EXCEPT ![CHOOSE w \in idle : \A v \in idle : w <= v] = At("tick")]

(* What the caller does when connect fails: the window waits for the user, *)
(* a reconnector sleeps and tries again (ten times, here twice), the       *)
(* watchdog tries the password after the token and then ticks on.          *)
Fails(r) ==
    CASE r = Window -> At("off")
      [] r \in Loops -> IF routine[r].second THEN At("off") ELSE [At("asleep") EXCEPT !.second = TRUE]
      [] r \in Watchers -> IF routine[r].second THEN At("tick") ELSE [At("lock") EXCEPT !.second = TRUE]

SucceedsReading(r) ==  \* variant: the reconnector goes back to reading
    CASE r = Window -> At("off") [] r \in Loops -> At("read") [] r \in Watchers -> At("tick")

(* And when it succeeds: the reconnector ends, for connect started a loop. *)
Succeeds(r) == IF r \in Watchers THEN At("tick") ELSE At("off")

\* The result a caller finds on its channel.
Result(r) == IF routine[r].at = "wait" THEN authChan ELSE routine[r].res
Waiting(r) == routine[r].at \in {"wait", "waitold"}

(* An answer, or none in five seconds; the deferred Lock then waits for a  *)
(* dial that is under way.                                                 *)
Receive(r) ==
    /\ Waiting(r) /\ ConnMu = None /\ Result(r) # "none"
    /\ authChan' = IF routine[r].at = "wait" THEN "none" ELSE authChan
    /\ \/ /\ Result(r) = "ok"
          /\ routine' = Watch([routine EXCEPT ![r] = Succeeds(r)])
          /\ stale' = (stale /\ r \notin Watchers)
          /\ window' = (window /\ r # Window)
       \/ /\ Result(r) = "refused"
          /\ routine' = [routine EXCEPT ![r] = Fails(r)]
          /\ UNCHANGED <<stale, window>>
    /\ UNCHANGED <<connVars, ConnMu, qr, faults>>

\* The current connection will bring an answer, or has brought it to its loop.
Coming == \/ link = "open"
          \/ link # "closed" /\ wire # "none"
          \/ \E l \in Loops : routine[l].at = "handle"

Timeout(r) ==
    /\ Waiting(r) /\ ConnMu = None /\ Result(r) = "none"
    /\ Fault \/ ((routine[r].at = "waitold" \/ ~ Coming) /\ UNCHANGED faults)
    /\ routine' = [routine EXCEPT ![r] = Fails(r)]
    /\ UNCHANGED <<connVars, authChan, ConnMu, window, qr, stale>>

\* With no routine left for a loop a dial fails instead: the bound's doing.
Crowded == (\A l \in Loops : ~ Off(l)) /\ UNCHANGED faults

UnreachableLocked(r) ==  \* variant: the early return leaves the mutex locked
    /\ routine[r].at = "dial"
    /\ Fault \/ Crowded
    /\ routine' = [routine EXCEPT ![r] = Fails(r)]
    /\ UNCHANGED <<connVars, authChan, ConnMu, window, qr, stale>>

Unreachable(r) ==
    /\ routine[r].at = "dial"
    /\ Fault \/ Crowded
    /\ ConnMu' = None
    /\ routine' = [routine EXCEPT ![r] = Fails(r)]
    /\ UNCHANGED <<connVars, authChan, window, qr, stale>>

(***************************************************************************)
(* The callers.                                                            *)
(***************************************************************************)

(* Sign In, or the sign-in at start with what the keyring holds, until one *)
(* has succeeded.                                                          *)
SignIn ==
    /\ Off(Window) /\ window
    /\ routine' = [routine EXCEPT ![Window] = At("lock")]
    /\ UNCHANGED <<connVars, authChan, ConnMu, window, qr, stale, faults>>

(* A sign-in approved on another device takes over the dialog's connection *)
(* and, the mutex released, starts a read loop, but no watchdog.  The      *)
(* dialog asks whatever becomes of a sign-in meanwhile.                    *)
QRSignIn ==
    /\ qr = "shown" /\ qr' = "approved"
    /\ ConnMu = None /\ Fault
    /\ Install(None)
    /\ link' = "in"
    /\ UNCHANGED <<ConnMu, window, stale>>

(* Then the dialog is hidden, whose OnClosed closes the dialog's           *)
(* connection, if hiding runs it, and the window is closed.                *)
HideQR ==
    /\ \/ qr = "approved" /\ link' \in {link, "closed"}
       \/ qr = "replaced" /\ UNCHANGED link
    /\ qr' = "over" /\ window' = FALSE
    /\ UNCHANGED <<wire, authChan, ConnMu, routine, stale, faults>>

Tick(w) ==
    /\ routine[w].at = "tick" /\ stale
    /\ routine' = [routine EXCEPT ![w] = At("lock")]
    /\ UNCHANGED <<connVars, authChan, ConnMu, window, qr, stale, faults>>

(***************************************************************************)
(* ReadLoop.                                                               *)
(***************************************************************************)
Read(l) ==
    /\ routine[l].at = "read" /\ wire # "none"
    /\ wire' = "none"
    /\ routine' = [routine EXCEPT ![l].at = "handle", ![l].res = wire]
    /\ UNCHANGED <<link, authChan, ConnMu, window, qr, stale, faults>>

(* HandleIncomingMessage: a heartbeat, and the result goes to whoever      *)
(* waits on the current channel unless it is full (what nobody waits for   *)
(* goes with the channel).  The next read is on whatever connection is     *)
(* current by then.                                                        *)
Handle(l) ==
    /\ routine[l].at = "handle"
    /\ stale' = FALSE
    /\ authChan' = IF authChan = "none" /\ \E r \in Routines : routine[r].at = "wait"
                   THEN routine[l].res ELSE authChan
    /\ routine' = [routine EXCEPT ![l].at = "read", ![l].res = "none"]
    /\ UNCHANGED <<connVars, ConnMu, window, qr, faults>>

(* A read error: the loop ends and a reconnector takes its place.          *)
Broken(l) == routine[l].at = "lost" \/ (routine[l].at = "read" /\ link = "closed")

Lost(l) ==
    /\ Broken(l)
    /\ routine' = [routine EXCEPT ![l] = At("asleep")]
    /\ UNCHANGED <<connVars, authChan, ConnMu, window, qr, stale, faults>>

(***************************************************************************)
(* The relay and the time.                                                 *)
(***************************************************************************)
Answer(res) ==
    /\ link = "open"
    /\ wire' = res
    /\ \/ res = "ok" /\ link' = "in" /\ UNCHANGED faults
       \/ res = "refused" /\ link' = "refused" /\ Fault
    /\ UNCHANGED <<authChan, ConnMu, window, qr, routine, stale>>

Drop ==
    /\ link # "closed"
    /\ Fault
    /\ link' = "closed"
    /\ UNCHANGED <<wire, authChan, ConnMu, window, qr, routine, stale>>

(* A minute without a message: the relay sends none of its own accord, so  *)
(* this happens to a sound connection as well.                             *)
Silence ==
    /\ ~ stale
    /\ stale' = TRUE
    /\ UNCHANGED <<connVars, authChan, ConnMu, window, qr, routine, faults>>

Connects(r) == Lock(r) \/ Dial(r) \/ Unreachable(r) \/ Receive(r) \/ Timeout(r)
Reads(l) == Read(l) \/ Handle(l) \/ Lost(l)

LinkNext ==
    \/ \E r \in Routines : Connects(r)
    \/ SignIn \/ QRSignIn \/ HideQR
    \/ \E w \in Watchers : Tick(w)
    \/ \E l \in Loops : Reads(l)
    \/ \E res \in {"ok", "refused"} : Answer(res)
    \/ Drop \/ Silence

(***************************************************************************)
(* Every goroutine runs on, Go's mutex starves nobody (though nothing      *)
(* hangs on the sign-in window's turn), a reconnector's sleeps end, a      *)
(* watchdog looks every 15 seconds and silence lasts a minute when nothing *)
(* is received.  Of the relay: faults are finite, and of the connections   *)
(* made again and again one lives to see its answer (the sleeps double).   *)
(***************************************************************************)
LinkFairness ==
    /\ \A r \in Watchers \cup Loops : SF_linkVars(Connects(r))
    /\ WF_linkVars(Connects(Window))
    /\ \A w \in Watchers : WF_linkVars(Tick(w))
    /\ \A l \in Loops : WF_linkVars(Reads(l))
    /\ WF_linkVars(Silence)
    /\ SF_linkVars(Answer("ok"))

LinkSpec == LinkInit /\ [][LinkNext]_linkVars /\ LinkFairness

(***************************************************************************)
(* Properties.                                                             *)
(***************************************************************************)

(* No two goroutines read one connection, for gorilla allows one reader:   *)
(* only a loop that was handling a message, or had not begun to read after *)
(* one or after its start, when a connect or a QR sign-in replaced the     *)
(* connection comes to share the newer loop's.                             *)
OneLoop ==
    \A k, l \in Loops :
       k # l /\ routine[k].at = "read" /\ routine[l].at = "read"
       => routine[k].late \/ routine[l].late

(* After a sign-in that the watchdog looks after, however connections are  *)
(* lost, answers are late and the callers of connect meet, the desktop is  *)
(* at the relay again.                                                     *)
Online == link = "in"
Watched == \E w \in Watchers : ~ Off(w)
AlwaysBack == Watched ~> Online
=============================================================================
