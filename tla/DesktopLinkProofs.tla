--------------------------- MODULE DesktopLinkProofs ---------------------------
(***************************************************************************)
(* Proofs about the desktop's connection, for any number of watchdog       *)
(* routines, read loops and faults.                                        *)
(***************************************************************************)
EXTENDS DesktopLink, WellFoundedInduction, TLAPS

(* What a goroutine can be at. *)
Places == {"off", "lock", "dial", "wait", "waitold", "asleep", "tick", "read", "handle", "lost"}

Outcomes == {"none", "ok", "refused"}
Goroutine == [at : Places, res : Outcomes, second : BOOLEAN, late : BOOLEAN]

LinkTyped == /\ routine \in [Routines -> Goroutine]
             /\ authChan \in Outcomes /\ wire \in Outcomes

(* OneLoop is not inductive: a loop that handles a message reads next.  Of *)
(* the loops that read or handle one, all but one have been overtaken.     *)
Active(k) == routine[k].at \in {"read", "handle"}

OneCurrent ==
    \A k, l \in Loops : k # l /\ Active(k) /\ Active(l) => routine[k].late \/ routine[l].late

LinkInv == LinkTyped /\ OneCurrent

(***************************************************************************)
(* Lemmas.                                                                 *)
(***************************************************************************)

(* A set of numbers that is not empty has a smallest one. *)
LEMMA Smallest ==
    ASSUME NEW S \in SUBSET Nat, S # {}
    PROVE  \E x \in S : \A y \in S : x <= y
<1>1. PICK x \in S : \A y \in S : ~ (<<y, x>> \in OpToRel(<, Nat))
  BY NatLessThanWellFounded, WFMin
<1>2. \A y \in S : <<y, x>> \in Nat \X Nat
  OBVIOUS
<1>3. \A y \in S : ~ (y < x)
  BY <1>1, <1>2, Zenon DEF OpToRel
<1> QED
  BY <1>3, SMT

(* A goroutine that has just come to a place. *)
LEMMA AtIs ==
    ASSUME NEW p \in Places
    PROVE  /\ At(p) \in Goroutine /\ At(p).at = p
           /\ [At(p) EXCEPT !.second = TRUE] \in Goroutine
           /\ [At(p) EXCEPT !.second = TRUE].at = p
BY DEF At, Goroutine, Outcomes

(* A sign-in that succeeds starts a routine of the watchdog at most. *)
LEMMA WatchStarts ==
    ASSUME NEW rs \in [Routines -> Goroutine]
    PROVE  /\ Watch(rs) \in [Routines -> Goroutine]
           /\ \A l \in Loops : Watch(rs)[l] = rs[l]
<1> DEFINE idle == {w \in Watchers : rs[w].at = "off"}
           first == CHOOSE w \in idle : \A v \in idle : w <= v
<1>1. CASE idle = {}
  BY <1>1 DEF Watch
<1>2. CASE idle # {}
  <2>1. idle \in SUBSET Nat
    BY LinkAssumption DEF LinkAssumption
  <2>2. \E w \in idle : \A v \in idle : w <= v
    BY <1>2, <2>1, Smallest
  <2>3. first \in Watchers
    BY <2>2
  <2>4. first \notin Loops /\ first \in Routines
    BY <2>3, LinkAssumption DEF LinkAssumption, Routines
  <2>5. Watch(rs) = [rs EXCEPT ![first] = At("tick")]
    BY <1>2 DEF Watch
  <2> HIDE DEF first, idle
  <2> QED
    BY <2>4, <2>5, AtIs DEF Places
<1> QED
  BY <1>1, <1>2

(* The callers go on with no loop that reads. *)
LEMMA CallersEnd ==
    ASSUME LinkTyped, NEW r \in Routines
    PROVE  /\ {Fails(r), Succeeds(r)} \subseteq
                 Goroutine
           /\ Fails(r).at \notin {"read", "handle"}
           /\ Succeeds(r).at \notin {"read", "handle"}
<1>1. r = Window => r \notin Loops
  BY LinkAssumption DEF LinkAssumption
<1>2. CASE r = Window
  BY <1>1, <1>2, AtIs DEF Fails, Succeeds, Places
<1>3. CASE r # Window /\ r \in Loops
  BY <1>3, AtIs DEF Fails, Succeeds, Places
<1>4. CASE r # Window /\ r \notin Loops /\ r \in Watchers
  BY <1>4, AtIs DEF Fails, Succeeds, Places
<1> QED
  BY <1>2, <1>3, <1>4 DEF Routines

(* A step by which no loop begins to read but one, whose predecessors have *)
(* been overtaken, leaves one current loop.                                *)
LEMMA NoneBegins ==
    ASSUME LinkInv, \A k \in Loops : Active(k)' => Active(k) /\ routine'[k].late = routine[k].late
    PROVE  OneCurrent'
BY DEF LinkInv, OneCurrent

(* When the other loops were overtaken, one may begin. *)
LEMMA OneBegins ==
    ASSUME NEW l \in Loops, \A k \in Loops \ {l} : Active(k)' => routine'[k].late
    PROVE  OneCurrent'
BY DEF OneCurrent

(* What an earlier connection's routines are when there is a new one. *)
LEMMA OvertakenIs ==
    ASSUME LinkTyped, NEW k \in Routines, NEW looked \in BOOLEAN, NEW heir \in BOOLEAN
    PROVE  /\ Overtaken(k, looked, heir) \in Goroutine
           /\ Overtaken(k, looked, heir).at \in {"read", "handle"}
              => Overtaken(k, looked, heir).late
<1>1. routine[k] \in Goroutine /\ authChan \in Outcomes
  BY DEF LinkTyped
<1>2. At("lost") \in Goroutine /\ At("lost").at = "lost"
  BY AtIs DEF Places
<1>3. \A x \in Outcomes : [routine[k] EXCEPT !.at = "waitold", !.res = x] \in Goroutine
  BY <1>1 DEF Places, Goroutine
<1>4. [routine[k] EXCEPT !.late = TRUE] \in Goroutine
  BY <1>1 DEF Goroutine
<1> QED
  BY <1>1, <1>2, <1>3, <1>4 DEF Overtaken, Outcomes, Goroutine

(***************************************************************************)
(* The steps.                                                              *)
(***************************************************************************)

(* At the start nobody reads. *)
LEMMA LinkInitInv == LinkInit => LinkInv
<1> SUFFICES ASSUME LinkInit PROVE LinkInv
  OBVIOUS
<1>1. At("off") \in Goroutine /\ At("off").at = "off"
  BY AtIs DEF Places
<1>2. LinkTyped
  BY <1>1 DEF LinkInit, LinkTyped, Outcomes
<1>3. OneCurrent
  BY <1>1 DEF LinkInit, OneCurrent, Active, Routines
<1> QED
  BY <1>2, <1>3 DEF LinkInv

(* Two loops read or handle a message and neither has been overtaken: not  *)
(* after a new connection, which overtakes all the others.                 *)
LEMMA InstallInv ==
    ASSUME LinkInv, NEW caller \in Routines \cup {None}, Install(caller),
           caller \in Routines => routine[caller].at = "dial"
    PROVE  LinkInv'
<1>1. PICK l \in Loops, looked \in SUBSET Routines, heir \in Routines \cup {None} :
         /\ wire' = "none" /\ authChan' = "none"
         /\ routine' = [k \in Routines |->
               IF k = caller THEN [routine[k] EXCEPT !.at = "wait"]
               ELSE IF k = l THEN At("read") ELSE Overtaken(k, k \in looked, k = heir)]
  <2> DEFINE olds(looked) == {k \in looked : routine[k].at = "wait"}
             others(l, looked, heir) == [k \in Routines |->
                IF k = caller THEN [routine[k] EXCEPT !.at = "wait"]
                ELSE IF k = l THEN At("read") ELSE Overtaken(k, k \in looked, k = heir)]
  <2>1. PICK l \in Loops, looked \in SUBSET Routines :
          /\ wire' = "none" /\ authChan' = "none"
          /\ \E heir \in IF olds(looked) = {} THEN {None} ELSE olds(looked) :
                routine' = others(l, looked, heir)
    BY DEF Install
  <2>2. olds(looked) \subseteq Routines
    OBVIOUS
  <2> HIDE DEF olds, others
  <2>3. PICK heir \in Routines \cup {None} : routine' = others(l, looked, heir)
    BY <2>1, <2>2
  <2> QED
    BY <2>1, <2>3 DEF others
<1>2. ASSUME NEW k \in Routines
      PROVE  /\ Overtaken(k, k \in looked, k = heir) \in Goroutine
             /\ Overtaken(k, k \in looked, k = heir).at \in {"read", "handle"}
                => Overtaken(k, k \in looked, k = heir).late
  <2>1. LinkTyped /\ (k \in looked) \in BOOLEAN /\ (k = heir) \in BOOLEAN
    BY DEF LinkInv
  <2> QED
    BY <2>1, OvertakenIs
<1>3. caller \in Routines => /\ [routine[caller] EXCEPT !.at = "wait"] \in Goroutine
                             /\ [routine[caller] EXCEPT !.at = "wait"].at = "wait"
  BY DEF LinkInv, LinkTyped, Goroutine, Places
<1>4. LinkTyped'
  <2>1. At("read") \in Goroutine
    BY AtIs DEF Places
  <2> QED
    BY <1>1, <1>2, <1>3, <2>1 DEF LinkTyped, Outcomes
<1>5. \A k \in Loops \ {l} : Active(k)' => routine'[k].late
  <2> SUFFICES ASSUME NEW k \in Loops \ {l}, Active(k)' PROVE routine'[k].late
    OBVIOUS
  <2>1. k \in Routines
    BY DEF Routines
  <2>2. CASE k = caller
    BY <1>1, <1>3, <2>1, <2>2 DEF Active
  <2>3. CASE k # caller
    BY <1>1, <1>2, <2>1, <2>3 DEF Active
  <2> QED
    BY <2>2, <2>3
<1> QED
  BY <1>4, <1>5, OneBegins DEF LinkInv

LEMMA DialInv ==
    ASSUME LinkInv, NEW r \in Routines, Dial(r)
    PROVE  LinkInv'
BY InstallInv DEF Dial

LEMMA QRSignInInv ==
    ASSUME LinkInv, QRSignIn
    PROVE  LinkInv'
<1>1. Install(None) /\ None \notin Routines
  BY LinkAssumption DEF QRSignIn, LinkAssumption, Routines, None
<1> QED
  BY <1>1, InstallInv

LEMMA ReceiveInv ==
    ASSUME LinkInv, NEW r \in Routines, Receive(r)
    PROVE  LinkInv'
<1>1. authChan' \in Outcomes /\ wire' = wire
  BY DEF Receive, LinkInv, LinkTyped, Outcomes, connVars
<1>2. CASE routine' = Watch([routine EXCEPT ![r] = Succeeds(r)])
  <2> DEFINE rs == [routine EXCEPT ![r] = Succeeds(r)]
  <2>1. rs \in [Routines -> Goroutine]
    BY CallersEnd DEF LinkInv, LinkTyped
  <2>2. LinkTyped'
    BY <1>1, <1>2, <2>1, WatchStarts DEF LinkInv, LinkTyped
  <2>3. \A k \in Loops : routine'[k] = rs[k]
    BY <1>2, <2>1, WatchStarts
  <2>4. \A k \in Loops : Active(k)' => Active(k) /\ routine'[k].late = routine[k].late
    BY <2>3, CallersEnd DEF LinkInv, LinkTyped, Active, Routines
  <2> QED
    BY <2>2, <2>4, NoneBegins DEF LinkInv
<1>3. CASE routine' = [routine EXCEPT ![r] = Fails(r)]
  <2>1. LinkTyped'
    BY <1>1, <1>3, CallersEnd DEF LinkInv, LinkTyped
  <2>2. \A k \in Loops : Active(k)' => Active(k) /\ routine'[k].late = routine[k].late
    BY <1>3, CallersEnd DEF LinkInv, LinkTyped, Active, Routines
  <2> QED
    BY <2>1, <2>2, NoneBegins DEF LinkInv
<1> QED
  BY <1>2, <1>3 DEF Receive

(* A connect that waits for the mutex, takes it or gives up. *)
LEMMA ConnectInv ==
    ASSUME LinkInv, NEW r \in Routines, Lock(r) \/ Timeout(r) \/ Unreachable(r)
    PROVE  LinkInv'
<1>1. PICK g \in Goroutine : routine' = [routine EXCEPT ![r] = g] /\ g.at \notin {"read", "handle"}
  <2>1. CASE Lock(r)
    <3>1. [routine[r] EXCEPT !.at = "dial"] \in Goroutine
      BY DEF LinkInv, LinkTyped, Goroutine, Places
    <3> QED
      BY <2>1, <3>1 DEF Lock, LinkInv, LinkTyped, Goroutine
  <2>2. CASE Timeout(r) \/ Unreachable(r)
    BY <2>2, CallersEnd DEF Timeout, Unreachable, LinkInv
  <2> QED
    BY <2>1, <2>2
<1>2. LinkTyped'
  BY <1>1 DEF LinkInv, LinkTyped, Outcomes, Lock, Timeout, Unreachable, connVars
<1>3. \A k \in Loops : Active(k)' => Active(k) /\ routine'[k].late = routine[k].late
  BY <1>1 DEF LinkInv, LinkTyped, Active, Routines
<1> QED
  BY <1>2, <1>3, NoneBegins DEF LinkInv

LEMMA CallersInv ==
    ASSUME LinkInv, SignIn \/ \E w \in Watchers : Tick(w)
    PROVE  LinkInv'
<1>1. LinkTyped'
  BY AtIs DEF LinkInv, LinkTyped, SignIn, Tick, connVars, Places, Routines
<1>2. \A k \in Loops : Active(k)' => Active(k) /\ routine'[k].late = routine[k].late
  BY LinkAssumption DEF LinkAssumption, LinkInv, LinkTyped, Active, Routines, SignIn, Tick, At
<1> QED
  BY <1>1, <1>2, NoneBegins DEF LinkInv

(* A loop stays overtaken from the message it handles to the next it reads. *)
LEMMA ReadsInv ==
    ASSUME LinkInv, NEW l \in Loops, Reads(l)
    PROVE  LinkInv'
<1>1. LinkTyped'
  <2>1. CASE Read(l) \/ Handle(l)
    BY <2>1 DEF LinkInv, LinkTyped, Read, Handle, connVars, Places, Outcomes, Goroutine, Routines
  <2>2. CASE Lost(l)
    BY <2>2, AtIs DEF LinkInv, LinkTyped, Lost, connVars, Places
  <2> QED
    BY <2>1, <2>2 DEF Reads
<1>2. \A k \in Loops : Active(k)' => Active(k) /\ routine'[k].late = routine[k].late
  <2>1. CASE Read(l) \/ Handle(l)
    BY <2>1 DEF LinkInv, LinkTyped, Goroutine, Active, Routines, Read, Handle
  <2>2. CASE Lost(l)
    BY <2>2 DEF LinkInv, LinkTyped, Active, Routines, Lost, At
  <2> QED
    BY <2>1, <2>2 DEF Reads
<1> QED
  BY <1>1, <1>2, NoneBegins DEF LinkInv

LEMMA RelayInv ==
    ASSUME LinkInv,
           (\E res \in {"ok", "refused"} : Answer(res)) \/ Drop \/ Silence \/ HideQR
           \/ UNCHANGED linkVars
    PROVE  LinkInv'
<1>1. LinkTyped' /\ UNCHANGED routine
  BY DEF LinkInv, LinkTyped, Outcomes, Answer, Drop, Silence, HideQR, linkVars, connVars
<1> QED
  BY <1>1 DEF LinkInv, OneCurrent, Active

(***************************************************************************)
(* Theorems.                                                               *)
(***************************************************************************)

(* Of the loops that read or handle a message one is current, however many *)
(* connects and sign-ins replace the connection meanwhile.                 *)
THEOREM OneLoopIsCurrent == LinkSpec => []LinkInv
<1>1. LinkInv /\ [LinkNext]_linkVars => LinkInv'
  <2> SUFFICES ASSUME LinkInv, [LinkNext]_linkVars PROVE LinkInv'
    OBVIOUS
  <2>1. ASSUME NEW r \in Routines, Connects(r) PROVE LinkInv'
    BY <2>1, DialInv, ReceiveInv, ConnectInv DEF Connects
  <2>2. CASE SignIn \/ QRSignIn \/ \E w \in Watchers : Tick(w)
    BY <2>2, CallersInv, QRSignInInv
  <2>3. CASE \E l \in Loops : Reads(l)
    BY <2>3, ReadsInv
  <2>4. CASE \/ \E res \in {"ok", "refused"} : Answer(res)
             \/ Drop \/ Silence \/ HideQR \/ UNCHANGED linkVars
    BY <2>4, RelayInv
  <2> QED
    BY <2>1, <2>2, <2>3, <2>4 DEF LinkNext
<1> QED
  BY LinkInitInv, <1>1, PTL DEF LinkSpec

(* Two goroutines that read one connection: one of them was handling a     *)
(* message, or had not begun to read after one or after its start, when a  *)
(* connect or a QR sign-in replaced the connection.                        *)
THEOREM ReadersAreOne == LinkSpec => []OneLoop
<1>1. LinkInv => OneLoop
  BY DEF LinkInv, OneCurrent, Active, OneLoop
<1> QED
  BY OneLoopIsCurrent, <1>1, PTL
===============================================================================
