----------------------------- MODULE NexusLimiter -----------------------------
(***************************************************************************)
(* The per-address rate limiter in front of the relay's HTTP endpoints     *)
(* (ipLimiter and rateLimit in nexus_server/main.go).  Every address owns  *)
(* a token bucket of golang.org/x/time/rate; the table of buckets is swept *)
(* of idle addresses, and cut to nine tenths when it is over its size.     *)
(* Time is counted in ticks of the bucket's refill.                        *)
(***************************************************************************)
EXTENDS Integers, FiniteSets

CONSTANTS Addrs,     \* client addresses
          Burst,     \* size of a bucket (30)
          Rate,      \* tokens a bucket gains in a tick (10 per second)
          IdleTTL,   \* ticks after which an unused bucket is swept
          GcEvery,   \* least ticks between two sweeps of a table below its size
          MaxSize,   \* buckets kept before the table is cut
          MaxNow     \* bound on the clock

ASSUME LimiterAssumption ==
    /\ IsFiniteSet(Addrs)
    /\ Burst \in Nat \ {0} /\ Rate \in Nat \ {0} /\ MaxSize \in Nat \ {0}
    /\ IdleTTL \in Nat /\ GcEvery \in Nat /\ MaxNow \in Nat
    \* A bucket refills well before it is swept: 10 minutes against 3 seconds.
    /\ IdleTTL * Rate >= Burst

VARIABLES
    entries,   \* l.entries: [tokens, at |-> last refill, last |-> e.last]
    lastGC,    \* l.lastGC
    clock,     \* time.Now()
    passed,    \* history: requests let through, per address never cut
    cut        \* history: addresses whose bucket the size cut removed

limiterVars == <<entries, lastGC, clock, passed, cut>>

Bucket == [tokens : Nat, at : Nat, last : Int]

LimiterInit ==
    /\ entries = [ip \in {} |-> [tokens |-> 0, at |-> 0, last |-> 0]]
    /\ lastGC = 0
    /\ clock = 0
    /\ passed = [ip \in Addrs |-> 0]
    /\ cut = {}

(* The tokens of a bucket by now: rate.Limiter refills it up to its burst. *)
Refilled(b) ==
    LET t == b.tokens + Rate * (clock - b.at) IN IF t > Burst THEN Burst ELSE t

NewLimiter(now) == [tokens |-> Burst, at |-> clock, last |-> now]

IdleSinceNow(now) == {ip \in DOMAIN entries : entries[ip].last < now}  \* variant: no idleTTL
Idle(now) == {ip \in DOMAIN entries : entries[ip].last < now - IdleTTL}

(* What gcLocked may leave: all of the table when no sweep is due, else    *)
(* the addresses in use, of which the size cut keeps nine tenths of the    *)
(* table's size, whichever the map iteration meets last.                   *)
gcLocked(now) ==
    LET inUse == DOMAIN entries \ Idle(now) IN
    IF now - lastGC < GcEvery /\ Cardinality(DOMAIN entries) < MaxSize
    THEN {DOMAIN entries}
    ELSE IF Cardinality(inUse) > MaxSize
         THEN {keep \in SUBSET inUse : Cardinality(keep) = (MaxSize * 9) \div 10}
         ELSE {inUse}

SweepDue(now) ==
    ~ (now - lastGC < GcEvery /\ Cardinality(DOMAIN entries) < MaxSize)

(* allow: the sweep, the address's bucket, created full when there is      *)
(* none, and one token of it.  The time is read before the lock is taken,  *)
(* so it may be the one of the tick before.                                *)
Take(ip, now, keep) ==
    LET b == IF ip \in keep THEN entries[ip] ELSE NewLimiter(now)
        ok == Refilled(b) >= 1
        used == [tokens |-> IF ok THEN Refilled(b) - 1 ELSE Refilled(b),
                 at |-> clock, last |-> now]
    IN  /\ entries' = [a \in keep \cup {ip} |-> IF a = ip THEN used ELSE entries[a]]
        /\ lastGC' = IF SweepDue(now) THEN now ELSE lastGC
        /\ cut' = cut \cup ((DOMAIN entries \ Idle(now)) \ keep)
        /\ passed' = IF ok /\ ip \notin cut' THEN [passed EXCEPT ![ip] = @ + 1] ELSE passed
        /\ UNCHANGED clock

allow(ip) ==
    \E now \in {clock, clock - 1} :
        \E keep \in gcLocked(now) : Take(ip, now, keep)

Tick == clock < MaxNow /\ clock' = clock + 1 /\ UNCHANGED <<entries, lastGC, passed, cut>>

(* A request, of whatever address clientIP reads from it.                  *)
rateLimit == \E ip \in Addrs : allow(ip)

LimiterNext == Tick \/ rateLimit

LimiterSpec == LimiterInit /\ [][LimiterNext]_limiterVars

(***************************************************************************)
(* Properties.                                                             *)
(***************************************************************************)

(* The table holds buckets of known addresses, never more than its size    *)
(* and the one allow has just added (the size is compared before adding).  *)
LimiterTypeOK ==
    /\ DOMAIN entries \subseteq Addrs
    /\ \A ip \in DOMAIN entries : entries[ip] \in Bucket
    /\ Cardinality(DOMAIN entries) <= MaxSize + 1
    /\ lastGC \in Int
    /\ clock \in Nat
    /\ passed \in [Addrs -> Nat]
    /\ cut \subseteq Addrs

(* An address gets its burst and its rate, and no more, over the whole run *)
(* of the relay: the sweep of idle buckets never gives it a second burst.  *)
(* Only the size cut does, which may take a bucket that is in use.         *)
RateHolds ==
    \A ip \in Addrs \ cut : passed[ip] <= Burst + Rate * clock

(* The bucket's account, which makes RateHolds inductive.                  *)
BucketInv ==
    /\ \A ip \in DOMAIN entries :
          /\ entries[ip].tokens <= Burst
          /\ entries[ip].at <= clock
          /\ entries[ip].at - 1 <= entries[ip].last
    /\ \A ip \in DOMAIN entries \ cut :
          passed[ip] + entries[ip].tokens <= Burst + Rate * entries[ip].at
    /\ \A ip \in (Addrs \ DOMAIN entries) \ cut :
          passed[ip] <= Rate * clock

LimiterInv == LimiterTypeOK /\ BucketInv /\ RateHolds
===============================================================================
