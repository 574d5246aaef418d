--------------------------- MODULE StandaloneProofs ---------------------------
(***************************************************************************)
(* Proofs about the components that share no state: the relay's rate       *)
(* limiter, the update manifest and the updater, the desktop's vault (what *)
(* it keeps of its peers is in DesktopPeersProofs), its audio codec, and   *)
(* the composition of all of them.                                         *)
(***************************************************************************)
EXTENDS MCStandalone, DesktopPeersProofs, FiniteSetTheorems, TLAPS

(***************************************************************************)
(* The limiter, for any number of addresses, any burst, rate and table     *)
(* size: the table of buckets is bounded, and no address that kept its     *)
(* bucket was let through more often than its burst and its rate allow.    *)
(***************************************************************************)

(* A rate times a longer time is at least as much. *)
LEMMA RateMonotone ==
    ASSUME NEW r \in Nat, NEW a \in Int, NEW b \in Int, a <= b
    PROVE  r * a <= r * b /\ r * (b - a) = r * b - r * a /\ r * a \in Int /\ r * b \in Int
<1>1. r * (b - a) = r * b - r * a /\ r * a \in Int /\ r * b \in Int
  BY SMT
<1>2. b - a \in Nat
  BY SMT
<1>3. r * (b - a) \in Nat
  BY <1>2, SMT
<1> QED
  BY <1>1, <1>3, SMT

(* A sweep leaves part of the table, and no more of it than its size.      *)
LEMMA SweepBounds ==
    ASSUME LimiterTypeOK, NEW now \in Int, NEW keep \in gcLocked(now)
    PROVE  /\ keep \subseteq DOMAIN entries
           /\ IsFiniteSet(keep)
           /\ Cardinality(keep) <= MaxSize
<1>1. IsFiniteSet(DOMAIN entries) /\ Cardinality(DOMAIN entries) \in Nat
  BY LimiterAssumption, FS_Subset, FS_CardinalityType DEF LimiterTypeOK
<1>2. keep \subseteq DOMAIN entries
  BY DEF gcLocked, Idle
<1>3. IsFiniteSet(keep) /\ Cardinality(keep) \in Nat /\ MaxSize \in Nat
  BY <1>1, <1>2, FS_Subset, FS_CardinalityType, LimiterAssumption
<1>4. CASE now - lastGC < GcEvery /\ Cardinality(DOMAIN entries) < MaxSize
  <2>1. keep = DOMAIN entries
    BY <1>4 DEF gcLocked
  <2> QED
    BY <1>1, <1>2, <1>3, <1>4, <2>1, SMT
<1>5. CASE ~ (now - lastGC < GcEvery /\ Cardinality(DOMAIN entries) < MaxSize)
  <2> DEFINE inUse == DOMAIN entries \ Idle(now)
  <2>1. CASE Cardinality(inUse) > MaxSize
    <3>1. Cardinality(keep) = (MaxSize * 9) \div 10
      BY <1>5, <2>1 DEF gcLocked
    <3> QED
      BY <1>2, <1>3, <3>1, SMT
  <2>2. CASE ~ (Cardinality(inUse) > MaxSize)
    <3>1. keep = inUse
      BY <1>5, <2>2 DEF gcLocked
    <3> QED
      BY <1>2, <1>3, <2>2, <3>1, SMT
  <2> QED
    BY <2>1, <2>2
<1> QED
  BY <1>4, <1>5

(* What a sweep drops was idle for long enough to be full again.           *)
LEMMA SweptWasFull ==
    ASSUME LimiterInv, NEW now \in {clock, clock - 1},
           NEW ip \in Idle(now), ip \notin cut
    PROVE  passed[ip] <= Rate * clock
<1>1. ip \in DOMAIN entries /\ ip \in Addrs
  BY DEF Idle, LimiterInv, LimiterTypeOK
<1> DEFINE b == entries[ip]
<1>2. b \in Bucket /\ passed[ip] \in Nat /\ clock \in Nat
  BY <1>1 DEF LimiterInv, LimiterTypeOK
<1>3. /\ b.at - 1 <= b.last
      /\ passed[ip] + b.tokens <= Burst + Rate * b.at
  BY <1>1 DEF LimiterInv, BucketInv
<1>4. b.last < now - IdleTTL
  BY DEF Idle
<1>5. /\ Rate \in Nat /\ Burst \in Nat /\ IdleTTL \in Nat
      /\ IdleTTL * Rate >= Burst
  BY LimiterAssumption
<1>6. b.at \in Int /\ b.tokens \in Nat /\ b.last \in Int
  BY <1>2 DEF Bucket
<1>7. b.at <= clock - IdleTTL
  BY <1>2, <1>3, <1>4, <1>5, <1>6, SMT
<1>8. Rate * b.at <= Rate * (clock - IdleTTL)
  BY <1>2, <1>5, <1>6, <1>7, RateMonotone, SMT
<1>9. Rate * (clock - IdleTTL) = Rate * clock - IdleTTL * Rate
  BY <1>2, <1>5, SMT
<1>10. Rate * b.at \in Int /\ Rate * clock \in Int /\ IdleTTL * Rate \in Int
  BY <1>2, <1>5, <1>6, SMT
<1> HIDE DEF b
<1> QED
  BY <1>2, <1>3, <1>5, <1>6, <1>8, <1>9, <1>10, SMT

(***************************************************************************)
(* The invariant.                                                          *)
(***************************************************************************)

(* The empty table of a relay that has just started. *)
LEMMA LimiterInitInv == LimiterInit => LimiterInv
<1> SUFFICES ASSUME LimiterInit PROVE LimiterInv
  OBVIOUS
<1> USE DEF LimiterInit
<1>1. DOMAIN entries = {}
  BY Zenon
<1>2. Cardinality({}) = 0 /\ MaxSize \in Nat /\ Burst \in Nat /\ Rate \in Nat
  BY FS_EmptySet, LimiterAssumption
<1>3. LimiterTypeOK
  BY <1>1, <1>2, SMT DEF LimiterTypeOK
<1>4. Rate * 0 = 0
  BY <1>2, SMT
<1>5. BucketInv
  BY <1>1, <1>2, <1>4, SMT DEF BucketInv
<1>6. RateHolds
  BY <1>2, <1>4, SMT DEF RateHolds
<1> QED
  BY <1>3, <1>5, <1>6 DEF LimiterInv

(* Time passing only adds to what an address may have. *)
LEMMA TickInv == LimiterInv /\ Tick => LimiterInv'
<1> SUFFICES ASSUME LimiterInv, Tick PROVE LimiterInv'
  OBVIOUS
<1>1. /\ clock \in Nat /\ clock' = clock + 1
      /\ entries' = entries /\ lastGC' = lastGC /\ passed' = passed /\ cut' = cut
  BY DEF Tick, LimiterInv, LimiterTypeOK
<1>2. Rate \in Nat /\ Burst \in Nat
  BY LimiterAssumption
<1>3. Rate * clock <= Rate * clock' /\ Rate * clock \in Int /\ Rate * clock' \in Int
  BY <1>1, <1>2, RateMonotone, SMT
<1>4. LimiterTypeOK'
  BY <1>1, SMT DEF LimiterInv, LimiterTypeOK
<1>5. passed \in [Addrs -> Nat] /\ DOMAIN entries \subseteq Addrs
      /\ \A ip \in DOMAIN entries : entries[ip] \in Bucket
  BY DEF LimiterInv, LimiterTypeOK
<1>6. BucketInv'
  <2>1. ASSUME NEW ip \in DOMAIN entries
        PROVE  entries[ip].at <= clock'
    BY <1>1, <1>5, <2>1, SMT DEF LimiterInv, BucketInv, Bucket
  <2>2. ASSUME NEW ip \in (Addrs \ DOMAIN entries) \ cut
        PROVE  passed[ip] <= Rate * clock'
    <3>1. passed[ip] <= Rate * clock /\ passed[ip] \in Nat
      BY <1>5, <2>2 DEF LimiterInv, BucketInv
    <3> QED
      BY <1>3, <3>1, SMT
  <2> QED
    BY <1>1, <2>1, <2>2 DEF LimiterInv, BucketInv
<1>7. RateHolds'
  <2> SUFFICES ASSUME NEW ip \in Addrs \ cut
               PROVE  passed[ip] <= Burst + Rate * clock'
    BY <1>1 DEF RateHolds
  <2>1. passed[ip] <= Burst + Rate * clock /\ passed[ip] \in Nat
    BY <1>5 DEF LimiterInv, RateHolds
  <2> QED
    BY <1>2, <1>3, <2>1, SMT
<1> QED
  BY <1>4, <1>6, <1>7 DEF LimiterInv

(* One request: its sweep, its bucket and its token. *)
LEMMA TakeInv ==
    ASSUME LimiterInv, NEW ip \in Addrs, NEW now \in {clock, clock - 1},
           NEW keep \in gcLocked(now), Take(ip, now, keep)
    PROVE  LimiterInv'
<1> DEFINE b == IF ip \in keep THEN entries[ip] ELSE NewLimiter(now)
           left == Refilled(b)
           used == [tokens |-> IF left >= 1 THEN left - 1 ELSE left,
                    at |-> clock, last |-> now]
<1>1. /\ entries' = [a \in keep \cup {ip} |-> IF a = ip THEN used ELSE entries[a]]
      /\ lastGC' \in {now, lastGC}
      /\ cut' = cut \cup ((DOMAIN entries \ Idle(now)) \ keep)
      /\ passed' = IF left >= 1 /\ ip \notin cut'
                   THEN [passed EXCEPT ![ip] = @ + 1] ELSE passed
      /\ clock' = clock
  BY DEF Take
<1>2. /\ LimiterTypeOK /\ BucketInv /\ RateHolds
      /\ Rate \in Nat /\ Burst \in Nat /\ MaxSize \in Nat
      /\ clock \in Nat /\ now \in Int /\ now <= clock /\ clock - 1 <= now
      /\ passed \in [Addrs -> Nat] /\ cut \subseteq Addrs
      /\ Rate * clock \in Nat
  <2>1. LimiterTypeOK /\ BucketInv /\ RateHolds
    BY DEF LimiterInv
  <2>2. clock \in Nat /\ passed \in [Addrs -> Nat] /\ cut \subseteq Addrs
    BY <2>1 DEF LimiterTypeOK
  <2> QED
    BY <2>1, <2>2, LimiterAssumption, SMT
<1>3. keep \subseteq DOMAIN entries /\ IsFiniteSet(keep) /\ Cardinality(keep) <= MaxSize
  BY <1>2, SweepBounds
<1>4. DOMAIN entries' = keep \cup {ip}
  BY <1>1
<1>5. Cardinality(DOMAIN entries') <= MaxSize + 1
  <2>1. Cardinality(keep) \in Nat
    BY <1>3, FS_CardinalityType
  <2>2. Cardinality(keep \cup {ip}) = IF ip \in keep THEN Cardinality(keep)
                                                     ELSE Cardinality(keep) + 1
    BY <1>3, FS_AddElement
  <2> QED
    BY <1>2, <1>3, <1>4, <2>1, <2>2, SMT
<1>6. /\ b \in Bucket /\ b.tokens \in Nat /\ b.at \in Nat
      /\ b.tokens <= Burst /\ b.at <= clock
  <2>1. CASE ip \in keep
    <3>1. b = entries[ip] /\ ip \in DOMAIN entries
      BY <1>3, <2>1
    <3> QED
      BY <1>2, <3>1 DEF LimiterTypeOK, BucketInv, Bucket
  <2>2. CASE ip \notin keep
    <3>1. b = [tokens |-> Burst, at |-> clock, last |-> now]
      BY <2>2 DEF NewLimiter
    <3> QED
      BY <1>2, <3>1 DEF Bucket
  <2> QED
    BY <2>1, <2>2
<1>7. /\ left \in Nat /\ left <= Burst
      /\ left <= b.tokens + Rate * clock - Rate * b.at
  <2>1. /\ Rate * (clock - b.at) = Rate * clock - Rate * b.at
        /\ Rate * b.at <= Rate * clock
        /\ Rate * b.at \in Int
    BY <1>2, <1>6, RateMonotone, SMT
  <2>2. left = IF b.tokens + Rate * (clock - b.at) > Burst
               THEN Burst ELSE b.tokens + Rate * (clock - b.at)
    BY DEF Refilled
  <2> HIDE DEF left, b
  <2> QED
    BY <1>2, <1>6, <2>1, <2>2, SMT
<1>8. used \in Bucket /\ used.tokens <= Burst /\ used.at = clock /\ used.last = now
      /\ used.tokens = IF left >= 1 THEN left - 1 ELSE left
  <2> HIDE DEF left
  <2> QED
    BY <1>2, <1>7, SMT DEF Bucket
(* What the address had before this request, in the account of its bucket. *)
<1>9. ip \notin cut' => passed[ip] + left <= Burst + Rate * clock
  <2> SUFFICES ASSUME ip \notin cut' PROVE passed[ip] + left <= Burst + Rate * clock
    OBVIOUS
  <2>1. ip \notin cut /\ passed[ip] \in Nat
    BY <1>1, <1>2
  <2>2. CASE ip \in keep
    <3>1. b = entries[ip] /\ ip \in DOMAIN entries \ cut
      BY <1>3, <2>1, <2>2
    <3>2. passed[ip] + b.tokens <= Burst + Rate * b.at
      BY <1>2, <3>1 DEF BucketInv
    <3>3. Rate * b.at \in Int
      BY <1>2, <1>6, SMT
    <3> HIDE DEF left, b
    <3> QED
      BY <1>2, <1>6, <1>7, <2>1, <3>2, <3>3, SMT
  <2>3. CASE ip \notin keep
    <3>1. passed[ip] <= Rate * clock
      <4>1. CASE ip \in DOMAIN entries
        <5>1. ip \in Idle(now)
          BY <1>1, <2>3, <4>1
        <5> QED
          BY <2>1, <5>1, SweptWasFull
      <4>2. CASE ip \notin DOMAIN entries
        BY <1>2, <2>1, <4>2 DEF BucketInv
      <4> QED
        BY <4>1, <4>2
    <3> HIDE DEF left
    <3> QED
      BY <1>2, <1>7, <2>1, <3>1, SMT
  <2> QED
    BY <2>2, <2>3
<1>10. passed' \in [Addrs -> Nat] /\ \A a \in Addrs : a # ip => passed'[a] = passed[a]
  BY <1>1, <1>2
<1>11. ip \notin cut' =>
         /\ passed'[ip] + used.tokens <= Burst + Rate * clock
         /\ passed'[ip] <= Burst + Rate * clock
  <2> SUFFICES ASSUME ip \notin cut'
               PROVE  /\ passed'[ip] + used.tokens <= Burst + Rate * clock
                      /\ passed'[ip] <= Burst + Rate * clock
    OBVIOUS
  <2>1. passed[ip] \in Nat /\ passed'[ip] = IF left >= 1 THEN passed[ip] + 1 ELSE passed[ip]
    BY <1>1, <1>2
  <2> HIDE DEF left, used
  <2> QED
    BY <1>2, <1>7, <1>8, <1>9, <2>1, SMT
<1>12. \A a \in DOMAIN entries' : a # ip =>
         entries'[a] = entries[a] /\ a \in DOMAIN entries
  BY <1>1, <1>3, <1>4
<1>13. entries'[ip] = used
  BY <1>1
<1> HIDE DEF used, left, b
<1>14. LimiterTypeOK'
  <2>1. \A a \in DOMAIN entries' : entries'[a] \in Bucket
    BY <1>2, <1>8, <1>12, <1>13 DEF LimiterTypeOK
  <2>2. DOMAIN entries' \subseteq Addrs /\ cut' \subseteq Addrs
    BY <1>1, <1>2, <1>3, <1>4 DEF LimiterTypeOK
  <2>3. lastGC' \in Int
    BY <1>1, <1>2 DEF LimiterTypeOK
  <2> QED
    BY <1>1, <1>2, <1>5, <1>10, <2>1, <2>2, <2>3 DEF LimiterTypeOK
<1>15. BucketInv'
  <2>1. ASSUME NEW a \in DOMAIN entries'
        PROVE  /\ entries'[a].tokens <= Burst
               /\ entries'[a].at <= clock'
               /\ entries'[a].at - 1 <= entries'[a].last
    <3>1. CASE a = ip
      BY <1>1, <1>2, <1>8, <1>13, <3>1, SMT
    <3>2. CASE a # ip
      BY <1>1, <1>2, <1>12, <3>2 DEF BucketInv
    <3> QED
      BY <3>1, <3>2
  <2>2. ASSUME NEW a \in DOMAIN entries' \ cut'
        PROVE  passed'[a] + entries'[a].tokens <= Burst + Rate * entries'[a].at
    <3>1. CASE a = ip
      BY <1>8, <1>11, <1>13, <3>1
    <3>2. CASE a # ip
      <4>1. a \in DOMAIN entries \ cut /\ a \in Addrs
        BY <1>1, <1>2, <1>12, <3>2 DEF LimiterTypeOK
      <4> QED
        BY <1>2, <1>10, <1>12, <3>2, <4>1 DEF BucketInv
    <3> QED
      BY <3>1, <3>2
  <2>3. ASSUME NEW a \in (Addrs \ DOMAIN entries') \ cut'
        PROVE  passed'[a] <= Rate * clock'
    <3>1. a # ip /\ a \notin keep /\ a \notin cut /\ passed'[a] = passed[a]
      BY <1>1, <1>4, <1>10
    <3>2. CASE a \in DOMAIN entries
      <4>1. a \in Idle(now)
        BY <1>1, <3>1, <3>2
      <4> QED
        BY <1>1, <3>1, <4>1, SweptWasFull
    <3>3. CASE a \notin DOMAIN entries
      BY <1>1, <1>2, <3>1, <3>3 DEF BucketInv
    <3> QED
      BY <3>2, <3>3
  <2> QED
    BY <2>1, <2>2, <2>3 DEF BucketInv
<1>16. RateHolds'
  <2> SUFFICES ASSUME NEW a \in Addrs \ cut'
               PROVE  passed'[a] <= Burst + Rate * clock'
    BY DEF RateHolds
  <2>1. CASE a = ip
    BY <1>1, <1>11, <2>1
  <2>2. CASE a # ip
    BY <1>1, <1>2, <1>10, <2>2 DEF RateHolds
  <2> QED
    BY <2>1, <2>2
<1> QED
  BY <1>14, <1>15, <1>16 DEF LimiterInv

(* Every step of the limiter keeps the invariant. *)
LEMMA LimiterStepInv == LimiterInv /\ [LimiterNext]_limiterVars => LimiterInv'
<1> SUFFICES ASSUME LimiterInv, [LimiterNext]_limiterVars PROVE LimiterInv'
  OBVIOUS
<1>1. CASE Tick
  BY <1>1, TickInv
<1>2. CASE \E ip \in Addrs : allow(ip)
  <2>1. PICK ip \in Addrs : allow(ip)
    BY <1>2
  <2>2. PICK now \in {clock, clock - 1} : \E keep \in gcLocked(now) : Take(ip, now, keep)
    BY <2>1 DEF allow
  <2>3. PICK keep \in gcLocked(now) : Take(ip, now, keep)
    BY <2>2
  <2> QED
    BY <2>3, TakeInv
<1>3. CASE UNCHANGED limiterVars
  BY <1>3 DEF limiterVars, LimiterInv, LimiterTypeOK, BucketInv, RateHolds
<1> QED
  BY <1>1, <1>2, <1>3 DEF LimiterNext, rateLimit

(* The bucket account is kept for every set of addresses and all limits.   *)
THEOREM LimiterInvariant == LimiterSpec => []LimiterInv
<1>1. LimiterInit => LimiterInv
  BY LimiterInitInv
<1>2. LimiterInv /\ [LimiterNext]_limiterVars => LimiterInv'
  BY LimiterStepInv
<1> QED
  BY <1>1, <1>2, PTL DEF LimiterSpec

(* No address whose bucket the size cut spared is let through more than    *)
(* its burst and its rate, however often idle buckets are swept.           *)
THEOREM RateHoldsAlways == LimiterSpec => []RateHolds
<1>1. LimiterInv => RateHolds
  BY DEF LimiterInv
<1> QED
  BY <1>1, LimiterInvariant, PTL

(* The table never holds more than its size and one bucket.                *)
THEOREM TableBounded == LimiterSpec => []LimiterTypeOK
<1>1. LimiterInv => LimiterTypeOK
  BY DEF LimiterInv
<1> QED
  BY <1>1, LimiterInvariant, PTL

(***************************************************************************)
(* The update manifest and the updater, for any releases, checks, files    *)
(* and sizes of a binary.  A relay goes back to an older release only by   *)
(* an overtaken store, for what a request fetches after the last store is  *)
(* not older than what is served.  The installed binary is whole, for a    *)
(* file that was renamed is not written to again: it is not <asset>.part,  *)
(* which the one download that is under way writes to.                     *)
(***************************************************************************)
Manifest == [rel : Releases \cup {NoRelease}, source : {"none", "env", "github"}, sum : BOOLEAN]

CheckSteps == {"idle", "answered", "refreshing", "storing", "asked", "accepted", "loading",
               "swapping", "copying"}
Check == [at : CheckSteps, m : Manifest, pos : 0 .. Chunks, good : BOOLEAN,
          ino : Inodes \cup {NoFile}, late : BOOLEAN]

Offered(m) == m.source = "github" => m.rel <= release

(* What is stored or about to be is published, and not older than what is  *)
(* served unless something was stored meanwhile.                           *)
NotOlder ==
    /\ Offered(manifest)
    /\ \A c \in Checks : check[c].at = "storing" =>
          /\ Offered(check[c].m)
          /\ check[c].m.source = "github" /\ manifest.source = "github" /\ ~ check[c].late
             => check[c].m.rel >= manifest.rel

UpdatesTyped == UpdatesTypeOK /\ check \in [Checks -> Check]

(* Without an overlap: one download, which writes <asset>.part, never the  *)
(* staged file, and has hashed what it has written; and one copy, of a     *)
(* whole file that nobody writes to.                                       *)
OneAt(at) == \A c, d \in Checks : check[c].at = at /\ check[d].at = at => c = d
Verifiable ==
    \A c \in Checks :
       /\ check[c].at \in {"asked", "accepted", "loading"} => check[c].m.rel \in Releases
       /\ check[c].at = "copying" => check[c].ino \in Inodes
LoadsPart ==
    \A c \in Checks : check[c].at = "loading" =>
       /\ part = check[c].ino /\ part # NoFile
       /\ check[c].good => \A b \in 1 .. check[c].pos : file[part][b] = check[c].m.rel
StagedWhole == final # NoFile => final # part /\ Whole(file[final])
CopiesWhole ==
    \A c \in Checks : check[c].at = "copying" =>
       /\ check[c].ino # part /\ Whole(file[check[c].ino])
       /\ \A b \in 1 .. check[c].pos : exe[b] = file[check[c].ino][b]
ExeWhole == partial \/ Whole(exe) \/ \E c \in Checks : check[c].at = "copying"

FilesSound ==
    OneAt("loading") /\ OneAt("copying") /\ LoadsPart /\ StagedWhole /\ CopiesWhole /\ ExeWhole
DiskSound == Verifiable /\ (~ overlap => FilesSound)

UpdatesInv == UpdatesTyped /\ NotOlder /\ DiskSound

(* Releases are positive numbers. *)
LEMMA ReleasesAreNumbers ==
    Releases \subseteq Nat \ {0} /\ NoRelease \notin Releases /\ NoRelease = 0
<1>1. Cardinality(Releases) \in Nat
  BY UpdatesAssumption, FS_CardinalityType DEF UpdatesAssumption
<1> QED
  BY <1>1, UpdatesAssumption, SMT DEF UpdatesAssumption, NoRelease

(* So a manifest names a number. *)
LEMMA ManifestRel == \A m \in Manifest : m.rel \in Nat
<1>1. \A m \in Manifest : m.rel \in Releases \cup {NoRelease}
  BY DEF Manifest
<1>2. Releases \cup {NoRelease} \subseteq Nat
  BY ReleasesAreNumbers
<1> QED
  BY <1>1, <1>2

LEMMA UpdatesInitInv == UpdatesInit => UpdatesInv
<1> SUFFICES ASSUME UpdatesInit PROVE UpdatesInv
  OBVIOUS
<1>1. EnvManifest \in Manifest /\ 1 \in Releases /\ Chunks \in Nat
  BY UpdatesAssumption DEF UpdatesAssumption, EnvManifest, Manifest
<1>2. Asleep \in Check /\ Asleep.at = "idle"
  BY <1>1 DEF Asleep, Check, CheckSteps
<1>3. UpdatesTyped
  BY <1>1, <1>2 DEF UpdatesInit, UpdatesTyped, UpdatesTypeOK, Blank
<1>4. NotOlder
  BY <1>2 DEF UpdatesInit, NotOlder, Offered
<1>5. DiskSound
  BY <1>1, <1>2 DEF UpdatesInit, DiskSound, FilesSound, Verifiable, OneAt, LoadsPart, StagedWhole,
     CopiesWhole, ExeWhole, Whole
<1> QED
  BY <1>3, <1>4, <1>5 DEF UpdatesInv

(* What no step can spoil that touches no file, and begins or ends no      *)
(* download and no copy.                                                   *)
LEMMA DiskStays ==
    ASSUME DiskSound, UNCHANGED <<diskVars, pastVars>>,
           \A c \in Checks :
              \/ /\ check'[c].at = check[c].at /\ check'[c].m = check[c].m
                 /\ check'[c].pos = check[c].pos /\ check'[c].good = check[c].good
                 /\ check'[c].ino = check[c].ino
              \/ /\ check[c].at # "copying" /\ check'[c].at \notin {"loading", "copying"}
                 /\ check'[c].at \in {"asked", "accepted"} => check'[c].m.rel \in Releases
    PROVE  DiskSound'
<1>1. Verifiable'
  BY DEF DiskSound, Verifiable
<1>2. ASSUME ~ overlap PROVE FilesSound'
  <2>1. FilesSound /\ \A c \in Checks : check'[c].at \in {"loading", "copying"} =>
           /\ check'[c].at = check[c].at /\ check'[c].m = check[c].m
           /\ check'[c].pos = check[c].pos /\ check'[c].good = check[c].good
           /\ check'[c].ino = check[c].ino
    BY <1>2 DEF DiskSound
  <2>2. OneAt("loading")' /\ OneAt("copying")'
    BY <2>1 DEF FilesSound, OneAt
  <2>3. LoadsPart' /\ StagedWhole' /\ CopiesWhole'
    BY <2>1 DEF FilesSound, diskVars, LoadsPart, StagedWhole, CopiesWhole, Whole
  <2>4. ExeWhole'
    BY <2>1 DEF FilesSound, diskVars, pastVars, ExeWhole, Whole
  <2> QED
    BY <2>2, <2>3, <2>4 DEF FilesSound
<1> QED
  BY <1>1, <1>2 DEF pastVars, DiskSound

(* The steps that change a check's place and no file. *)
LEMMA ServingInv ==
    ASSUME UpdatesInv,
           \/ Publish \/ Expire
           \/ \E c \in Checks : \/ ReadManifest(c) \/ Refresh(c) \/ Store(c)
                                \/ CheckForUpdates(c) \/ Answer(c)
    PROVE  UpdatesInv'
<1> USE ReleasesAreNumbers DEF UpdatesInv, UpdatesTyped
<1>1. CASE Publish
  <2>1. UpdatesTyped'
    BY <1>1 DEF Publish, relayVars, diskVars, pastVars, UpdatesTypeOK
  <2>2. NotOlder'
    <3>1. \A m \in Manifest : Offered(m) => Offered(m)'
      <4>1. \A m \in Manifest : m.rel \in Nat
        BY ManifestRel
      <4>2. release \in Nat /\ release' = release + 1
        BY <1>1 DEF Publish, UpdatesTypeOK
      <4> QED
        BY <4>1, <4>2 DEF Offered
    <3>2. manifest \in Manifest /\ \A c \in Checks : check[c].m \in Manifest
      BY DEF UpdatesTypeOK, Manifest, Check
    <3> QED
      BY <1>1, <3>1, <3>2 DEF Publish, relayVars, NotOlder
  <2>3. DiskSound'
    BY <1>1, DiskStays DEF Publish
  <2> QED
    BY <2>1, <2>2, <2>3
<1>2. CASE Expire
  <2>1. UpdatesTyped'
    BY <1>2 DEF Expire, diskVars, pastVars, UpdatesTypeOK
  <2>2. NotOlder'
    BY <1>2 DEF Expire, NotOlder, Offered
  <2>3. DiskSound'
    BY <1>2, DiskStays DEF Expire
  <2> QED
    BY <2>1, <2>2, <2>3
<1>3. ASSUME NEW c \in Checks, ReadManifest(c) PROVE UpdatesInv'
  <2>1. UpdatesTyped'
    <3>1. PICK at \in CheckSteps : check' = [check EXCEPT ![c].at = at, ![c].m = manifest]
      BY <1>3 DEF ReadManifest, CheckSteps
    <3>2. manifest \in Manifest
      BY DEF UpdatesTypeOK, Manifest
    <3>3. [check[c] EXCEPT !.at = at, !.m = manifest] \in Check
      BY <3>2 DEF Check
    <3>4. check' \in [Checks -> Check]
      BY <3>1, <3>3
    <3> QED
      BY <1>3, <3>4 DEF ReadManifest, relayVars, diskVars, pastVars, UpdatesTypeOK
  <2>2. NotOlder'
    BY <1>3 DEF ReadManifest, relayVars, NotOlder, Offered
  <2>3. DiskSound'
    <3>1. check[c].at = "idle" /\ check'[c].at \in {"answered", "refreshing"}
      BY <1>3 DEF ReadManifest
    <3> QED
      BY <1>3, <3>1, DiskStays DEF ReadManifest
  <2> QED
    BY <2>1, <2>2, <2>3
<1>4. ASSUME NEW c \in Checks, Refresh(c) PROVE UpdatesInv'
  <2>1. PICK m \in {EnvManifest} \cup
               {[rel |-> release, source |-> "github", sum |-> x] : x \in BOOLEAN} :
           check' = [check EXCEPT ![c].at = "storing", ![c].m = m]
    BY <1>4 DEF Refresh, fetchChecksums
  <2>2. m \in Manifest /\ (m.source = "github" => m.rel = release)
    <3>1. EnvManifest \in Manifest /\ EnvManifest.source # "github"
      BY UpdatesAssumption DEF UpdatesAssumption, Manifest, EnvManifest
    <3>2. \A x \in BOOLEAN : [rel |-> release, source |-> "github", sum |-> x] \in Manifest
      BY DEF UpdatesTypeOK, Manifest
    <3> QED
      BY <3>1, <3>2, <2>1
  <2>3. UNCHANGED <<release, relayVars, diskVars, running, pastVars>> /\ check[c].at = "refreshing"
    BY <1>4 DEF Refresh
  <2>4. UpdatesTyped'
    <3>1. [check[c] EXCEPT !.at = "storing", !.m = m] \in Check
      BY <2>2 DEF Check, CheckSteps
    <3>2. check' \in [Checks -> Check]
      BY <2>1, <3>1
    <3> QED
      BY <2>3, <3>2 DEF relayVars, diskVars, pastVars, UpdatesTypeOK
  <2>5. NotOlder'
    BY <2>1, <2>2, <2>3 DEF relayVars, NotOlder, Offered, UpdatesTypeOK, Check
  <2>6. DiskSound'
    BY <2>1, <2>3, DiskStays
  <2> QED
    BY <2>4, <2>5, <2>6
<1>5. ASSUME NEW c \in Checks, Store(c) PROVE UpdatesInv'
  <2>1. /\ UNCHANGED <<release, diskVars, running, pastVars>> /\ check[c].at = "storing"
        /\ manifest' = check[c].m /\ fresh' = TRUE
        /\ check' = [d \in Checks |->
                       IF d = c THEN [check[c] EXCEPT !.at = "answered", !.late = FALSE]
                       ELSE [check[d] EXCEPT !.late = @ \/ check[d].at \in {"refreshing", "storing"}]]
    BY <1>5 DEF Store
  <2>2. [check[c] EXCEPT !.at = "answered", !.late = FALSE] \in Check
    BY DEF Check, CheckSteps
  <2>3. \A d \in Checks : [check[d] EXCEPT !.late = @ \/ check[d].at \in {"refreshing", "storing"}] \in Check
    BY DEF Check
  <2>4. \A d \in Checks : /\ check'[d].m = check[d].m /\ check'[d].good = check[d].good
                          /\ check'[d].pos = check[d].pos /\ check'[d].ino = check[d].ino
                          /\ d # c => check'[d].at = check[d].at
                          /\ d # c /\ check[d].at = "storing" => check'[d].late
                          /\ d = c => check'[d].at = "answered"
    BY <2>1 DEF Check
  <2>5. UpdatesTyped'
    <3>1. check' \in [Checks -> Check]
      BY <2>1, <2>2, <2>3
    <3>2. manifest' \in Manifest
      BY <2>1 DEF Check
    <3> QED
      BY <2>1, <3>1, <3>2 DEF diskVars, pastVars, UpdatesTypeOK, Manifest
  <2>6. NotOlder'
    BY <2>1, <2>4 DEF NotOlder, Offered
  <2>7. DiskSound'
    BY <2>1, <2>4, DiskStays
  <2> QED
    BY <2>5, <2>6, <2>7
<1>6. ASSUME NEW c \in Checks, CheckForUpdates(c) PROVE UpdatesInv'
  <2>1. UNCHANGED <<release, relayVars, diskVars, running, pastVars>> /\ check[c].at = "answered"
    BY <1>6 DEF CheckForUpdates
  <2>2. PICK g \in Check : /\ check' = [check EXCEPT ![c] = g]
                           /\ g.at \in {"asked", "idle"} /\ (g.at = "asked" => g.m.rel \in Releases)
    <3>1. CASE Ends(c)
      <4>1. Asleep \in Check /\ Asleep.at = "idle"
        BY UpdatesAssumption DEF UpdatesAssumption, Asleep, Check, CheckSteps, EnvManifest, Manifest
      <4> QED
        BY <3>1, <4>1 DEF Ends
    <3>2. CASE PlatformAssetFor(check[c].m) /\ Goes(c, "asked")
      <4>1. [check[c] EXCEPT !.at = "asked"] \in Check /\ check[c].m.rel \in Releases
        BY <3>2 DEF Check, CheckSteps, Manifest, PlatformAssetFor
      <4> QED
        BY <3>2, <4>1 DEF Goes, Check
    <3> QED
      BY <1>6, <3>1, <3>2 DEF CheckForUpdates
  <2>3. UpdatesTyped'
    BY <2>1, <2>2 DEF relayVars, diskVars, pastVars, UpdatesTypeOK
  <2>4. NotOlder'
    BY <2>1, <2>2 DEF relayVars, NotOlder, Offered
  <2>5. DiskSound'
    BY <2>1, <2>2, DiskStays
  <2> QED
    BY <2>3, <2>4, <2>5
<1>7. ASSUME NEW c \in Checks, Answer(c) PROVE UpdatesInv'
  <2>1. UNCHANGED <<release, relayVars, diskVars, running, pastVars>> /\ check[c].at = "asked"
    BY <1>7 DEF Answer
  <2>2. PICK g \in Check : /\ check' = [check EXCEPT ![c] = g] /\ g.at \in {"accepted", "idle"}
                           /\ g.at = "accepted" => g.m = check[c].m
    <3>1. Asleep \in Check /\ Asleep.at = "idle"
      BY UpdatesAssumption DEF UpdatesAssumption, Asleep, Check, CheckSteps, EnvManifest, Manifest
    <3>2. [check[c] EXCEPT !.at = "accepted"] \in Check
      BY DEF Check, CheckSteps
    <3> QED
      BY <1>7, <3>1, <3>2 DEF Answer, Goes, Ends, Check
  <2>3. UpdatesTyped'
    BY <2>1, <2>2 DEF relayVars, diskVars, UpdatesTypeOK, pastVars
  <2>4. NotOlder'
    BY <2>1, <2>2 DEF relayVars, NotOlder, Offered
  <2>5. check[c].m.rel \in Releases
    BY <2>1 DEF DiskSound, Verifiable
  <2>6. DiskSound'
    BY <2>1, <2>2, <2>5, DiskStays
  <2> QED
    BY <2>3, <2>4, <2>6
<1> QED
  BY <1>1, <1>2, <1>3, <1>4, <1>5, <1>6, <1>7

(* What the steps of a download, of a script and of the desktop have in    *)
(* common: the relay stays as it is, and the checks keep their type.       *)
LEMMA NotOlderStays ==
    ASSUME NotOlder, UNCHANGED <<release, relayVars>>,
           \A c \in Checks : check'[c].at = "storing" => check'[c] = check[c]
    PROVE  NotOlder'
BY DEF relayVars, NotOlder, Offered

(* A check that is not under way. *)
LEMMA AsleepIs == Asleep \in Check /\ Asleep.at = "idle"
BY UpdatesAssumption DEF UpdatesAssumption, Asleep, Check, CheckSteps, EnvManifest, Manifest

(* A download that begins empties <asset>.part or makes it, in no file     *)
(* that is in use.                                                         *)
LEMMA CreatePartInv ==
    ASSUME UpdatesInv, NEW c \in Checks, CreatePart(c)
    PROVE  UpdatesInv'
<1> USE DEF UpdatesInv, UpdatesTyped
<1>0. UNCHANGED <<release, relayVars, final, exe, running, partial>> /\ check[c].at = "accepted"
  BY DEF CreatePart
<1>1. CASE Ends(c) /\ UNCHANGED <<part, file, overlap>>
  <2>1. UpdatesTyped'
    BY <1>0, <1>1, AsleepIs DEF Ends, relayVars, UpdatesTypeOK
  <2>2. \A d \in Checks : check'[d] = check[d] \/ (check[d].at = "accepted" /\ check'[d].at = "idle")
    BY <1>0, <1>1, AsleepIs DEF Ends
  <2>3. NotOlder'
    BY <1>0, <2>2, NotOlderStays
  <2>4. DiskSound'
    BY <1>0, <1>1, <2>2, DiskStays DEF diskVars, pastVars
  <2> QED
    BY <2>1, <2>3, <2>4
<1>2. ASSUME NEW i \in IF part # NoFile THEN {part} ELSE Inodes \ InUse,
             part' = i, file' = [file EXCEPT ![i] = Blank],
             check' = [check EXCEPT ![c].at = "loading", ![c].ino = i, ![c].pos = 0, ![c].good = TRUE],
             overlap' = (overlap \/ \E d \in Checks : check[d].at = "loading")
      PROVE  UpdatesInv'
  <2>1. i \in Inodes /\ i # NoFile
    BY UpdatesAssumption DEF UpdatesAssumption, UpdatesTypeOK
  <2>2. [check[c] EXCEPT !.at = "loading", !.ino = i, !.pos = 0, !.good = TRUE] \in Check
    <3>1. check[c] \in Check /\ 0 \in 0 .. Chunks /\ i \in Inodes \cup {NoFile}
      BY <2>1, UpdatesAssumption DEF UpdatesAssumption
    <3> HIDE DEF UpdatesInv, UpdatesTyped
    <3> QED
      BY <3>1 DEF Check, CheckSteps
  <2>3. /\ check' \in [Checks -> Check]
        /\ \A d \in Checks : d # c => check'[d] = check[d]
        /\ check'[c].at = "loading" /\ check'[c].ino = i /\ check'[c].pos = 0
        /\ check'[c].m = check[c].m
    BY <1>2, <2>2 DEF Check
  <2>4. UpdatesTyped'
    <3>1. file' \in [Inodes -> [Blocks -> Releases \cup {0}]]
      BY <1>2 DEF UpdatesTypeOK, Blank
    <3>2. overlap' \in BOOLEAN
      BY <1>2 DEF UpdatesTypeOK
    <3> QED
      BY <1>0, <1>2, <2>1, <2>3, <3>1, <3>2 DEF relayVars, UpdatesTypeOK
  <2>5. NotOlder'
    BY <1>0, <2>3, NotOlderStays
  <2>6. Verifiable'
    BY <1>0, <2>3 DEF DiskSound, Verifiable
  <2>7. ASSUME ~ overlap' PROVE FilesSound'
    <3>1. FilesSound /\ \A d \in Checks : check[d].at # "loading"
      BY <1>2, <2>7 DEF DiskSound
    <3>2. OneAt("loading")' /\ OneAt("copying")'
      BY <1>0, <2>3, <3>1 DEF FilesSound, OneAt
    <3>3. LoadsPart'
      BY <1>2, <2>1, <2>3, <3>1 DEF LoadsPart
    <3>4. final # NoFile => final # i
      BY <3>1 DEF FilesSound, StagedWhole, InUse
    <3>5. StagedWhole'
      BY <1>0, <1>2, <3>1, <3>4 DEF FilesSound, StagedWhole, Whole, UpdatesTypeOK
    <3>6. CopiesWhole'
      <4> SUFFICES ASSUME NEW d \in Checks, check'[d].at = "copying"
                   PROVE  /\ check'[d].ino # part'
                          /\ Whole(file'[check'[d].ino])
                          /\ \A b \in 1 .. check'[d].pos : exe'[b] = file'[check'[d].ino][b]
        BY DEF CopiesWhole, Whole
      <4>1. check'[d] = check[d] /\ check[d].at = "copying"
        BY <1>0, <2>3
      <4>2. /\ check[d].ino \in Inodes /\ check[d].ino # part /\ Whole(file[check[d].ino])
            /\ \A b \in 1 .. check[d].pos : exe[b] = file[check[d].ino][b]
        BY <3>1, <4>1 DEF FilesSound, CopiesWhole, DiskSound, Verifiable
      <4>3. check[d].ino # i
        BY <4>2 DEF InUse
      <4>4. file'[check[d].ino] = file[check[d].ino]
        BY <1>2, <4>2, <4>3 DEF UpdatesTypeOK
      <4> QED
        BY <1>0, <1>2, <4>1, <4>2, <4>3, <4>4
    <3>7. ExeWhole'
      BY <1>0, <2>3, <3>1 DEF FilesSound, ExeWhole, Whole
    <3> QED
      BY <3>2, <3>3, <3>5, <3>6, <3>7 DEF FilesSound
  <2> QED
    BY <2>4, <2>5, <2>6, <2>7 DEF DiskSound
<1> QED
  BY <1>1, <1>2 DEF CreatePart

(* A block goes to the one download's file, which is neither the staged    *)
(* one nor one that is being copied.                                       *)
LEMMA WriteBlockInv ==
    ASSUME UpdatesInv, NEW c \in Checks, WriteBlock(c)
    PROVE  UpdatesInv'
<1> USE DEF UpdatesInv, UpdatesTyped
<1> DEFINE i == check[c].ino
           p == check[c].pos
<1>1. /\ UNCHANGED <<release, relayVars, part, final, exe, running, pastVars>>
      /\ check[c].at = "loading" /\ p < Chunks
  BY DEF WriteBlock
<1>2. PICK ok \in BOOLEAN :
        /\ file' = [file EXCEPT ![i][p + 1] = IF ok THEN check[c].m.rel ELSE 0]
        /\ check' = [check EXCEPT ![c].pos = @ + 1, ![c].good = @ /\ ok]
  BY DEF WriteBlock
<1>3. check[c] \in Check /\ check[c].m.rel \in Releases /\ p \in 0 .. Chunks /\ Chunks \in Nat
  BY <1>1, UpdatesAssumption DEF UpdatesAssumption, DiskSound, Verifiable, Check
<1>4. /\ check' \in [Checks -> Check]
      /\ \A d \in Checks : d # c => check'[d] = check[d]
      /\ check'[c].at = "loading" /\ check'[c].ino = i /\ check'[c].pos = p + 1
      /\ check'[c].m = check[c].m /\ check'[c].good = (check[c].good /\ ok)
  <2>1. [check[c] EXCEPT !.pos = @ + 1, !.good = @ /\ ok] \in Check
    <3>1. p + 1 \in 0 .. Chunks /\ (check[c].good /\ ok) \in BOOLEAN
      BY <1>1, <1>3
    <3> HIDE DEF UpdatesInv, UpdatesTyped
    <3> QED
      BY <1>3, <3>1 DEF Check
  <2> QED
    BY <1>1, <1>2, <1>3, <2>1 DEF Check
<1>5. UpdatesTyped'
  <2>1. file' \in [Inodes -> [Blocks -> Releases \cup {0}]]
    BY <1>2, <1>3 DEF UpdatesTypeOK
  <2> QED
    BY <1>1, <1>4, <2>1 DEF relayVars, pastVars, UpdatesTypeOK
<1>6. NotOlder'
  BY <1>1, <1>4, NotOlderStays
<1>7. Verifiable'
  BY <1>1, <1>4 DEF DiskSound, Verifiable
<1>8. ASSUME ~ overlap PROVE FilesSound'
  <2>1. /\ FilesSound
        /\ \A d \in Checks : d # c => check[d].at # "loading"
        /\ part = i /\ part # NoFile
        /\ check[c].good => \A b \in 1 .. p : file[i][b] = check[c].m.rel
    BY <1>1, <1>8 DEF DiskSound, FilesSound, OneAt, LoadsPart
  <2>2. OneAt("loading")' /\ OneAt("copying")'
    BY <1>1, <1>4, <2>1 DEF FilesSound, OneAt
  <2>3. i \in Inodes /\ p + 1 \in Blocks
    BY <1>1, <1>3, <2>1 DEF Blocks, UpdatesTypeOK
  <2>4. /\ file'[i][p + 1] = IF ok THEN check[c].m.rel ELSE 0
        /\ \A b \in Blocks : b # p + 1 => file'[i][b] = file[i][b]
        /\ \A j \in Inodes : j # i => file'[j] = file[j]
    BY <1>2, <2>3 DEF UpdatesTypeOK
  <2>5. LoadsPart'
    <3>1. \A d \in Checks : d # c => check'[d].at # "loading"
      BY <1>4, <2>1
    <3>2. ASSUME check'[c].good, NEW b \in 1 .. (p + 1)
          PROVE  file'[i][b] = check[c].m.rel
      <4>1. b \in Blocks /\ (b # p + 1 => b \in 1 .. p)
        BY <1>1, <1>3 DEF Blocks
      <4> QED
        BY <1>4, <2>1, <2>4, <3>2, <4>1
    <3> QED
      BY <1>1, <1>4, <2>1, <3>1, <3>2 DEF LoadsPart
  <2>6. StagedWhole'
    <3>1. final # NoFile => final \in Inodes /\ final # i
      BY <2>1 DEF FilesSound, UpdatesTypeOK, StagedWhole
    <3> QED
      BY <1>1, <2>1, <2>4, <3>1 DEF FilesSound, StagedWhole, Whole
  <2>7. CopiesWhole'
    <3>1. \A d \in Checks : check'[d].at = "copying" =>
             check'[d] = check[d] /\ check[d].ino \in Inodes /\ check[d].ino # i
      BY <1>4, <2>1 DEF FilesSound, CopiesWhole, DiskSound, Verifiable
    <3> QED
      BY <1>1, <2>1, <2>4, <3>1 DEF FilesSound, CopiesWhole, Whole
  <2>8. ExeWhole'
    BY <1>1, <1>4, <2>1 DEF FilesSound, ExeWhole, Whole, pastVars
  <2> QED
    BY <2>2, <2>5, <2>6, <2>7, <2>8 DEF FilesSound
<1> QED
  BY <1>1, <1>5, <1>6, <1>7, <1>8 DEF DiskSound, pastVars

(* A download that failed leaves no file of its name; one that was hashed  *)
(* has a whole release in its file, which becomes the staged one.          *)
LEMMA EndsInv ==
    ASSUME UpdatesInv, NEW c \in Checks, Reject(c) \/ RenameAndApply(c)
    PROVE  UpdatesInv'
<1> USE DEF UpdatesInv, UpdatesTyped
<1>1. /\ UNCHANGED <<release, relayVars, file, exe, running, pastVars>>
      /\ part' = NoFile /\ check[c].at = "loading" /\ (final' = final \/ final' = part)
  BY DEF Reject, RenameAndApply
<1>2. PICK g \in Check : check' = [check EXCEPT ![c] = g] /\ g.at \in {"swapping", "idle"}
  <2>1. CASE Ends(c)
    BY <2>1, AsleepIs DEF Ends
  <2>2. CASE check' \in {[check EXCEPT ![c] = [Asleep EXCEPT !.at = at]] : at \in {"swapping", "idle"}}
    <3>1. PICK at \in {"swapping", "idle"} : check' = [check EXCEPT ![c] = [Asleep EXCEPT !.at = at]]
      BY <2>2
    <3>2. [Asleep EXCEPT !.at = at] \in Check /\ [Asleep EXCEPT !.at = at].at = at
      BY AsleepIs DEF Check, CheckSteps
    <3> QED
      BY <3>1, <3>2
  <2> QED
    BY <2>1, <2>2 DEF Reject, RenameAndApply
<1>3. UpdatesTyped'
  BY <1>1, <1>2 DEF relayVars, pastVars, UpdatesTypeOK
<1>4. NotOlder'
  BY <1>1, <1>2, NotOlderStays
<1>5. Verifiable'
  BY <1>1, <1>2 DEF DiskSound, Verifiable
<1>6. ASSUME ~ overlap PROVE FilesSound'
  <2>1. FilesSound
    BY <1>6 DEF DiskSound
  <2>2. OneAt("loading")' /\ OneAt("copying")' /\ LoadsPart'
    <3>1. \A d \in Checks : d # c => check[d].at # "loading"
      BY <1>1, <2>1 DEF FilesSound, OneAt
    <3> QED
      BY <1>2, <2>1, <3>1 DEF FilesSound, OneAt, LoadsPart
  <2>3. CopiesWhole' /\ ExeWhole'
    <3>1. \A d \in Checks : (check[d].at = "copying" \/ check'[d].at = "copying") => check'[d] = check[d]
      BY <1>1, <1>2
    <3>2. NoFile \notin Inodes
      BY UpdatesAssumption DEF UpdatesAssumption
    <3> QED
      BY <1>1, <2>1, <3>1, <3>2 DEF FilesSound, CopiesWhole, ExeWhole, Whole, pastVars,
         DiskSound, Verifiable
  <2>4. CASE final' = final
    <3>1. StagedWhole'
      BY <1>1, <2>1, <2>4 DEF FilesSound, StagedWhole, Whole
    <3> QED
      BY <2>2, <2>3, <3>1 DEF FilesSound
  <2>5. CASE RenameAndApply(c) /\ final' = part
    <3>1. check[c].good /\ check[c].pos = Chunks
      BY <2>5 DEF RenameAndApply, Verified
    <3>2. check[c].m.rel \in Releases
      BY <1>1 DEF DiskSound, Verifiable
    <3>3. part # NoFile /\ \A b \in Blocks : file[part][b] = check[c].m.rel
      BY <1>1, <2>1, <3>1 DEF FilesSound, LoadsPart, Blocks
    <3>4. StagedWhole'
      BY <1>1, <2>5, <3>2, <3>3 DEF StagedWhole, Whole
    <3> QED
      BY <2>2, <2>3, <3>4 DEF FilesSound
  <2> QED
    BY <1>1, <2>4, <2>5 DEF Reject
<1> QED
  BY <1>1, <1>3, <1>4, <1>5, <1>6 DEF DiskSound, pastVars

(* The script opens the staged file, which is whole, or finds none. *)
LEMMA SwapBeginInv ==
    ASSUME UpdatesInv, NEW c \in Checks, SwapBegin(c)
    PROVE  UpdatesInv'
<1> USE DEF UpdatesInv, UpdatesTyped
<1>1. UNCHANGED <<release, relayVars, part, final, file, running, partial>> /\ check[c].at = "swapping"
  BY DEF SwapBegin
<1>2. CASE Ends(c) /\ UNCHANGED <<exe, overlap>>
  <2>1. UpdatesTyped'
    BY <1>1, <1>2, AsleepIs DEF Ends, relayVars, UpdatesTypeOK
  <2>2. \A d \in Checks : check'[d] = check[d] \/ (check[d].at = "swapping" /\ check'[d].at = "idle")
    BY <1>1, <1>2, AsleepIs DEF Ends
  <2>3. NotOlder'
    BY <1>1, <2>2, NotOlderStays
  <2>4. DiskSound'
    BY <1>1, <1>2, <2>2, DiskStays DEF diskVars, pastVars
  <2> QED
    BY <2>1, <2>3, <2>4
<1>3. CASE /\ final # NoFile /\ exe' = Blank
           /\ check' = [check EXCEPT ![c].at = "copying", ![c].ino = final, ![c].pos = 0]
           /\ overlap' = (overlap \/ \E d \in Checks : check[d].at = "copying")
  <2>1. [check[c] EXCEPT !.at = "copying", !.ino = final, !.pos = 0] \in Check
    <3>1. check[c] \in Check /\ final \in Inodes \cup {NoFile} /\ 0 \in 0 .. Chunks
      BY UpdatesAssumption DEF UpdatesAssumption, UpdatesTypeOK
    <3> HIDE DEF UpdatesInv, UpdatesTyped
    <3> QED
      BY <3>1 DEF Check, CheckSteps
  <2>2. /\ check' \in [Checks -> Check]
        /\ \A d \in Checks : d # c => check'[d] = check[d]
        /\ check'[c].at = "copying" /\ check'[c].ino = final /\ check'[c].pos = 0
    BY <1>3, <2>1 DEF Check
  <2>3. UpdatesTyped'
    BY <1>1, <1>3, <2>2 DEF relayVars, UpdatesTypeOK, Blank
  <2>4. NotOlder'
    BY <1>1, <2>2, NotOlderStays
  <2>5. Verifiable'
    BY <1>3, <2>2 DEF DiskSound, Verifiable, UpdatesTypeOK
  <2>6. ASSUME ~ overlap' PROVE FilesSound'
    <3>1. FilesSound /\ \A d \in Checks : check[d].at # "copying"
      BY <1>3, <2>6 DEF DiskSound
    <3>2. OneAt("loading")' /\ OneAt("copying")'
      BY <1>1, <2>2, <3>1 DEF FilesSound, OneAt
    <3>3. LoadsPart' /\ StagedWhole'
      BY <1>1, <2>2, <3>1 DEF FilesSound, LoadsPart, StagedWhole, Whole
    <3>4. CopiesWhole'
      <4>1. final \in Inodes /\ final # part /\ Whole(file[final])
        BY <1>3, <3>1 DEF FilesSound, StagedWhole, UpdatesTypeOK
      <4> QED
        BY <1>1, <2>2, <3>1, <4>1 DEF CopiesWhole, Whole
    <3>5. ExeWhole'
      BY <2>2 DEF ExeWhole
    <3> QED
      BY <3>2, <3>3, <3>4, <3>5 DEF FilesSound
  <2> QED
    BY <2>3, <2>4, <2>5, <2>6 DEF DiskSound
<1> QED
  BY <1>2, <1>3 DEF SwapBegin

(* The copy takes the next block of the file it has opened. *)
LEMMA SwapBlockInv ==
    ASSUME UpdatesInv, NEW c \in Checks, SwapBlock(c)
    PROVE  UpdatesInv'
<1> USE DEF UpdatesInv, UpdatesTyped
<1> DEFINE i == check[c].ino
           p == check[c].pos
<1>1. /\ UNCHANGED <<release, relayVars, part, final, file, running, pastVars>>
      /\ check[c].at = "copying" /\ p + 1 \in Blocks
      /\ exe' = [exe EXCEPT ![p + 1] = file[i][p + 1]]
      /\ check' = [check EXCEPT ![c].pos = p + 1]
  BY DEF SwapBlock
<1>2. check[c] \in Check /\ Chunks \in Nat /\ p \in 0 .. Chunks /\ p + 1 \in 0 .. Chunks
  BY <1>1, UpdatesAssumption DEF UpdatesAssumption, Check, Blocks
<1>3. /\ check' \in [Checks -> Check]
      /\ \A d \in Checks : d # c => check'[d] = check[d]
      /\ check'[c].at = "copying" /\ check'[c].ino = i /\ check'[c].pos = p + 1
  <2>1. [check[c] EXCEPT !.pos = p + 1] \in Check
    <3> HIDE DEF UpdatesInv, UpdatesTyped
    <3> QED
      BY <1>2 DEF Check
  <2> QED
    BY <1>1, <2>1 DEF Check
<1>4. Verifiable' /\ i \in Inodes
  BY <1>1, <1>3 DEF DiskSound, Verifiable
<1>5. NotOlder'
  BY <1>1, <1>3, NotOlderStays
<1>6. \A b \in Blocks : exe'[b] = IF b = p + 1 THEN file[i][b] ELSE exe[b]
  BY <1>1 DEF UpdatesTypeOK
<1>7. ASSUME ~ overlap PROVE FilesSound'
  <2>1. FilesSound
    BY <1>7 DEF DiskSound
  <2>2. OneAt("loading")' /\ OneAt("copying")' /\ LoadsPart' /\ StagedWhole'
    BY <1>1, <1>3, <2>1 DEF FilesSound, OneAt, LoadsPart, StagedWhole, Whole
  <2>3. CopiesWhole'
    <3>1. \A d \in Checks : d # c => check[d].at # "copying"
      BY <1>1, <2>1 DEF FilesSound, OneAt
    <3>2. \A b \in 1 .. (p + 1) : exe'[b] = file[i][b]
      <4>1. \A b \in 1 .. (p + 1) : b \in Blocks /\ (b # p + 1 => b \in 1 .. p)
        BY <1>2 DEF Blocks
      <4>2. \A b \in 1 .. p : exe[b] = file[i][b]
        BY <1>1, <2>1 DEF FilesSound, CopiesWhole
      <4> QED
        BY <1>6, <4>1, <4>2
    <3> QED
      BY <1>1, <1>3, <2>1, <3>1, <3>2 DEF FilesSound, CopiesWhole, Whole
  <2>4. ExeWhole'
    BY <1>3 DEF ExeWhole
  <2> QED
    BY <2>2, <2>3, <2>4 DEF FilesSound
<1>8. UpdatesTyped'
  <2>1. file[i][p + 1] \in Releases \cup {0}
    BY <1>1, <1>4 DEF UpdatesTypeOK
  <2>2. exe' \in [Blocks -> Releases \cup {0}]
    BY <1>1, <2>1 DEF UpdatesTypeOK
  <2> QED
    BY <1>1, <1>3, <2>2 DEF relayVars, pastVars, UpdatesTypeOK
<1> QED
  BY <1>1, <1>4, <1>5, <1>7, <1>8 DEF DiskSound, pastVars

(* A copy that is complete is of a whole file; one that is not leaves the  *)
(* binary cut short, until another is complete.                            *)
LEMMA SwapEndInv ==
    ASSUME UpdatesInv, NEW c \in Checks, SwapEnd(c) \/ SwapFail(c)
    PROVE  UpdatesInv'
<1> USE DEF UpdatesInv, UpdatesTyped
<1>1. /\ UNCHANGED <<release, relayVars, part, file, exe, overlap>>
      /\ final' \in {final, NoFile} /\ check' = [check EXCEPT ![c] = Asleep]
      /\ check[c].at \in {"swapping", "copying"}
  BY DEF SwapEnd, SwapFail, Ends, diskVars
<1>2. running' \in Releases \cup {NoRelease} /\ partial' \in BOOLEAN
  <2>1. 1 \in Blocks
    BY UpdatesAssumption DEF UpdatesAssumption, Blocks
  <2>2. running' \in Releases \cup {NoRelease}
    BY <2>1 DEF SwapEnd, SwapFail, Whole, UpdatesTypeOK
  <2>3. partial' \in {FALSE, partial, check[c].pos < Chunks}
    BY DEF SwapEnd, SwapFail
  <2>4. (check[c].pos < Chunks) \in BOOLEAN
    OBVIOUS
  <2> QED
    BY <2>2, <2>3, <2>4 DEF UpdatesTypeOK
<1>3. UpdatesTyped'
  BY <1>1, <1>2, AsleepIs DEF relayVars, UpdatesTypeOK
<1>4. check'[c].at = "idle" /\ \A d \in Checks : d # c => check'[d] = check[d]
  BY <1>1, AsleepIs
<1>5. NotOlder'
  BY <1>1, <1>4, NotOlderStays
<1>6. Verifiable'
  BY <1>4 DEF DiskSound, Verifiable
<1>7. ASSUME ~ overlap PROVE FilesSound'
  <2>1. FilesSound
    BY <1>7 DEF DiskSound
  <2>2. OneAt("loading")' /\ OneAt("copying")' /\ LoadsPart' /\ StagedWhole' /\ CopiesWhole'
    BY <1>1, <1>4, <2>1 DEF FilesSound, OneAt, LoadsPart, StagedWhole, CopiesWhole, Whole
  <2>3. ExeWhole'
    <3>1. CASE check[c].at = "copying" /\ check[c].pos = Chunks
      <4>1. PICK r \in Releases : \A b \in Blocks : file[check[c].ino][b] = r
        BY <2>1, <3>1 DEF FilesSound, CopiesWhole, Whole
      <4>2. \A b \in Blocks : exe[b] = r
        BY <2>1, <3>1, <4>1 DEF FilesSound, CopiesWhole, Blocks
      <4> QED
        BY <1>1, <4>2 DEF ExeWhole, Whole
    <3>2. CASE check[c].at = "copying" /\ check[c].pos # Chunks
      <4>1. check[c].pos < Chunks
        <5>1. check[c].pos \in 0 .. Chunks /\ Chunks \in Nat
          BY UpdatesAssumption DEF UpdatesAssumption, Check
        <5> QED
          BY <3>2, <5>1
      <4>2. partial'
        BY <3>2, <4>1 DEF SwapEnd, SwapFail
      <4> QED
        BY <4>2 DEF ExeWhole
    <3>3. CASE check[c].at = "swapping"
      <4>1. partial' = partial
        BY <3>3 DEF SwapEnd, SwapFail
      <4> QED
        BY <1>1, <1>4, <2>1, <3>3, <4>1 DEF FilesSound, ExeWhole, Whole
    <3> QED
      BY <1>1, <3>1, <3>2, <3>3
  <2> QED
    BY <2>2, <2>3 DEF FilesSound
<1> QED
  BY <1>1, <1>3, <1>5, <1>6, <1>7 DEF DiskSound

LEMMA ProcessInv ==
    ASSUME UpdatesInv, Quit \/ Launch
    PROVE  UpdatesInv'
<1> USE DEF UpdatesInv, UpdatesTyped
<1>1. UNCHANGED <<release, relayVars, diskVars, pastVars>>
  BY DEF Quit, Launch
<1>2. check' \in [Checks -> Check]
  BY AsleepIs DEF Quit, Launch
<1>3. \A d \in Checks : check'[d] = check[d] \/ (check[d].at # "copying" /\ check'[d].at = "idle")
  BY AsleepIs DEF Quit, Launch
<1>4. running' \in Releases \cup {NoRelease}
  <2>1. CASE Quit
    BY <2>1 DEF Quit
  <2>2. CASE Launch
    <3>1. 1 \in Blocks
      BY UpdatesAssumption DEF UpdatesAssumption, Blocks
    <3> QED
      BY <2>2, <3>1 DEF Launch, Whole
  <2> QED
    BY <2>1, <2>2
<1>5. UpdatesTyped'
  BY <1>1, <1>2, <1>4 DEF relayVars, diskVars, pastVars, UpdatesTypeOK
<1>6. NotOlder'
  BY <1>1, <1>3, NotOlderStays
<1>7. DiskSound'
  BY <1>1, <1>3, DiskStays
<1> QED
  BY <1>5, <1>6, <1>7

(* Releases, manifests, checks and files agree after every step. *)
THEOREM UpdatesInvariant == UpdatesSpec => []UpdatesInv
<1>1. UpdatesInv /\ [UpdatesNext]_updatesVars => UpdatesInv'
  <2> SUFFICES ASSUME UpdatesInv, [UpdatesNext]_updatesVars PROVE UpdatesInv'
    OBVIOUS
  <2>1. CASE UNCHANGED updatesVars
    <3>1. UpdatesTyped' /\ NotOlder'
      BY <2>1 DEF updatesVars, relayVars, diskVars, pastVars, UpdatesInv, UpdatesTyped,
         UpdatesTypeOK, NotOlder, Offered
    <3>2. DiskSound'
      BY <2>1, DiskStays DEF updatesVars, UpdatesInv
    <3> QED
      BY <3>1, <3>2 DEF UpdatesInv
  <2>2. CASE UpdatesNext
    BY <2>2, ServingInv, CreatePartInv, WriteBlockInv, EndsInv, SwapBeginInv, SwapBlockInv,
       SwapEndInv, ProcessInv DEF UpdatesNext
  <2> QED
    BY <2>1, <2>2
<1> QED
  BY UpdatesInitInv, <1>1, PTL DEF UpdatesSpec

(* Unless two downloads or two copies overlap, the installed binary is one *)
(* whole release, or is being copied, or the last copy over it was cut     *)
(* short: whatever is damaged, rejected, interrupted by a quit or started  *)
(* again, a script copies whole releases only.                             *)
THEOREM InstalledIsWhole == UpdatesSpec => []InstalledWhole
<1>1. UpdatesInv => InstalledWhole
  BY DEF UpdatesInv, DiskSound, FilesSound, ExeWhole, InstalledWhole
<1> QED
  BY UpdatesInvariant, <1>1, PTL

(* The relay offers an older release than before only when a request that  *)
(* looked at the cache before another stored in it stores after it.        *)
THEOREM OlderOnlyWhenLate == UpdatesSpec => NewerServed
<1>1. UpdatesInv /\ [UpdatesNext]_updatesVars =>
        [manifest.source = "github" /\ manifest'.source = "github" /\ manifest'.rel < manifest.rel
           => \E c \in Checks : check[c].at = "storing" /\ check[c].late]_updatesVars
  <2> SUFFICES ASSUME UpdatesInv, UpdatesNext, manifest.source = "github",
                      manifest'.source = "github", manifest'.rel < manifest.rel
               PROVE  \E c \in Checks : check[c].at = "storing" /\ check[c].late
    OBVIOUS
  <2>1. manifest.rel \in Nat
    BY ManifestRel DEF UpdatesInv, UpdatesTyped, UpdatesTypeOK, Manifest
  <2>2. manifest' # manifest
    BY <2>1
  <2>3. PICK c \in Checks : Store(c)
    BY <2>2 DEF UpdatesNext, Publish, Expire, Quit, Launch, relayVars, ReadManifest, Refresh,
       CheckForUpdates, Answer, CreatePart, WriteBlock, Reject, RenameAndApply,
       SwapBegin, SwapBlock, SwapEnd, SwapFail
  <2>4. check[c].at = "storing" /\ manifest' = check[c].m
    BY <2>3 DEF Store
  <2>5. check[c].m.rel \in Nat
    BY ManifestRel DEF UpdatesInv, UpdatesTyped, Check
  <2> QED
    BY <2>1, <2>4, <2>5 DEF UpdatesInv, NotOlder
<1> QED
  BY UpdatesInvariant, <1>1, PTL DEF UpdatesSpec, NewerServed

(***************************************************************************)
(* The vault, for any number of rows and keys, a crash between any two     *)
(* file operations and any of them failing: a run that has what the copy   *)
(* holds finds the rows of the last one that stopped.                      *)
(***************************************************************************)

(* A copy in full is the last one written in full, and holds what was      *)
(* promised while the application is down; without one main.db does.  The  *)
(* only moment when neither file need be complete is never reached: while  *)
(* the copy is written main.db stays, and it is removed after the copy is  *)
(* whole.  A run that has not what the copy holds leaves the copy alone    *)
(* until it seals, which takes the promise back.                           *)
FilesKept ==
    /\ Intact => kept = Rows(enc.rows)
    /\ ~ Intact => Rows(plain) >= kept
    /\ app = "down" => IF Intact THEN kept >= promised ELSE Rows(plain) >= promised
    /\ app \in {"up", "sealing"} =>
          IF blind THEN Intact ELSE Rows(plain) >= promised /\ Rows(plain) >= kept
    /\ app \in {"writing", "removing"} => Rows(plain) >= promised /\ Rows(plain) >= kept

(* The step of encryptDBFile says what is in the copy. *)
StepsKept ==
    /\ app # "down" => plain \in Nat \cup {Bad}
    /\ app = "writing" => ~ Intact
    /\ app = "removing" => Intact /\ enc.rows = plain

VaultInv == VaultTypeOK /\ StepsKept /\ FilesKept

(* The rows of a file are a number.                                        *)
LEMMA RowsAre ==
    ASSUME NEW n \in Nat \cup {NoDB, Torn, Bad}
    PROVE  /\ Rows(n) \in Nat /\ (n \in Nat => Rows(n) = n)
           /\ (n \notin Nat => Rows(n) = 0)
           /\ Rows(0) = 0 /\ Rows(Bad) = 0 /\ Rows(NoDB) = 0
BY SMT DEF Rows, NoDB, Torn, Bad

LEMMA VaultInitInv == VaultInit => VaultInv
<1> SUFFICES ASSUME VaultInit PROVE VaultInv
  OBVIOUS
<1>a. NoKey \in 0 .. MaxKeys /\ 0 \in Nat /\ 0 \in 0 .. MaxKeys
  BY VaultAssumption, SMT DEF NoKey
<1>b. enc \in [rows : Nat \cup {NoDB, Torn, Bad}, key : 0 .. MaxKeys]
  BY <1>a DEF VaultInit
<1>1. VaultTypeOK
  BY <1>a, <1>b DEF VaultTypeOK, VaultInit
<1> USE DEF VaultInit
<1>2. StepsKept
  BY DEF StepsKept
<1>3. FilesKept
  BY RowsAre, SMT DEF FilesKept, Intact, NoDB, Rows
<1> QED
  BY <1>1, <1>2, <1>3 DEF VaultInv

(* A key there is, or is made, is one of MaxKeys. *)
LEMMA KeyIsTyped ==
    ASSUME VaultInv, dbVaultKey \/ UNCHANGED <<ring, made>>
    PROVE  ring' \in 0 .. MaxKeys /\ made' \in 0 .. MaxKeys
BY VaultAssumption, SMT DEF VaultInv, VaultTypeOK, dbVaultKey, HasKey, NoKey

(* A start leaves the copy, and opens it, or has main.db as it was.        *)
LEMMA StartInv == VaultInv /\ (StartAsItWas \/ StartFromCopy \/ StartCrash) => VaultInv'
<1> SUFFICES ASSUME VaultInv, StartAsItWas \/ StartFromCopy \/ StartCrash PROVE VaultInv'
  OBVIOUS
<1>1. /\ app = "down" /\ enc' = enc /\ locked' = locked /\ kept' = kept /\ promised' = promised
      /\ journal' \in BOOLEAN
  BY DEF StartAsItWas, StartFromCopy, StartCrash, VaultInv, VaultTypeOK
<1>2. ring' \in 0 .. MaxKeys /\ made' \in 0 .. MaxKeys
  BY KeyIsTyped DEF StartAsItWas, StartFromCopy, StartCrash
<1>3. /\ enc.rows \in Nat \cup {NoDB, Torn, Bad} /\ plain \in Nat \cup {NoDB, Bad}
      /\ kept \in Nat /\ promised \in Nat /\ blind \in BOOLEAN /\ Intact \in BOOLEAN
  BY DEF VaultInv, VaultTypeOK, Intact
<1>4. Intact' = Intact
  BY <1>1 DEF Intact
<1>5. CASE StartAsItWas
  <2>1. app' = "up" /\ plain' = AsItWas /\ blind' = Intact
    BY <1>5 DEF StartAsItWas
  <2>2. plain' \in Nat \cup {Bad} /\ Rows(plain') = Rows(plain)
    BY <1>3, <2>1, RowsAre DEF AsItWas
  <2> QED
    BY <1>1, <1>2, <1>3, <1>4, <2>1, <2>2
    DEF VaultInv, VaultTypeOK, StepsKept, FilesKept
<1>6. CASE StartFromCopy
  <2>1. app' = "up" /\ Intact /\ blind' \in BOOLEAN
    BY <1>6 DEF StartFromCopy
  <2>2. plain' \in Nat \cup {Bad} /\ (blind' \/ plain' = enc.rows)
    BY <1>3, <1>6, <2>1 DEF StartFromCopy, Intact
  <2>3. ~ blind' => Rows(plain') = kept /\ kept >= promised
    BY <1>1, <2>1, <2>2 DEF VaultInv, FilesKept
  <2>4. Rows(plain') \in Nat /\ kept >= kept
    BY <1>3, <2>2, RowsAre
  <2> QED
    BY <1>1, <1>2, <1>3, <1>4, <2>1, <2>2, <2>3, <2>4
    DEF VaultInv, VaultTypeOK, StepsKept, FilesKept
<1>7. CASE StartCrash
  <2>1. app' = "down" /\ Intact /\ blind' = blind /\ plain' \in {NoDB, Bad}
    BY <1>1, <1>7 DEF StartCrash
  <2> QED
    BY <1>1, <1>2, <1>3, <1>4, <2>1 DEF VaultInv, VaultTypeOK, StepsKept, FilesKept
<1> QED
  BY <1>5, <1>6, <1>7

(* Rows are written to main.db only, which then holds more than before. *)
LEMMA WriteInv == VaultInv /\ Write => VaultInv'
<1> SUFFICES ASSUME VaultInv, Write PROVE VaultInv'
  OBVIOUS
<1>1. /\ app = "up" /\ app' = "up" /\ plain \in Nat /\ plain' = plain + 1 /\ promised' = plain'
      /\ UNCHANGED <<journal, enc, ring, locked, made, blind, kept>>
  BY VaultAssumption, SMT DEF Write
<1>2. plain' \in Nat /\ Rows(plain) = plain /\ Rows(plain') = plain'
  BY <1>1, RowsAre, SMT
<1>3. Intact' = Intact
  BY <1>1 DEF Intact
<1>4. kept \in Nat
  BY DEF VaultInv, VaultTypeOK
<1> QED
  BY <1>1, <1>2, <1>3, <1>4, SMT DEF VaultInv, VaultTypeOK, StepsKept, FilesKept

(* A stop that begins keeps its promise so far; one that does not takes it *)
(* back to the last stop's.                                                *)
LEMMA StopInv == VaultInv /\ Stop => VaultInv'
<1> SUFFICES ASSUME VaultInv, Stop PROVE VaultInv'
  OBVIOUS
<1>1. ring' \in 0 .. MaxKeys /\ made' \in 0 .. MaxKeys
  BY KeyIsTyped DEF Stop
<1>2. app = "up" /\ UNCHANGED <<plain, journal, enc, locked, blind, kept>> /\ Intact' = Intact
  BY DEF Stop, Intact
<1>3. kept \in Nat /\ kept >= kept
  BY SMT DEF VaultInv, VaultTypeOK
<1>4. CASE app' = "sealing" /\ UNCHANGED promised
  BY <1>1, <1>2, <1>4 DEF VaultInv, VaultTypeOK, StepsKept, FilesKept
<1>5. CASE app' = "down" /\ promised' = kept
  BY <1>1, <1>2, <1>3, <1>5 DEF VaultInv, VaultTypeOK, StepsKept, FilesKept
<1> QED
  BY <1>4, <1>5 DEF Stop

(* The copy is emptied while main.db is whole, and main.db removed when    *)
(* the copy is.                                                            *)
LEMMA EncryptInv == VaultInv /\ encryptDBFile => VaultInv'
<1> SUFFICES ASSUME VaultInv, encryptDBFile PROVE VaultInv'
  OBVIOUS
<1>0. /\ plain \in Nat \cup {NoDB, Bad} /\ kept \in Nat /\ promised \in Nat
      /\ ring \in 0 .. MaxKeys /\ enc.key \in 0 .. MaxKeys
      /\ enc.rows \in Nat \cup {NoDB, Torn, Bad}
  BY DEF VaultInv, VaultTypeOK
<1>a. Rows(plain) \in Nat /\ Rows(plain) >= Rows(plain)
  BY <1>0, RowsAre, SMT
<1>1. CASE SealBegin
  <2>1. /\ app = "sealing" /\ app' = "writing" /\ enc'.rows \in {NoDB, Torn}
        /\ enc' \in [rows : Nat \cup {NoDB, Torn, Bad}, key : 0 .. MaxKeys]
        /\ UNCHANGED <<plain, journal, ring, locked, made, blind>>
        /\ IF blind THEN promised' = Rows(plain) /\ kept' = Rows(plain)
                    ELSE UNCHANGED <<promised, kept>>
    BY <1>0, <1>1 DEF SealBegin
  <2>2. ~ Intact'
    BY <2>1 DEF Intact
  <2>3. /\ promised' \in Nat /\ kept' \in Nat
        /\ Rows(plain) >= promised' /\ Rows(plain) >= kept'
    BY <1>0, <1>a, <2>1 DEF VaultInv, FilesKept
  <2> QED
    BY <1>0, <2>1, <2>2, <2>3 DEF VaultInv, VaultTypeOK, StepsKept, FilesKept
<1>2. CASE SealEnd
  <2>1. /\ app = "writing" /\ app' = "removing"
        /\ enc'.rows = plain /\ kept' = Rows(plain)
        /\ enc' \in [rows : Nat \cup {NoDB, Torn, Bad}, key : 0 .. MaxKeys]
        /\ UNCHANGED <<plain, journal, ring, locked, made, blind, promised>>
    BY <1>0, <1>2 DEF SealEnd
  <2>2. Intact' /\ plain \in Nat \cup {Bad}
    BY <2>1, SMT DEF Intact, VaultInv, StepsKept, NoDB, Torn, Bad
  <2> QED
    BY <1>0, <1>a, <2>1, <2>2 DEF VaultInv, VaultTypeOK, StepsKept, FilesKept
<1>3. CASE RemovePlain
  <2>1. /\ app = "removing" /\ app' = "down" /\ plain' = NoDB
        /\ UNCHANGED <<journal, enc, ring, locked, made, blind, kept, promised>>
        /\ Intact' = Intact
    BY <1>3 DEF RemovePlain, Intact
  <2>2. Intact /\ kept = Rows(plain) /\ Rows(plain) >= promised
    BY <2>1 DEF VaultInv, StepsKept, FilesKept
  <2> QED
    BY <1>0, <2>1, <2>2 DEF VaultInv, VaultTypeOK, StepsKept, FilesKept
<1> QED
  BY <1>1, <1>2, <1>3 DEF encryptDBFile

LEMMA CrashInv == VaultInv /\ VaultCrash => VaultInv'
<1> SUFFICES ASSUME VaultInv, VaultCrash PROVE VaultInv'
  OBVIOUS
<1>1. /\ app # "down" /\ app' = "down" /\ journal' \in BOOLEAN
      /\ promised' = IF app \in {"up", "sealing"} THEN kept ELSE promised
      /\ UNCHANGED <<plain, enc, ring, locked, made, blind, kept>> /\ Intact' = Intact
  BY DEF VaultCrash, Intact, VaultInv, VaultTypeOK
<1>2. kept \in Nat /\ promised \in Nat /\ kept >= kept
  BY SMT DEF VaultInv, VaultTypeOK
<1>3. VaultTypeOK' /\ StepsKept'
  BY <1>1, <1>2 DEF VaultInv, VaultTypeOK, StepsKept
<1>4. FilesKept'
  <2>1. CASE app \in {"up", "sealing"}
    BY <1>1, <1>2, <2>1 DEF VaultInv, FilesKept
  <2>2. CASE app = "writing"
    BY <1>1, <2>2 DEF VaultInv, StepsKept, FilesKept
  <2>3. CASE app = "removing"
    BY <1>1, <2>3 DEF VaultInv, StepsKept, FilesKept
  <2> QED
    BY <1>1, <2>1, <2>2, <2>3 DEF VaultInv, VaultTypeOK
<1> QED
  BY <1>3, <1>4 DEF VaultInv

LEMMA KeyringInv == VaultInv /\ Keyring => VaultInv'
<1> SUFFICES ASSUME VaultInv, Keyring PROVE VaultInv'
  OBVIOUS
<1>1. UNCHANGED <<app, plain, journal, enc, made, blind, kept, promised>>
  BY DEF Keyring
<1>2. ring' \in 0 .. MaxKeys
  BY VaultAssumption, SMT DEF Keyring, VaultInv, VaultTypeOK, NoKey
<1>3. locked' \in BOOLEAN
  BY DEF Keyring, VaultInv, VaultTypeOK
<1>4. VaultTypeOK'
  BY <1>1, <1>2, <1>3 DEF VaultInv, VaultTypeOK
<1> QED
  BY <1>1, <1>4 DEF VaultInv, StepsKept, FilesKept, Rows, Intact

(* The types and the files' contents are kept by every step. *)
THEOREM VaultInvariant == VaultSpec => []VaultInv
<1>1. VaultInv /\ [VaultNext]_vaultVars => VaultInv'
  <2> SUFFICES ASSUME VaultInv, [VaultNext]_vaultVars PROVE VaultInv'
    OBVIOUS
  <2>1. CASE UNCHANGED vaultVars
    BY <2>1 DEF vaultVars, VaultInv, VaultTypeOK, StepsKept, FilesKept, Rows, Intact
  <2> QED
    BY <2>1, StartInv, WriteInv, StopInv, EncryptInv, CrashInv, KeyringInv DEF VaultNext
<1> QED
  BY VaultInitInv, <1>1, PTL DEF VaultSpec

(* A run whose stop wrote the copy leaves all its rows to the next one,    *)
(* and a crash takes the database back to the last stop at most, for every *)
(* run that has what the copy holds.                                       *)
THEOREM CleanRunsAreKept == VaultSpec => []CleanRunsKept
<1>1. VaultInv => CleanRunsKept
  BY DEF VaultInv, FilesKept, CleanRunsKept
<1> QED
  BY VaultInvariant, <1>1, PTL

(***************************************************************************)
(* The codec, for every 16-bit sample.  A magnitude m between 128 and      *)
(* 32767 is in one of eight segments, 16 * w <= m < 32 * w, with steps of  *)
(* width w; the loop over the bits finds the segment, the mantissa is the  *)
(* step, and decoding gives the middle of the step.                        *)
(***************************************************************************)

(* The widths of the steps of the eight segments. *)
Widths == {8, 16, 32, 64, 128, 256, 512, 1024}

(* The segment e has steps of width w.                                     *)
Segment(e, w) ==
    /\ e \in 0..7 /\ w \in Widths
    /\ 2^(e + 3) = w /\ 2^(e + 7) = 16 * w /\ 2^e = w \div 8

(* The middle of the step of width w that m is in.                         *)
Middle(m, w) == w * (m \div w) + (w \div 2)

(* Each exponent has its segment. *)
LEMMA Segments ==
    ASSUME NEW e \in 0..7
    PROVE  \E w \in Widths : Segment(e, w)
<1>0. e \in {0, 1, 2, 3, 4, 5, 6, 7}
  BY SMT
<1>1. CASE e = 0
  <2>1. Segment(e, 8)
    BY <1>1, SMT DEF Segment, Widths
  <2> QED
    BY <2>1 DEF Widths
<1>2. CASE e = 1
  <2>1. Segment(e, 16)
    BY <1>2, SMT DEF Segment, Widths
  <2> QED
    BY <2>1 DEF Widths
<1>3. CASE e = 2
  <2>1. Segment(e, 32)
    BY <1>3, SMT DEF Segment, Widths
  <2> QED
    BY <2>1 DEF Widths
<1>4. CASE e = 3
  <2>1. Segment(e, 64)
    BY <1>4, SMT DEF Segment, Widths
  <2> QED
    BY <2>1 DEF Widths
<1>5. CASE e = 4
  <2>1. Segment(e, 128)
    BY <1>5, SMT DEF Segment, Widths
  <2> QED
    BY <2>1 DEF Widths
<1>6. CASE e = 5
  <2>1. Segment(e, 256)
    BY <1>6, SMT DEF Segment, Widths
  <2> QED
    BY <2>1 DEF Widths
<1>7. CASE e = 6
  <2>1. Segment(e, 512)
    BY <1>7, SMT DEF Segment, Widths
  <2> QED
    BY <2>1 DEF Widths
<1>8. CASE e = 7
  <2>1. Segment(e, 1024)
    BY <1>8, SMT DEF Segment, Widths
  <2> QED
    BY <2>1 DEF Widths
<1> QED
  BY <1>0, <1>1, <1>2, <1>3, <1>4, <1>5, <1>6, <1>7, <1>8

(* Where a magnitude lies in its segment, and what decoding its step gives. *)
InStep(m, w) ==
    /\ m \div w \in 16..31
    /\ Middle(m, w) \in Nat /\ 16 * w <= Middle(m, w) /\ Middle(m, w) < 32 * w
    /\ 2 * (m - Middle(m, w)) <= w /\ 2 * (Middle(m, w) - m) <= w
    /\ Middle(m, w) \div w = m \div w
    /\ (8 * ((m \div w) % 16) + 132) * (w \div 8) = Middle(m, w)

(* In the steps of each segment, decoding gives their middle. *)
LEMMA Steps ==
    ASSUME NEW w \in Nat, w \in Widths, NEW m \in Nat, 16 * w <= m, m < 32 * w
    PROVE  InStep(m, w)
<1>1. CASE w = 8
  <2>1. 128 <= m /\ m < 256
    BY <1>1, SMT
  <2>2. PICK d \in Int : d = m \div 8
    BY SMT
  <2>3. 8 * d <= m /\ m < 8 * (d + 1)
    BY <2>2, SMT
  <2>4. d \in 16..31 /\ d % 16 = d - 16
    BY <2>1, <2>3, SMT
  <2>5. PICK l \in Int : l = 8 * d + 4
    BY SMT
  <2>6. Middle(m, 8) = l
    BY <2>2, <2>5, SMT DEF Middle
  <2>7. l \div 8 = d
    BY <2>5, SMT
  <2>8. (8 * (d % 16) + 132) * (8 \div 8) = l
    BY <2>4, <2>5, SMT
  <2>9. l \in Nat /\ 16 * 8 <= l /\ l < 32 * 8 /\ 2 * (m - l) <= 8 /\ 2 * (l - m) <= 8
    BY <2>3, <2>4, <2>5, SMT
  <2> QED
    BY <1>1, <2>2, <2>4, <2>6, <2>7, <2>8, <2>9 DEF InStep
<1>2. CASE w = 16
  <2>1. 256 <= m /\ m < 512
    BY <1>2, SMT
  <2>2. PICK d \in Int : d = m \div 16
    BY SMT
  <2>3. 16 * d <= m /\ m < 16 * (d + 1)
    BY <2>2, SMT
  <2>4. d \in 16..31 /\ d % 16 = d - 16
    BY <2>1, <2>3, SMT
  <2>5. PICK l \in Int : l = 16 * d + 8
    BY SMT
  <2>6. Middle(m, 16) = l
    BY <2>2, <2>5, SMT DEF Middle
  <2>7. l \div 16 = d
    BY <2>5, SMT
  <2>8. (8 * (d % 16) + 132) * (16 \div 8) = l
    BY <2>4, <2>5, SMT
  <2>9. l \in Nat /\ 16 * 16 <= l /\ l < 32 * 16 /\ 2 * (m - l) <= 16 /\ 2 * (l - m) <= 16
    BY <2>3, <2>4, <2>5, SMT
  <2> QED
    BY <1>2, <2>2, <2>4, <2>6, <2>7, <2>8, <2>9 DEF InStep
<1>3. CASE w = 32
  <2>1. 512 <= m /\ m < 1024
    BY <1>3, SMT
  <2>2. PICK d \in Int : d = m \div 32
    BY SMT
  <2>3. 32 * d <= m /\ m < 32 * (d + 1)
    BY <2>2, SMT
  <2>4. d \in 16..31 /\ d % 16 = d - 16
    BY <2>1, <2>3, SMT
  <2>5. PICK l \in Int : l = 32 * d + 16
    BY SMT
  <2>6. Middle(m, 32) = l
    BY <2>2, <2>5, SMT DEF Middle
  <2>7. l \div 32 = d
    BY <2>5, SMT
  <2>8. (8 * (d % 16) + 132) * (32 \div 8) = l
    BY <2>4, <2>5, SMT
  <2>9. l \in Nat /\ 16 * 32 <= l /\ l < 32 * 32 /\ 2 * (m - l) <= 32 /\ 2 * (l - m) <= 32
    BY <2>3, <2>4, <2>5, SMT
  <2> QED
    BY <1>3, <2>2, <2>4, <2>6, <2>7, <2>8, <2>9 DEF InStep
<1>4. CASE w = 64
  <2>1. 1024 <= m /\ m < 2048
    BY <1>4, SMT
  <2>2. PICK d \in Int : d = m \div 64
    BY SMT
  <2>3. 64 * d <= m /\ m < 64 * (d + 1)
    BY <2>2, SMT
  <2>4. d \in 16..31 /\ d % 16 = d - 16
    BY <2>1, <2>3, SMT
  <2>5. PICK l \in Int : l = 64 * d + 32
    BY SMT
  <2>6. Middle(m, 64) = l
    BY <2>2, <2>5, SMT DEF Middle
  <2>7. l \div 64 = d
    BY <2>5, SMT
  <2>8. (8 * (d % 16) + 132) * (64 \div 8) = l
    BY <2>4, <2>5, SMT
  <2>9. l \in Nat /\ 16 * 64 <= l /\ l < 32 * 64 /\ 2 * (m - l) <= 64 /\ 2 * (l - m) <= 64
    BY <2>3, <2>4, <2>5, SMT
  <2> QED
    BY <1>4, <2>2, <2>4, <2>6, <2>7, <2>8, <2>9 DEF InStep
<1>5. CASE w = 128
  <2>1. 2048 <= m /\ m < 4096
    BY <1>5, SMT
  <2>2. PICK d \in Int : d = m \div 128
    BY SMT
  <2>3. 128 * d <= m /\ m < 128 * (d + 1)
    BY <2>2, SMT
  <2>4. d \in 16..31 /\ d % 16 = d - 16
    BY <2>1, <2>3, SMT
  <2>5. PICK l \in Int : l = 128 * d + 64
    BY SMT
  <2>6. Middle(m, 128) = l
    BY <2>2, <2>5, SMT DEF Middle
  <2>7. l \div 128 = d
    BY <2>5, SMT
  <2>8. (8 * (d % 16) + 132) * (128 \div 8) = l
    BY <2>4, <2>5, SMT
  <2>9. l \in Nat /\ 16 * 128 <= l /\ l < 32 * 128 /\ 2 * (m - l) <= 128 /\ 2 * (l - m) <= 128
    BY <2>3, <2>4, <2>5, SMT
  <2> QED
    BY <1>5, <2>2, <2>4, <2>6, <2>7, <2>8, <2>9 DEF InStep
<1>6. CASE w = 256
  <2>1. 4096 <= m /\ m < 8192
    BY <1>6, SMT
  <2>2. PICK d \in Int : d = m \div 256
    BY SMT
  <2>3. 256 * d <= m /\ m < 256 * (d + 1)
    BY <2>2, SMT
  <2>4. d \in 16..31 /\ d % 16 = d - 16
    BY <2>1, <2>3, SMT
  <2>5. PICK l \in Int : l = 256 * d + 128
    BY SMT
  <2>6. Middle(m, 256) = l
    BY <2>2, <2>5, SMT DEF Middle
  <2>7. l \div 256 = d
    BY <2>5, SMT
  <2>8. (8 * (d % 16) + 132) * (256 \div 8) = l
    BY <2>4, <2>5, SMT
  <2>9. l \in Nat /\ 16 * 256 <= l /\ l < 32 * 256 /\ 2 * (m - l) <= 256 /\ 2 * (l - m) <= 256
    BY <2>3, <2>4, <2>5, SMT
  <2> QED
    BY <1>6, <2>2, <2>4, <2>6, <2>7, <2>8, <2>9 DEF InStep
<1>7. CASE w = 512
  <2>1. 8192 <= m /\ m < 16384
    BY <1>7, SMT
  <2>2. PICK d \in Int : d = m \div 512
    BY SMT
  <2>3. 512 * d <= m /\ m < 512 * (d + 1)
    BY <2>2, SMT
  <2>4. d \in 16..31 /\ d % 16 = d - 16
    BY <2>1, <2>3, SMT
  <2>5. PICK l \in Int : l = 512 * d + 256
    BY SMT
  <2>6. Middle(m, 512) = l
    BY <2>2, <2>5, SMT DEF Middle
  <2>7. l \div 512 = d
    BY <2>5, SMT
  <2>8. (8 * (d % 16) + 132) * (512 \div 8) = l
    BY <2>4, <2>5, SMT
  <2>9. l \in Nat /\ 16 * 512 <= l /\ l < 32 * 512 /\ 2 * (m - l) <= 512 /\ 2 * (l - m) <= 512
    BY <2>3, <2>4, <2>5, SMT
  <2> QED
    BY <1>7, <2>2, <2>4, <2>6, <2>7, <2>8, <2>9 DEF InStep
<1>8. CASE w = 1024
  <2>1. 16384 <= m /\ m < 32768
    BY <1>8, SMT
  <2>2. PICK d \in Int : d = m \div 1024
    BY SMT
  <2>3. 1024 * d <= m /\ m < 1024 * (d + 1)
    BY <2>2, SMT
  <2>4. d \in 16..31 /\ d % 16 = d - 16
    BY <2>1, <2>3, SMT
  <2>5. PICK l \in Int : l = 1024 * d + 512
    BY SMT
  <2>6. Middle(m, 1024) = l
    BY <2>2, <2>5, SMT DEF Middle
  <2>7. l \div 1024 = d
    BY <2>5, SMT
  <2>8. (8 * (d % 16) + 132) * (1024 \div 8) = l
    BY <2>4, <2>5, SMT
  <2>9. l \in Nat /\ 16 * 1024 <= l /\ l < 32 * 1024 /\ 2 * (m - l) <= 1024 /\ 2 * (l - m) <= 1024
    BY <2>3, <2>4, <2>5, SMT
  <2> QED
    BY <1>8, <2>2, <2>4, <2>6, <2>7, <2>8, <2>9 DEF InStep
<1> QED
  BY <1>1, <1>2, <1>3, <1>4, <1>5, <1>6, <1>7, <1>8 DEF Widths

(* The segment of a magnitude. *)
In(m, e, w) == Segment(e, w) /\ 16 * w <= m /\ m < 32 * w

(* Every biased magnitude has a segment. *)
LEMMA Inside ==
    ASSUME NEW m \in Nat, 128 <= m, m <= 32767
    PROVE  \E e \in 0..7, w \in Widths : In(m, e, w)
<1> DEFINE Lies(w) == 16 * w <= m /\ m < 32 * w
<1>1. \/ Lies(8) \/ Lies(16) \/ Lies(32) \/ Lies(64)
      \/ Lies(128) \/ Lies(256) \/ Lies(512) \/ Lies(1024)
  BY SMT
<1> HIDE DEF Lies
<1>2. \E w \in Widths : Lies(w)
  BY <1>1 DEF Widths
<1>3. /\ Segment(0, 8) /\ Segment(1, 16) /\ Segment(2, 32) /\ Segment(3, 64)
      /\ Segment(4, 128) /\ Segment(5, 256) /\ Segment(6, 512) /\ Segment(7, 1024)
  BY SMT DEF Segment, Widths
<1>4. \A w \in Widths : \E e \in 0..7 : Segment(e, w)
  <2>1. /\ 0 \in 0..7 /\ 1 \in 0..7 /\ 2 \in 0..7 /\ 3 \in 0..7
        /\ 4 \in 0..7 /\ 5 \in 0..7 /\ 6 \in 0..7 /\ 7 \in 0..7
    BY SMT
  <2> QED
    BY <1>3, <2>1 DEF Widths
<1> QED
  BY <1>2, <1>4 DEF In, Lies

(* A later segment is at least twice as wide.                              *)
LEMMA Wider ==
    ASSUME NEW e \in 0..7, NEW w \in Nat, Segment(e, w),
           NEW x \in 0..7, NEW v \in Nat, Segment(x, v), e < x
    PROVE  2 * w <= v
<1>0. x \in {1, 2, 3, 4, 5, 6, 7} /\ w = 2^(e + 3) /\ v = 2^(x + 3)
  BY SMT DEF Segment
<1>1. CASE x = 1
  <2>1. v = 16
    BY <1>0, <1>1, SMT
  <2>2. CASE e = 0
    BY <1>0, <2>1, <2>2, SMT
  <2>3. \/ e = 0
    BY <1>1, SMT
  <2> QED
    BY <2>2, <2>3
<1>2. CASE x = 2
  <2>1. v = 32
    BY <1>0, <1>2, SMT
  <2>2. CASE e = 0
    BY <1>0, <2>1, <2>2, SMT
  <2>3. CASE e = 1
    BY <1>0, <2>1, <2>3, SMT
  <2>4. \/ e = 0 \/ e = 1
    BY <1>2, SMT
  <2> QED
    BY <2>2, <2>3, <2>4
<1>3. CASE x = 3
  <2>1. v = 64
    BY <1>0, <1>3, SMT
  <2>2. CASE e = 0
    BY <1>0, <2>1, <2>2, SMT
  <2>3. CASE e = 1
    BY <1>0, <2>1, <2>3, SMT
  <2>4. CASE e = 2
    BY <1>0, <2>1, <2>4, SMT
  <2>5. \/ e = 0 \/ e = 1 \/ e = 2
    BY <1>3, SMT
  <2> QED
    BY <2>2, <2>3, <2>4, <2>5
<1>4. CASE x = 4
  <2>1. v = 128
    BY <1>0, <1>4, SMT
  <2>2. CASE e = 0
    BY <1>0, <2>1, <2>2, SMT
  <2>3. CASE e = 1
    BY <1>0, <2>1, <2>3, SMT
  <2>4. CASE e = 2
    BY <1>0, <2>1, <2>4, SMT
  <2>5. CASE e = 3
    BY <1>0, <2>1, <2>5, SMT
  <2>6. \/ e = 0 \/ e = 1 \/ e = 2 \/ e = 3
    BY <1>4, SMT
  <2> QED
    BY <2>2, <2>3, <2>4, <2>5, <2>6
<1>5. CASE x = 5
  <2>1. v = 256
    BY <1>0, <1>5, SMT
  <2>2. CASE e = 0
    BY <1>0, <2>1, <2>2, SMT
  <2>3. CASE e = 1
    BY <1>0, <2>1, <2>3, SMT
  <2>4. CASE e = 2
    BY <1>0, <2>1, <2>4, SMT
  <2>5. CASE e = 3
    BY <1>0, <2>1, <2>5, SMT
  <2>6. CASE e = 4
    BY <1>0, <2>1, <2>6, SMT
  <2>7. \/ e = 0 \/ e = 1 \/ e = 2 \/ e = 3 \/ e = 4
    BY <1>5, SMT
  <2> QED
    BY <2>2, <2>3, <2>4, <2>5, <2>6, <2>7
<1>6. CASE x = 6
  <2>1. v = 512
    BY <1>0, <1>6, SMT
  <2>2. CASE e = 0
    BY <1>0, <2>1, <2>2, SMT
  <2>3. CASE e = 1
    BY <1>0, <2>1, <2>3, SMT
  <2>4. CASE e = 2
    BY <1>0, <2>1, <2>4, SMT
  <2>5. CASE e = 3
    BY <1>0, <2>1, <2>5, SMT
  <2>6. CASE e = 4
    BY <1>0, <2>1, <2>6, SMT
  <2>7. CASE e = 5
    BY <1>0, <2>1, <2>7, SMT
  <2>8. \/ e = 0 \/ e = 1 \/ e = 2 \/ e = 3 \/ e = 4 \/ e = 5
    BY <1>6, SMT
  <2> QED
    BY <2>2, <2>3, <2>4, <2>5, <2>6, <2>7, <2>8
<1>7. CASE x = 7
  <2>1. v = 1024
    BY <1>0, <1>7, SMT
  <2>2. CASE e = 0
    BY <1>0, <2>1, <2>2, SMT
  <2>3. CASE e = 1
    BY <1>0, <2>1, <2>3, SMT
  <2>4. CASE e = 2
    BY <1>0, <2>1, <2>4, SMT
  <2>5. CASE e = 3
    BY <1>0, <2>1, <2>5, SMT
  <2>6. CASE e = 4
    BY <1>0, <2>1, <2>6, SMT
  <2>7. CASE e = 5
    BY <1>0, <2>1, <2>7, SMT
  <2>8. CASE e = 6
    BY <1>0, <2>1, <2>8, SMT
  <2>9. \/ e = 0 \/ e = 1 \/ e = 2 \/ e = 3 \/ e = 4 \/ e = 5 \/ e = 6
    BY <1>7, SMT
  <2> QED
    BY <2>2, <2>3, <2>4, <2>5, <2>6, <2>7, <2>8, <2>9
<1> QED
  BY <1>0, <1>1, <1>2, <1>3, <1>4, <1>5, <1>6, <1>7

(* The bit of weight 16 * w, in its own segment and in an earlier one. *)
LEMMA TopBit ==
    ASSUME NEW w \in Nat, w \in Widths, NEW m \in Nat
    PROVE  /\ m < 16 * w => (m \div (16 * w)) % 2 = 0
           /\ 16 * w <= m /\ m < 32 * w => (m \div (16 * w)) % 2 = 1
<1>1. CASE w = 8
  <2>1. 16 * w = 128 /\ 32 * w = 256
    BY <1>1, SMT
  <2>2. m < 128 => (m \div 128) % 2 = 0
    BY SMT
  <2>3. 128 <= m /\ m < 256 => (m \div 128) % 2 = 1
    BY SMT
  <2> QED
    BY <2>1, <2>2, <2>3
<1>2. CASE w = 16
  <2>1. 16 * w = 256 /\ 32 * w = 512
    BY <1>2, SMT
  <2>2. m < 256 => (m \div 256) % 2 = 0
    BY SMT
  <2>3. 256 <= m /\ m < 512 => (m \div 256) % 2 = 1
    BY SMT
  <2> QED
    BY <2>1, <2>2, <2>3
<1>3. CASE w = 32
  <2>1. 16 * w = 512 /\ 32 * w = 1024
    BY <1>3, SMT
  <2>2. m < 512 => (m \div 512) % 2 = 0
    BY SMT
  <2>3. 512 <= m /\ m < 1024 => (m \div 512) % 2 = 1
    BY SMT
  <2> QED
    BY <2>1, <2>2, <2>3
<1>4. CASE w = 64
  <2>1. 16 * w = 1024 /\ 32 * w = 2048
    BY <1>4, SMT
  <2>2. m < 1024 => (m \div 1024) % 2 = 0
    BY SMT
  <2>3. 1024 <= m /\ m < 2048 => (m \div 1024) % 2 = 1
    BY SMT
  <2> QED
    BY <2>1, <2>2, <2>3
<1>5. CASE w = 128
  <2>1. 16 * w = 2048 /\ 32 * w = 4096
    BY <1>5, SMT
  <2>2. m < 2048 => (m \div 2048) % 2 = 0
    BY SMT
  <2>3. 2048 <= m /\ m < 4096 => (m \div 2048) % 2 = 1
    BY SMT
  <2> QED
    BY <2>1, <2>2, <2>3
<1>6. CASE w = 256
  <2>1. 16 * w = 4096 /\ 32 * w = 8192
    BY <1>6, SMT
  <2>2. m < 4096 => (m \div 4096) % 2 = 0
    BY SMT
  <2>3. 4096 <= m /\ m < 8192 => (m \div 4096) % 2 = 1
    BY SMT
  <2> QED
    BY <2>1, <2>2, <2>3
<1>7. CASE w = 512
  <2>1. 16 * w = 8192 /\ 32 * w = 16384
    BY <1>7, SMT
  <2>2. m < 8192 => (m \div 8192) % 2 = 0
    BY SMT
  <2>3. 8192 <= m /\ m < 16384 => (m \div 8192) % 2 = 1
    BY SMT
  <2> QED
    BY <2>1, <2>2, <2>3
<1>8. CASE w = 1024
  <2>1. 16 * w = 16384 /\ 32 * w = 32768
    BY <1>8, SMT
  <2>2. m < 16384 => (m \div 16384) % 2 = 0
    BY SMT
  <2>3. 16384 <= m /\ m < 32768 => (m \div 16384) % 2 = 1
    BY SMT
  <2> QED
    BY <2>1, <2>2, <2>3
<1> QED
  BY <1>1, <1>2, <1>3, <1>4, <1>5, <1>6, <1>7, <1>8 DEF Widths

(* The loop finds the segment. *)
LEMMA ExponentIs ==
    ASSUME NEW m \in Nat, NEW e \in 0..7, NEW w \in Nat, In(m, e, w)
    PROVE  Exponent(m) = e
<1> DEFINE bit(x) == (m \div 2^(x + 7)) % 2
           set == {x \in 1..7 : bit(x) = 1}
<1>1. Segment(e, w) /\ w \in Widths /\ 2^(e + 7) = 16 * w /\ 16 * w <= m /\ m < 32 * w
  BY DEF In, Segment
<1>2. ASSUME NEW x \in 1..7, e < x PROVE bit(x) = 0
  <2>1. x \in 0..7
    BY SMT
  <2>2. PICK v \in Widths : Segment(x, v)
    BY <2>1, Segments
  <2>3. v \in Nat
    BY SMT DEF Widths
  <2>4. 2 * w <= v
    BY <1>1, <1>2, <2>1, <2>2, <2>3, Wider
  <2>5. m < 16 * v
    BY <1>1, <2>3, <2>4, SMT
  <2>6. (m \div (16 * v)) % 2 = 0
    BY <2>3, <2>5, TopBit
  <2> QED
    BY <2>2, <2>6 DEF Segment
<1>3. bit(e) = 1
  BY <1>1, TopBit
<1>4. Exponent(m) = IF set = {} THEN 0 ELSE CHOOSE y \in set : \A x \in set : x <= y
  BY DEF Exponent
<1> HIDE DEF bit
<1>5. \A x \in set : x \in 1..7 /\ ~ (e < x)
  BY <1>2, SMT
<1>6. \A x \in set : x \in Int /\ x <= e /\ x >= 1
  BY <1>5, SMT
<1>7. CASE e = 0
  <2>1. set = {}
    BY <1>6, <1>7, SMT
  <2> QED
    BY <1>4, <1>7, <2>1
<1>8. CASE e # 0
  <2>1. e \in set
    BY <1>3, <1>8, SMT
  <2> HIDE DEF set
  <2>2. \A y \in set : (\A x \in set : x <= y) => y = e
    BY <1>6, <2>1, SMT
  <2>3. PICK y \in set : (\A x \in set : x <= y) /\ Exponent(m) = y
    BY <1>4, <1>6, <2>1
  <2> QED
    BY <2>2, <2>3
<1> QED
  BY <1>7, <1>8

(* The magnitude that is coded: the sample's with the bias, up to the clip. *)
LEMMA BiasedIs ==
    ASSUME NEW s \in Int
    PROVE  /\ Magnitude(s) \in Nat /\ Magnitude(s) = IF s < 0 THEN 0 - s ELSE s
           /\ Biased(s) \in Nat /\ 132 <= Biased(s) /\ Biased(s) <= 32767
           /\ Magnitude(s) <= 32635 => Biased(s) = Magnitude(s) + 132
           /\ Magnitude(s) > 32635 => Biased(s) = 32767
<1>1. Magnitude(s) \in Nat /\ Magnitude(s) = IF s < 0 THEN 0 - s ELSE s
  BY SMT DEF Magnitude
<1>2. PICK n \in Nat : n = Magnitude(s)
  BY <1>1
<1>3. Biased(s) = 132 + (IF n > 32635 THEN 32635 ELSE n)
  BY <1>2 DEF Biased, bias, clip
<1> QED
  BY <1>1, <1>2, <1>3, SMT

(* What is heard is the middle of the step, with the sign of the sample.   *)
LEMMA HeardIs ==
    ASSUME NEW s \in Int,
           NEW m \in Nat, m = Biased(s), NEW e \in 0..7, NEW w \in Nat, In(m, e, w)
    PROVE  Heard(s) = IF s < 0 THEN -(Middle(m, w) - 132) ELSE Middle(m, w) - 132
<1> DEFINE q == (m \div w) % 16
           sign == IF s < 0 THEN 128 ELSE 0
           v == sign + 16 * e + q
<1>1. /\ w \in Widths /\ 16 * w <= m /\ m < 32 * w
      /\ 2^(e + 3) = w /\ 2^e = w \div 8
  BY DEF In, Segment
<1>2. InStep(m, w)
  BY <1>1, Steps
<1>3. q \in 0..15
  <2>1. PICK d \in Int : d = m \div w /\ d \in 16..31
    BY <1>2, SMT DEF InStep
  <2>2. d % 16 \in 0..15
    BY <2>1, SMT
  <2> QED
    BY <2>1, <2>2
<1>4. Exponent(m) = e
  BY ExponentIs
<1>5. linearToULaw(s) = 255 - v
  BY <1>1, <1>4 DEF linearToULaw
<1> HIDE DEF q
<1>6. sign \in {0, 128}
  OBVIOUS
<1>7. v \in Int /\ 255 - (255 - v) = v
  BY <1>3, SMT
<1>8. v % 16 = q /\ (v \div 16) % 8 = e /\ (v >= 128 <=> s < 0)
  <2>1. CASE s < 0
    <3>1. v = 128 + 16 * e + q
      BY <2>1
    <3> HIDE DEF v
    <3>2. v % 16 = q /\ v \div 16 = 8 + e /\ v >= 128
      BY <1>3, <3>1, SMT
    <3> QED
      BY <2>1, <3>2, SMT
  <2>2. CASE ~ (s < 0)
    <3>1. v = 16 * e + q
      BY <1>3, <2>2, SMT
    <3> HIDE DEF v
    <3>2. v % 16 = q /\ v \div 16 = e /\ ~ (v >= 128)
      BY <1>3, <3>1, SMT
    <3> QED
      BY <2>2, <3>2, SMT
  <2> QED
    BY <2>1, <2>2
<1> HIDE DEF v
<1>9. (8 * q + 132) * 2^e = Middle(m, w)
  BY <1>1, <1>2 DEF InStep, q
<1>10. Heard(s) = IF v >= 128 THEN -((8 * q + 132) * 2^e - 132) ELSE (8 * q + 132) * 2^e - 132
  BY <1>5, <1>7, <1>8 DEF Heard, ulawToLinear, bias
<1> QED
  BY <1>8, <1>9, <1>10

(* The middle of the step of a magnitude, whichever segment it is in.      *)
LEMMA Heights ==
    ASSUME NEW m \in Nat, NEW e \in 0..7, NEW w \in Nat, In(m, e, w)
    PROVE  /\ InStep(m, w)
           /\ 132 <= m => 132 <= Middle(m, w)
           /\ m <= 32767 => Middle(m, w) <= 32256
           /\ m = 32767 => Middle(m, w) = 32256
           /\ In(Middle(m, w), e, w) /\ Middle(Middle(m, w), w) = Middle(m, w)
<1>1. w \in Widths /\ 16 * w <= m /\ m < 32 * w /\ Segment(e, w)
  BY DEF In, Segment
<1>2. InStep(m, w)
  BY <1>1, Steps
<1>3. PICK l \in Nat : l = Middle(m, w)
  BY <1>2 DEF InStep
<1>4. 16 * w <= l /\ l < 32 * w /\ l \div w = m \div w
  BY <1>2, <1>3 DEF InStep
<1>5. In(l, e, w)
  BY <1>1, <1>4 DEF In
<1>6. Middle(l, w) = l
  BY <1>3, <1>4 DEF Middle
<1>7. PICK d \in 16..31 : d = m \div w
  BY <1>2 DEF InStep
<1>8. l = w * d + (w \div 2)
  BY <1>3, <1>7 DEF Middle
<1>9. (132 <= m => 132 <= l) /\ (m <= 32767 => l <= 32256) /\ (m = 32767 => l = 32256)
  <2>1. CASE w = 8
    <3>1. l = 8 * d + 4 /\ 128 <= m /\ m < 256 /\ d = m \div 8
      BY <1>1, <1>7, <1>8, <2>1, SMT
    <3>2. 8 * d <= m /\ m < 8 * (d + 1)
      BY <3>1, SMT
    <3> QED
      BY <3>1, <3>2, SMT
  <2>2. CASE w = 16
    <3>1. l = 16 * d + 8 /\ 256 <= m /\ m < 512 /\ d = m \div 16
      BY <1>1, <1>7, <1>8, <2>2, SMT
    <3>2. 16 * d <= m /\ m < 16 * (d + 1)
      BY <3>1, SMT
    <3> QED
      BY <3>1, <3>2, SMT
  <2>3. CASE w = 32
    <3>1. l = 32 * d + 16 /\ 512 <= m /\ m < 1024 /\ d = m \div 32
      BY <1>1, <1>7, <1>8, <2>3, SMT
    <3>2. 32 * d <= m /\ m < 32 * (d + 1)
      BY <3>1, SMT
    <3> QED
      BY <3>1, <3>2, SMT
  <2>4. CASE w = 64
    <3>1. l = 64 * d + 32 /\ 1024 <= m /\ m < 2048 /\ d = m \div 64
      BY <1>1, <1>7, <1>8, <2>4, SMT
    <3>2. 64 * d <= m /\ m < 64 * (d + 1)
      BY <3>1, SMT
    <3> QED
      BY <3>1, <3>2, SMT
  <2>5. CASE w = 128
    <3>1. l = 128 * d + 64 /\ 2048 <= m /\ m < 4096 /\ d = m \div 128
      BY <1>1, <1>7, <1>8, <2>5, SMT
    <3>2. 128 * d <= m /\ m < 128 * (d + 1)
      BY <3>1, SMT
    <3> QED
      BY <3>1, <3>2, SMT
  <2>6. CASE w = 256
    <3>1. l = 256 * d + 128 /\ 4096 <= m /\ m < 8192 /\ d = m \div 256
      BY <1>1, <1>7, <1>8, <2>6, SMT
    <3>2. 256 * d <= m /\ m < 256 * (d + 1)
      BY <3>1, SMT
    <3> QED
      BY <3>1, <3>2, SMT
  <2>7. CASE w = 512
    <3>1. l = 512 * d + 256 /\ 8192 <= m /\ m < 16384 /\ d = m \div 512
      BY <1>1, <1>7, <1>8, <2>7, SMT
    <3>2. 512 * d <= m /\ m < 512 * (d + 1)
      BY <3>1, SMT
    <3> QED
      BY <3>1, <3>2, SMT
  <2>8. CASE w = 1024
    <3>1. l = 1024 * d + 512 /\ 16384 <= m /\ m < 32768 /\ d = m \div 1024
      BY <1>1, <1>7, <1>8, <2>8, SMT
    <3>2. 1024 * d <= m /\ m < 1024 * (d + 1)
      BY <3>1, SMT
    <3> QED
      BY <3>1, <3>2, SMT
  <2> QED
    BY <1>1, <2>1, <2>2, <2>3, <2>4, <2>5, <2>6, <2>7, <2>8 DEF Widths
<1> QED
  BY <1>2, <1>3, <1>5, <1>6, <1>9

(* A larger magnitude is not heard as a smaller one.                       *)
LEMMA MiddleRises ==
    ASSUME NEW m \in Nat, NEW e \in 0..7, NEW w \in Nat, In(m, e, w),
           NEW n \in Nat, NEW x \in 0..7, NEW v \in Nat, In(n, x, v), m <= n
    PROVE  Middle(m, w) <= Middle(n, v)
<1>1. /\ Segment(e, w) /\ w \in Widths /\ 16 * w <= m /\ m < 32 * w
      /\ Segment(x, v) /\ v \in Widths /\ 16 * v <= n /\ n < 32 * v
      /\ w = 2^(e + 3) /\ v = 2^(x + 3)
  BY DEF In, Segment
<1>2. InStep(m, w) /\ InStep(n, v)
  BY <1>1, Steps
<1>3. CASE e = x
  <2>1. v = w
    BY <1>1, <1>3
  <2>2. PICK d \in 16..31 : d = m \div w
    BY <1>2 DEF InStep
  <2>3. PICK f \in 16..31 : f = n \div w
    BY <1>2, <2>1 DEF InStep
  <2>4. w * d + (w \div 2) <= w * f + (w \div 2)
    <3>1. CASE w = 8
      <4>1. d = m \div 8 /\ f = n \div 8
        BY <2>2, <2>3, <3>1
      <4>2. d <= f
        BY <4>1, SMT
      <4> QED
        BY <3>1, <4>2, SMT
    <3>2. CASE w = 16
      <4>1. d = m \div 16 /\ f = n \div 16
        BY <2>2, <2>3, <3>2
      <4>2. d <= f
        BY <4>1, SMT
      <4> QED
        BY <3>2, <4>2, SMT
    <3>3. CASE w = 32
      <4>1. d = m \div 32 /\ f = n \div 32
        BY <2>2, <2>3, <3>3
      <4>2. d <= f
        BY <4>1, SMT
      <4> QED
        BY <3>3, <4>2, SMT
    <3>4. CASE w = 64
      <4>1. d = m \div 64 /\ f = n \div 64
        BY <2>2, <2>3, <3>4
      <4>2. d <= f
        BY <4>1, SMT
      <4> QED
        BY <3>4, <4>2, SMT
    <3>5. CASE w = 128
      <4>1. d = m \div 128 /\ f = n \div 128
        BY <2>2, <2>3, <3>5
      <4>2. d <= f
        BY <4>1, SMT
      <4> QED
        BY <3>5, <4>2, SMT
    <3>6. CASE w = 256
      <4>1. d = m \div 256 /\ f = n \div 256
        BY <2>2, <2>3, <3>6
      <4>2. d <= f
        BY <4>1, SMT
      <4> QED
        BY <3>6, <4>2, SMT
    <3>7. CASE w = 512
      <4>1. d = m \div 512 /\ f = n \div 512
        BY <2>2, <2>3, <3>7
      <4>2. d <= f
        BY <4>1, SMT
      <4> QED
        BY <3>7, <4>2, SMT
    <3>8. CASE w = 1024
      <4>1. d = m \div 1024 /\ f = n \div 1024
        BY <2>2, <2>3, <3>8
      <4>2. d <= f
        BY <4>1, SMT
      <4> QED
        BY <3>8, <4>2, SMT
    <3> QED
      BY <1>1, <3>1, <3>2, <3>3, <3>4, <3>5, <3>6, <3>7, <3>8 DEF Widths
  <2> QED
    BY <2>1, <2>2, <2>3, <2>4 DEF Middle
<1>4. CASE e < x
  <2>1. 2 * w <= v
    BY <1>1, <1>4, Wider
  <2>2. PICK l \in Nat : l = Middle(m, w) /\ l < 32 * w
    BY <1>2 DEF InStep
  <2>3. PICK k \in Nat : k = Middle(n, v) /\ 16 * v <= k
    BY <1>2 DEF InStep
  <2>4. l <= k
    BY <2>1, <2>2, <2>3, SMT
  <2> QED
    BY <2>2, <2>3, <2>4
<1>5. CASE x < e
  <2>1. 2 * v <= w
    BY <1>1, <1>5, Wider
  <2> QED
    BY <1>1, <2>1, SMT
<1> QED
  BY <1>3, <1>4, <1>5, SMT

(* How a magnitude is heard: at a height that depends on it alone.         *)
Height(m, h) ==
    \E e \in 0..7, w \in Widths : In(m, e, w) /\ h = Middle(m, w) - 132

(* The height h is at most half a step of m's segment away from m.         *)
HalfStep(m, h) ==
    \E e \in 0..7, w \in Widths :
       In(m, e, w) /\ 2 * (m - (h + 132)) <= w /\ 2 * ((h + 132) - m) <= w

(* Every sample is heard at the height of its biased magnitude.            *)
LEMMA Hears ==
    ASSUME NEW s \in Int
    PROVE  \E h \in Nat : /\ Height(Biased(s), h)
                          /\ Heard(s) = IF s < 0 THEN 0 - h ELSE h
                          /\ h <= 32124 /\ (Biased(s) = 32767 => h = 32124)
                          /\ HalfStep(Biased(s), h)
                          /\ Height(h + 132, h)
<1>1. PICK m \in Nat : m = Biased(s) /\ 132 <= m /\ m <= 32767
  BY BiasedIs
<1>2. PICK e \in 0..7, w \in Widths : In(m, e, w)
  <2>1. 128 <= m
    BY <1>1, SMT
  <2> QED
    BY <1>1, <2>1, Inside
<1>3. w \in Nat
  BY SMT DEF Widths
<1>4. PICK l \in Nat : l = Middle(m, w)
  BY <1>2, <1>3, Heights DEF InStep
<1>5. /\ 132 <= l /\ l <= 32256 /\ (m = 32767 => l = 32256)
      /\ In(l, e, w) /\ Middle(l, w) = l /\ 2 * (m - l) <= w /\ 2 * (l - m) <= w
  BY <1>1, <1>2, <1>3, <1>4, Heights DEF InStep
<1>7. PICK h \in Nat : h = l - 132
  BY <1>5, SMT
<1>8. Heard(s) = IF s < 0 THEN -(l - 132) ELSE l - 132
  BY <1>1, <1>2, <1>3, <1>4, HeardIs
<1>9. Heard(s) = IF s < 0 THEN 0 - h ELSE h
  <2>1. -h = 0 - h
    BY SMT
  <2> QED
    BY <1>7, <1>8, <2>1
<1>10. /\ h <= 32124 /\ (m = 32767 => h = 32124) /\ l = h + 132
       /\ 2 * (m - (h + 132)) <= w /\ 2 * ((h + 132) - m) <= w
  BY <1>3, <1>5, <1>7, SMT
<1>a. HalfStep(m, h)
  BY <1>2, <1>10 DEF HalfStep
<1>11. Height(m, h)
  BY <1>2, <1>4, <1>7 DEF Height
<1>12. Height(h + 132, h)
  BY <1>5, <1>7, <1>10 DEF Height
<1> QED
  BY <1>1, <1>9, <1>10, <1>a, <1>11, <1>12

(* Heights rise with the magnitudes. *)
LEMMA HeightRises ==
    ASSUME NEW m \in Nat, NEW h \in Nat, Height(m, h),
           NEW n \in Nat, NEW k \in Nat, Height(n, k), m <= n
    PROVE  h <= k
<1>1. PICK e \in 0..7, w \in Widths : In(m, e, w) /\ h = Middle(m, w) - 132
  BY DEF Height
<1>2. PICK x \in 0..7, v \in Widths : In(n, x, v) /\ k = Middle(n, v) - 132
  BY DEF Height
<1>3. w \in Nat /\ v \in Nat
  BY SMT DEF Widths
<1>4. Middle(m, w) <= Middle(n, v)
  BY <1>1, <1>2, <1>3, MiddleRises
<1>5. PICK a \in Nat : a = Middle(m, w)
  BY <1>1, <1>3, Heights DEF InStep
<1>6. PICK b \in Nat : b = Middle(n, v)
  BY <1>2, <1>3, Heights DEF InStep
<1> QED
  BY <1>1, <1>2, <1>4, <1>5, <1>6, SMT

(* A sample has 16 bits. *)
LEMMA SampleRange == \A x \in Samples : x \in Int /\ -32768 <= x /\ x <= 32767
<1>1. PICK a \in Int : a = -32768
  BY SMT
<1>2. Samples = a..32767
  BY <1>1 DEF Samples
<1>3. \A x \in a..32767 : x \in Int /\ a <= x /\ x <= 32767
  BY SMT
<1>4. \A x \in Samples : x \in Int /\ a <= x /\ x <= 32767
  BY <1>2, <1>3
<1> QED
  BY <1>1, <1>4

(* A sample is heard within half a step of its clipped self, in order, and *)
(* as itself the second time.                                              *)
LEMMA SampleHeard == pcm \in Samples => Companded
<1> SUFFICES ASSUME pcm \in Samples PROVE Companded
  OBVIOUS
<1>2. PICK s \in Int : s = pcm /\ -32768 <= s /\ s <= 32767
  BY SampleRange
<1>3. PICK m \in Nat : m = Biased(s)
  BY BiasedIs
<1>4. PICK h \in Nat : /\ Height(m, h) /\ Heard(s) = IF s < 0 THEN 0 - h ELSE h
                       /\ h <= 32124 /\ (m = 32767 => h = 32124) /\ Height(h + 132, h)
                       /\ HalfStep(m, h)
  BY <1>3, Hears
<1>5. PICK g \in Int : g = Heard(s) /\ g = IF s < 0 THEN 0 - h ELSE h
  BY <1>4, SMT
<1>6. \E e \in 0..7 : /\ 2^(e + 7) <= Magnitude(pcm) + bias
                      /\ 2 * (Magnitude(pcm - Heard(pcm)) - Clipped(pcm)) <= 2^(e + 3)
  <2>1. PICK a \in Nat : a = Magnitude(s) /\ a = IF s < 0 THEN 0 - s ELSE s
    BY BiasedIs
  <2>2. PICK d \in Nat : /\ d = Magnitude(s - g)
                         /\ d = IF s - g < 0 THEN 0 - (s - g) ELSE s - g
    <3>1. s - g \in Int
      OBVIOUS
    <3> QED
      BY <3>1, BiasedIs
  <2>3. a <= 32768
    BY <1>2, <2>1, SMT
  <2>4. (a <= 32635 => m = a + 132) /\ (a > 32635 => m = 32767)
    BY <1>3, <2>1, BiasedIs
  <2>5. d = a - h \/ d = h - a
    BY <1>5, <2>1, <2>2, SMT
  <2>6. PICK e \in 0..7, w \in Widths :
            In(m, e, w) /\ 2 * (m - (h + 132)) <= w /\ 2 * ((h + 132) - m) <= w
    BY <1>4 DEF HalfStep
  <2>7. /\ w \in Nat /\ 16 * w <= m
        /\ 2^(e + 3) = w /\ 2^(e + 7) = 16 * w
    BY <2>6, SMT DEF In, Segment, Widths
  <2>8. PICK c \in Nat : c = Clipped(s) /\ c = IF a > 32635 THEN a - 32635 ELSE 0
    BY <2>1, <2>3, SMT DEF Clipped, clip
  <2>9. 16 * w <= a + 132 /\ 2 * (d - c) <= w
    BY <1>4, <2>3, <2>4, <2>5, <2>6, <2>7, <2>8, SMT
  <2>10. 2^(e + 7) <= Magnitude(pcm) + bias
    BY <1>2, <2>1, <2>7, <2>9 DEF bias
  <2>11. 2 * (Magnitude(pcm - Heard(pcm)) - Clipped(pcm)) <= 2^(e + 3)
    BY <1>2, <1>5, <2>2, <2>7, <2>8, <2>9
  <2> QED
    BY <2>6, <2>10, <2>11
<1>7. Heard(pcm) <= Heard(pcm + 1)
  <2>1. PICK t \in Int : t = s + 1
    OBVIOUS
  <2>2. PICK n \in Nat : n = Biased(t)
    BY BiasedIs
  <2>3. PICK k \in Nat : Height(n, k) /\ Heard(t) = IF t < 0 THEN 0 - k ELSE k
    BY <2>2, Hears
  <2>4. PICK a \in Nat : /\ a = IF s < 0 THEN 0 - s ELSE s
                         /\ (a <= 32635 => m = a + 132) /\ (a > 32635 => m = 32767)
    BY <1>3, BiasedIs
  <2>5. PICK b \in Nat : /\ b = IF t < 0 THEN 0 - t ELSE t
                         /\ (b <= 32635 => n = b + 132) /\ (b > 32635 => n = 32767)
    BY <2>2, BiasedIs
  <2>6. CASE t < 0
    <3>1. s < 0 /\ n <= m
      BY <2>1, <2>4, <2>5, <2>6, SMT
    <3>2. k <= h
      BY <1>4, <2>3, <3>1, HeightRises
    <3> QED
      BY <1>2, <1>4, <2>1, <2>3, <2>6, <3>1, <3>2, SMT
  <2>7. CASE ~ (t < 0) /\ s < 0
    BY <1>2, <1>4, <2>1, <2>3, <2>7, SMT
  <2>8. CASE ~ (t < 0) /\ ~ (s < 0)
    <3>1. m <= n
      BY <2>1, <2>4, <2>5, <2>8, SMT
    <3>2. h <= k
      BY <1>4, <2>3, <3>1, HeightRises
    <3> QED
      BY <1>2, <1>4, <2>1, <2>3, <2>8, <3>2
  <2>9. t < 0 => s < 0
    BY <2>1, SMT
  <2> QED
    BY <2>6, <2>7, <2>8, <2>9
<1>8. Heard(Heard(pcm)) = Heard(pcm)
  <2>1. PICK n \in Nat : n = Biased(g)
    BY BiasedIs
  <2>2. PICK k \in Nat : Height(n, k) /\ Heard(g) = IF g < 0 THEN 0 - k ELSE k
    BY <2>1, Hears
  <2>3. PICK b \in Nat : b = IF g < 0 THEN 0 - g ELSE g
    BY SMT
  <2>4. b <= 32635 => n = b + 132
    BY <2>1, <2>3, BiasedIs
  <2>5. b = h
    BY <1>5, <2>3, SMT
  <2>6. n = h + 132
    BY <1>4, <2>4, <2>5, SMT
  <2>7. k <= h /\ h <= k
    <3>1. h + 132 \in Nat /\ h + 132 <= h + 132
      BY SMT
    <3> QED
      BY <1>4, <2>2, <2>6, <3>1, HeightRises
  <2>8. k = h
    BY <2>7, SMT
  <2>9. Heard(g) = g
    BY <1>5, <2>2, <2>8, SMT
  <2> QED
    BY <1>2, <1>5, <2>9
<1> QED
  BY <1>6, <1>7, <1>8 DEF Companded

(***************************************************************************)
(* The composition takes no step that one of the components would not take *)
(* alone, so that what is proved of each of them holds of it.              *)
(***************************************************************************)

(* The steps of the composition, seen by each component. *)
LEMMA StepsAreTheirs ==
    ASSUME [StandaloneNext]_standaloneVars
    PROVE  /\ [LimiterNext]_limiterVars
           /\ [UpdatesNext]_updatesVars
           /\ [VaultNext]_vaultVars
           /\ [KeysNext]_keysVars
           /\ [ContactsNext]_contactsVars
           /\ [CallsNext]_callsVars
<1>1. CASE UNCHANGED standaloneVars
  BY <1>1 DEF standaloneVars
<1>2. CASE StandaloneNext
  BY <1>2, Zenon DEF StandaloneNext
<1> QED
  BY <1>1, <1>2

(* Each component behaves as its own specification says. *)
THEOREM ComponentsImplemented ==
    StandaloneSpec => /\ LimiterSpec /\ UpdatesSpec /\ VaultSpec
                      /\ KeysSpec /\ ContactsSpec /\ CallsSpec
<1>1. StandaloneInit => /\ LimiterInit /\ UpdatesInit /\ VaultInit
                        /\ KeysInit /\ ContactsInit /\ CallsInit
  BY DEF StandaloneInit
<1> QED
  BY <1>1, StepsAreTheirs, PTL
  DEF StandaloneSpec, LimiterSpec, UpdatesSpec, VaultSpec, KeysSpec, ContactsSpec, CallsSpec

(* What each component promises holds in the composition that is           *)
(* model-checked: the rate of an address, whole releases, the rows of a    *)
(* clean run, pinned keys that open what is sent, contacts that follow     *)
(* the changes, and whole files.                                           *)
THEOREM StandaloneSafe ==
    StandaloneSpec => [](/\ RateHolds /\ InstalledWhole /\ CleanRunsKept
                         /\ CacheIsPinned /\ Readable /\ ContactsFollow /\ WholeFiles)
BY ComponentsImplemented, RateHoldsAlways, InstalledIsWhole, CleanRunsAreKept,
   CacheIsPinnedAlways, FirstPairsReadable, ContactsAgree, FilesAreWhole, PTL

(* What the composition adds: the component that moves, and the sample.    *)
Moves ==
    /\ moving \in {"limiter", "updates", "vault", "keys", "contacts", "calls", "codec"}
    /\ pcm \in Samples

LEMMA MovesAlways == StandaloneSpec => []Moves
<1>1. StandaloneInit => Moves
  BY SMT DEF StandaloneInit, PcmuInit, Moves, Samples
<1>2. Moves /\ [StandaloneNext]_standaloneVars => Moves'
  <2> SUFFICES ASSUME Moves, [StandaloneNext]_standaloneVars PROVE Moves'
    OBVIOUS
  <2>1. CASE UNCHANGED standaloneVars
    BY <2>1 DEF standaloneVars, Moves
  <2>2. CASE StandaloneNext
    <3>1. moving' = moving
      BY <2>2, Zenon DEF StandaloneNext
    <3>2. pcm' = pcm \/ Speak
      BY <2>2, Zenon DEF StandaloneNext
    <3>3. pcm' \in Samples
      BY <3>2, Zenon DEF Moves, Speak
    <3> QED
      BY <3>1, <3>3, Zenon DEF Moves
  <2> QED
    BY <2>1, <2>2
<1> QED
  BY <1>1, <1>2, PTL DEF StandaloneSpec

(* Whatever sample of a call's audio is coded, it is heard within half a   *)
(* step of its segment, in order with its neighbour, and unchanged by a    *)
(* second pass through the codec.                                          *)
THEOREM SamplesAreHeard == StandaloneSpec => []Companded
<1>1. Moves => Companded
  BY SampleHeard DEF Moves
<1> QED
  BY MovesAlways, <1>1, PTL

(* The variables of every component have their types, and so do those of   *)
(* the one that moves.                                                     *)
THEOREM StandaloneTyping == StandaloneSpec => []StandaloneTypeOK
<1>1. /\ LimiterTypeOK /\ UpdatesInv /\ VaultInv /\ KeysTypeOK /\ ContactsTypeOK
      /\ CallsInv /\ Moves
      => StandaloneTypeOK
  <2> SUFFICES ASSUME LimiterTypeOK, UpdatesInv, VaultInv, KeysTypeOK, ContactsTypeOK,
                      CallsInv, Moves
               PROVE  StandaloneTypeOK
    OBVIOUS
  <2>1. UpdatesTypeOK
    BY DEF UpdatesInv, UpdatesTyped
  <2>2. VaultTypeOK
    BY DEF VaultInv
  <2>3. CallsTypeOK
    BY DEF CallsInv, CallsTyped
  <2> QED
    BY <2>1, <2>2, <2>3 DEF StandaloneTypeOK, Moves
<1> QED
  BY <1>1, ComponentsImplemented, TableBounded, UpdatesInvariant, VaultInvariant,
     KeysTyping, ContactsTyping, CallsInvariant, MovesAlways, PTL
===============================================================================
