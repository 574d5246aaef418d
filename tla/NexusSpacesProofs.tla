--------------------------- MODULE NexusSpacesProofs ---------------------------
(***************************************************************************)
(* Proofs about a space and the browsers that show it, for any number of   *)
(* users, channels and messages and any page size.                         *)
(***************************************************************************)
EXTENDS NexusSpaces, FiniteSetTheorems, SequenceTheorems, WellFoundedInduction, TLAPS

(***************************************************************************)
(* The inductive invariant.                                                *)
(***************************************************************************)

(* The handler of v has stored message i and has not sent it yet. *)
Holds(v, i) == handler[v].at \in {"stored", "fanout"} /\ handler[v].id = i

(* Message i is on its way to u, behind the first k frames of its inbox. *)
Coming(u, i, k) ==
    \/ \E v \in Users : Holds(v, i)
    \/ \E p \in DOMAIN inbox[u] : p > k /\ inbox[u][p].t = "msg" /\ inbox[u][p].id = i

(* Message i, which u is owed, is in the page or older than it. *)
Accounts(page, i) == i \in ToSet(page) \/ i < page[1]

Owed(u, i, ch) == i \in Rows \ excused[u] /\ msgs[i].ch = ch

(* A live message comes with the channel of its row. *)
FrameFits(f) == f.t = "msg" => f.ch = msgs[f.id].ch

FramesFit == \A u \in Users : \A p \in DOMAIN inbox[u] : FrameFits(inbox[u][p])

(* No page has a message twice, and nor has the screen. *)
PageOnce(f) == f.t = "history" => IsInjective(f.page)

PagesOnce ==
    \A u \in Users :
        /\ handler[u].at = "answer" => IsInjective(handler[u].page)
        /\ \A p \in DOMAIN inbox[u] : PageOnce(inbox[u][p])

(* What is owed is shown or on its way. *)
NothingLost ==
    \A u \in Users, ch \in Channels, i \in Rows :
        Owed(u, i, ch) => Coming(u, i, 0) \/ i \in ToSet(log[u][ch])

(* A page has what is owed from its first message on, but for what comes   *)
(* behind it.                                                              *)
PagesWhole ==
    \A u \in Users : \A p \in DOMAIN inbox[u], i \in Rows :
        /\ inbox[u][p].t = "history" /\ inbox[u][p].page # <<>>
        /\ Owed(u, i, inbox[u][p].ch)
        => Accounts(inbox[u][p].page, i) \/ Coming(u, i, p)

AnswersWhole ==
    \A u \in Users, i \in Rows :
        /\ handler[u].at = "answer" /\ handler[u].page # <<>>
        /\ Owed(u, i, handler[u].ch)
        => Accounts(handler[u].page, i) \/ \E v \in Users : Holds(v, i)

SpaceInv ==
    /\ TypeOK /\ OwnerStays /\ FramesFit
    /\ ShownOnce /\ PagesOnce
    /\ NothingLost /\ PagesWhole /\ AnswersWhole

(***************************************************************************)
(* Lemmas about pages.                                                     *)
(***************************************************************************)

(* A set of numbers that is not empty has a smallest one. *)
LEMMA SmallestId ==
    ASSUME NEW S \in SUBSET Nat, S # {}
    PROVE  \E x \in S : \A y \in S : x <= y
<1>1. PICK x \in S : \A y \in S : ~ (<<y, x>> \in OpToRel(<, Nat))
  BY NatLessThanWellFounded, WFMin
<1>2. \A y \in S : <<y, x>> \in Nat \X Nat
  OBVIOUS
<1>3. \A y \in S : ~ (y < x)
  BY <1>1, <1>2, Zenon DEF OpToRel
<1> QED
  BY <1>3, SMT

(* Sets of ids are finite. *)
LEMMA IdsFinite ==
    ASSUME NEW m \in Nat, NEW S \in SUBSET (1..m)
    PROVE  IsFiniteSet(S)
<1>1. 1 \in Int /\ m \in Int
  OBVIOUS
<1>2. IsFiniteSet(1..m)
  BY <1>1, FS_Interval
<1> QED
  BY <1>2, FS_Subset

(* The ids of S in ascending order. *)
Lists(s, S) ==
    /\ s \in [1..Cardinality(S) -> S]
    /\ \A i, j \in DOMAIN s : i < j => s[i] < s[j]

(* Every set of ids up to m can be listed. *)
Listed(m) == \A S \in SUBSET (1..m) : \E s : Lists(s, S)

(* Ascending lists sets of up to m elements: by induction on m. *)
LEMMA NoneListed == Listed(0)
<1> SUFFICES ASSUME NEW S \in SUBSET (1..0) PROVE \E s : Lists(s, S)
  BY DEF Listed
<1>1. S = {}
  BY SMT
<1>2. Cardinality(S) = 0
  BY <1>1, FS_EmptySet
<1>3. Lists(<<>>, S)
  BY <1>1, <1>2 DEF Lists
<1> QED
  BY <1>3

LEMMA OneMoreListed ==
    ASSUME NEW m \in Nat, Listed(m)
    PROVE  Listed(m + 1)
<1> SUFFICES ASSUME NEW S \in SUBSET (1..(m + 1)) PROVE \E s : Lists(s, S)
  BY DEF Listed
<1>1. CASE m + 1 \notin S
  <2>1. S \in SUBSET (1..m)
    BY <1>1, SMT
  <2> QED
    BY <2>1 DEF Listed
<1>2. CASE m + 1 \in S
  <2> DEFINE R == S \ {m + 1}
  <2>1. R \in SUBSET (1..m)
    BY SMT
  <2>2. PICK r : Lists(r, R)
    BY <2>1 DEF Listed
  <2>3. IsFiniteSet(S)
    <3>1. PICK l \in Nat : l = m + 1
      BY SMT
    <3> QED
      BY <3>1, IdsFinite
  <2>4. Cardinality(S) \in Nat /\ Cardinality(R) = Cardinality(S) - 1 /\ Cardinality(R) \in Nat
    <3>1. IsFiniteSet(R) /\ Cardinality(R) = Cardinality(S) - 1
      BY <1>2, <2>3, FS_RemoveElement
    <3> QED
      BY <2>3, <3>1, FS_CardinalityType
  <2>5. PICK n \in Nat : Cardinality(R) = n /\ Cardinality(S) = n + 1
    BY <2>4, SMT
  <2> DEFINE s == [k \in 1..(n + 1) |-> IF k = n + 1 THEN m + 1 ELSE r[k]]
  <2>6. \A k \in 1..n : r[k] \in R
    BY <2>2, <2>5 DEF Lists
  <2>7. \A i, j \in 1..n : i < j => r[i] < r[j]
    BY <2>2, <2>5 DEF Lists
  <2>8. s \in [1..(n + 1) -> S]
    BY <1>2, <2>6, SMT
  <2>9. ASSUME NEW i \in 1..(n + 1), NEW j \in 1..(n + 1), i < j
        PROVE  s[i] < s[j]
    <3> HIDE DEF R
    <3>1. i \in 1..n /\ s[i] = r[i]
      BY <2>9, SMT
    <3>2. CASE j = n + 1
      <4>1. r[i] \in 1..m
        BY <2>1, <2>6, <3>1
      <4>2. s[j] = m + 1
        BY <3>2
      <4> QED
        BY <3>1, <4>1, <4>2, SMT
    <3>3. CASE j # n + 1
      <4>1. j \in 1..n /\ s[j] = r[j]
        BY <3>3, SMT
      <4> QED
        BY <2>7, <2>9, <3>1, <4>1
    <3> QED
      BY <3>2, <3>3
  <2>10. Lists(s, S)
    <3>1. DOMAIN s = 1..(n + 1)
      OBVIOUS
    <3> HIDE DEF s
    <3> QED
      BY <2>5, <2>8, <2>9, <3>1 DEF Lists
  <2> QED
    BY <2>10
<1> QED
  BY <1>1, <1>2

LEMMA AllListed == \A m \in Nat : Listed(m)
<1> DEFINE Bad == {m \in Nat : ~ Listed(m)}
<1> SUFFICES ASSUME Bad # {} PROVE FALSE
  OBVIOUS
<1>1. PICK m \in Bad : \A y \in Bad : m <= y
  BY SmallestId
<1>2. m \in Nat /\ ~ Listed(m)
  OBVIOUS
<1>3. m # 0
  BY <1>2, NoneListed
<1>4. PICK k \in Nat : m = k + 1
  BY <1>2, <1>3, SMT
<1>5. Listed(k)
  BY <1>1, <1>4, SMT
<1> QED
  BY <1>2, <1>4, <1>5, OneMoreListed

(* The list of a set of ids has each of them once, the least one first. *)
LEMMA AscendingIs ==
    ASSUME NEW m \in Nat, NEW S \in SUBSET (1..m)
    PROVE  /\ Ascending(S) \in Seq(S)
           /\ IsInjective(Ascending(S))
           /\ ToSet(Ascending(S)) = S
           /\ Ascending(S) # <<>> => \A i \in S : Ascending(S)[1] <= i
<1> DEFINE s == Ascending(S)
<1>1. Lists(s, S)
  <2>1. \E t : Lists(t, S)
    BY AllListed DEF Listed
  <2> QED
    BY <2>1 DEF Lists, Ascending
<1>2. IsFiniteSet(S)
  BY IdsFinite
<1>3. PICK n \in Nat : Cardinality(S) = n
  BY <1>2, FS_CardinalityType
<1> HIDE DEF s
<1>4. s \in [1..n -> S] /\ DOMAIN s = 1..n
  BY <1>1, <1>3 DEF Lists
<1>5. \A i, j \in 1..n : i < j => s[i] < s[j]
  BY <1>1, <1>4 DEF Lists
<1>6. s \in Seq(S) /\ Len(s) = n
  BY <1>4, SMT
<1>7. \A i \in 1..n : s[i] \in Int
  <2>1. \A i \in 1..n : s[i] \in S
    BY <1>4
  <2>2. \A x \in S : x \in Int
    BY SMT
  <2> QED
    BY <2>1, <2>2
<1>8. \A i, j \in 1..n : s[i] = s[j] => i = j
  <2> SUFFICES ASSUME NEW i \in 1..n, NEW j \in 1..n, s[i] = s[j], i # j PROVE FALSE
    OBVIOUS
  <2>1. i < j \/ j < i
    BY SMT
  <2>2. s[i] < s[j] \/ s[j] < s[i]
    BY <1>5, <2>1
  <2> QED
    BY <1>7, <2>2, SMT
<1>9. IsInjective(s)
  BY <1>4, <1>8 DEF IsInjective
<1>10. IsFiniteSet(1..n) /\ Cardinality(1..n) = n
  BY FS_Interval, SMT
<1>11. s \in Injection(1..n, S)
  BY <1>4, <1>9 DEF Injection
<1>12. s \in Surjection(1..n, S)
  BY <1>2, <1>3, <1>10, <1>11, FS_Injection
<1>13. \A i \in S : \E k \in 1..n : s[k] = i
  BY <1>4, <1>12 DEF Surjection
<1>14. ToSet(s) = S
  BY <1>4, <1>13 DEF ToSet
<1>15. ASSUME s # <<>>, NEW i \in S PROVE s[1] <= i
  <2>1. PICK k \in 1..n : s[k] = i
    BY <1>13
  <2>2. 1 \in 1..n
    BY <2>1, SMT
  <2>3. CASE k = 1
    BY <1>7, <2>1, <2>3, SMT
  <2>4. CASE k # 1
    <3>1. 1 < k
      BY <2>4, SMT
    <3>2. s[1] < s[k]
      BY <1>5, <2>2, <3>1
    <3> QED
      BY <1>7, <2>1, <2>2, <3>2, SMT
  <2> QED
    BY <2>3, <2>4
<1> QED
  BY <1>6, <1>9, <1>14, <1>15 DEF s

(* The list rises, so nothing is in it twice. *)
LEMMA AscendingRises ==
    ASSUME NEW m \in Nat, NEW S \in SUBSET (1..m)
    PROVE  \A i, j \in DOMAIN Ascending(S) : i < j => Ascending(S)[i] < Ascending(S)[j]
<1>1. \E t : Lists(t, S)
  BY AllListed DEF Listed
<1> QED
  BY <1>1 DEF Lists, Ascending

(* Ascending lists of the same ids agree: at the first place where they    *)
(* do not, the smaller of the two ids would be nowhere in the other list.  *)
RisesOver(t, n, S) ==
    /\ t \in [1..n -> S]
    /\ \A i, j \in 1..n : i < j => t[i] < t[j]
    /\ \A x \in S : \E j \in 1..n : t[j] = x

Agree(s, t, n, k) == \A i \in 1..n : i < k => s[i] = t[i]

LEMMA AscendingAgree ==
    ASSUME NEW n \in Nat, NEW S \in SUBSET Nat, NEW k \in 1..n,
           NEW s, RisesOver(s, n, S), NEW t, RisesOver(t, n, S), Agree(s, t, n, k)
    PROVE  ~ (s[k] < t[k])
<1> SUFFICES ASSUME s[k] < t[k] PROVE FALSE
  OBVIOUS
<1> USE DEF RisesOver, Agree
<1>1. PICK j \in 1..n : t[j] = s[k]
  OBVIOUS
<1>2. \A i \in 1..n : s[i] \in Nat /\ t[i] \in Nat
  OBVIOUS
<1>3. j < k \/ j = k \/ k < j
  BY SMT
<1>4. CASE j < k
  <2>1. s[j] = t[j] /\ s[j] < s[k]
    BY <1>4
  <2> QED
    BY <1>1, <1>2, <2>1, SMT
<1>5. CASE j = k
  BY <1>1, <1>2, <1>5, SMT
<1>6. CASE k < j
  <2>1. t[k] < t[j]
    BY <1>6
  <2> QED
    BY <1>1, <1>2, <2>1, SMT
<1> QED
  BY <1>3, <1>4, <1>5, <1>6

LEMMA ListsOnto ==
    ASSUME NEW m \in Nat, NEW S \in SUBSET (1..m), NEW s, Lists(s, S)
    PROVE  \A x \in S : \E j \in 1..Cardinality(S) : s[j] = x
<1>1. IsFiniteSet(S)
  BY IdsFinite
<1>2. PICK n \in Nat : Cardinality(S) = n
  BY <1>1, FS_CardinalityType
<1>3. s \in [1..n -> S] /\ \A i, j \in 1..n : i < j => s[i] < s[j]
  BY <1>2 DEF Lists
<1>4. \A i \in 1..n : s[i] \in Int
  <2>1. \A x \in S : x \in Int
    BY SMT
  <2> QED
    BY <1>3, <2>1
<1>5. ASSUME NEW i \in 1..n, NEW j \in 1..n, s[i] = s[j] PROVE i = j
  <2>1. i < j \/ i = j \/ j < i
    BY SMT
  <2>2. i < j => s[i] < s[j]
    BY <1>3
  <2>3. j < i => s[j] < s[i]
    BY <1>3
  <2> QED
    BY <1>4, <1>5, <2>1, <2>2, <2>3, SMT
<1>6. s \in Injection(1..n, S)
  BY <1>3, <1>5 DEF Injection, IsInjective
<1>7. IsFiniteSet(1..n) /\ Cardinality(1..n) = n
  BY FS_Interval, SMT
<1>8. s \in Surjection(1..n, S)
  BY <1>1, <1>2, <1>6, <1>7, FS_Injection
<1> QED
  BY <1>2, <1>8 DEF Surjection

(* There is one ascending list of a set of ids. *)
LEMMA ListsOnce ==
    ASSUME NEW m \in Nat, NEW S \in SUBSET (1..m), NEW s, Lists(s, S)
    PROVE  Ascending(S) = s
<1> DEFINE t == Ascending(S)
<1>1. Lists(t, S)
  <2>1. \E r : Lists(r, S)
    OBVIOUS
  <2> QED
    BY <2>1 DEF Lists, Ascending
<1> HIDE DEF t
<1>2. IsFiniteSet(S)
  BY IdsFinite
<1>3. PICK n \in Nat : Cardinality(S) = n
  BY <1>2, FS_CardinalityType
<1>4. /\ s \in [1..n -> S] /\ \A i, j \in 1..n : i < j => s[i] < s[j]
      /\ t \in [1..n -> S] /\ \A i, j \in 1..n : i < j => t[i] < t[j]
  BY <1>1, <1>3 DEF Lists
<1>5. /\ \A x \in S : \E j \in 1..n : s[j] = x
      /\ \A x \in S : \E j \in 1..n : t[j] = x
  BY <1>1, <1>3, ListsOnto
<1>6. S \in SUBSET Nat
  BY SMT
<1> DEFINE Bad == {k \in 1..n : s[k] # t[k]}
<1>7. Bad = {}
  <2> SUFFICES ASSUME Bad # {} PROVE FALSE
    OBVIOUS
  <2>1. Bad \in SUBSET Nat
    BY SMT
  <2>2. PICK k \in Bad : \A y \in Bad : k <= y
    BY <2>1, SmallestId
  <2>3. k \in 1..n /\ s[k] # t[k]
    BY <2>2
  <2>4. ASSUME NEW i \in 1..n, i < k PROVE s[i] = t[i]
    BY <2>2, <2>4, SMT
  <2>5. Agree(s, t, n, k) /\ Agree(t, s, n, k)
    BY <2>4 DEF Agree
  <2>6. RisesOver(s, n, S) /\ RisesOver(t, n, S)
    BY <1>4, <1>5 DEF RisesOver
  <2> HIDE DEF Bad
  <2>8. ~ (s[k] < t[k]) /\ ~ (t[k] < s[k])
    BY <1>6, <2>3, <2>5, <2>6, AscendingAgree
  <2>7. s[k] \in Nat /\ t[k] \in Nat
    BY <1>4, <1>6, <2>3
  <2> QED
    BY <2>3, <2>7, <2>8, SMT
<1>8. \A k \in 1..n : s[k] = t[k]
  BY <1>7
<1>9. s = t
  BY <1>4, <1>8
<1> QED
  BY <1>9 DEF t

(* Older ids before newer ones. *)
LEMMA AscendingJoins ==
    ASSUME NEW m \in Nat, NEW L \in SUBSET (1..m), NEW H \in SUBSET (1..m),
           \A a \in L, b \in H : a < b
    PROVE  Ascending(L \cup H) = Ascending(L) \o Ascending(H)
<1> DEFINE l == Ascending(L)
           h == Ascending(H)
           s == l \o h
<1>1. Lists(l, L) /\ Lists(h, H)
  <2>1. (\E r : Lists(r, L)) /\ (\E r : Lists(r, H))
    BY AllListed DEF Listed
  <2> QED
    BY <2>1 DEF Lists, Ascending
<1> HIDE DEF l, h
<1>2. IsFiniteSet(L) /\ IsFiniteSet(H)
  BY IdsFinite
<1>3. PICK p \in Nat : Cardinality(L) = p
  BY <1>2, FS_CardinalityType
<1>4. PICK q \in Nat : Cardinality(H) = q
  BY <1>2, FS_CardinalityType
<1>5. L \cap H = {}
  BY SMT
<1>6. Cardinality(L \cup H) = p + q
  <2>1. Cardinality(L \cup H) = Cardinality(L) + Cardinality(H) - Cardinality(L \cap H)
    BY <1>2, FS_Union
  <2>2. Cardinality(L \cap H) = 0
    BY <1>5, FS_EmptySet
  <2> QED
    BY <1>3, <1>4, <2>1, <2>2, SMT
<1>7. /\ l \in [1..p -> L] /\ \A i, j \in 1..p : i < j => l[i] < l[j]
      /\ h \in [1..q -> H] /\ \A i, j \in 1..q : i < j => h[i] < h[j]
  BY <1>1, <1>3, <1>4 DEF Lists
<1>8. l \in Seq(L) /\ h \in Seq(H) /\ Len(l) = p /\ Len(h) = q
  BY <1>7, SMT
<1>9. l \in Seq(L \cup H) /\ h \in Seq(L \cup H)
  BY <1>8, SMT
<1>10. s \in Seq(L \cup H) /\ Len(s) = p + q
  BY <1>8, <1>9, ConcatProperties
<1>11. \A i \in 1..(p + q) : s[i] = IF i <= p THEN l[i] ELSE h[i - p]
  BY <1>8, <1>9, ConcatProperties
<1>12. s \in [1..(p + q) -> L \cup H]
  <2> HIDE DEF s
  <2> QED
    BY <1>10, LenProperties
<1> HIDE DEF s
<1>13. ASSUME NEW i \in 1..(p + q), NEW j \in 1..(p + q), i < j PROVE s[i] < s[j]
  <2>1. CASE j <= p
    <3>1. i \in 1..p /\ j \in 1..p /\ s[i] = l[i] /\ s[j] = l[j]
      BY <1>11, <1>13, <2>1, SMT
    <3> QED
      BY <1>7, <1>13, <3>1
  <2>2. CASE i <= p /\ ~ (j <= p)
    <3>1. i \in 1..p /\ j - p \in 1..q
      BY <2>2, SMT
    <3>2. s[i] = l[i] /\ s[j] = h[j - p]
      BY <1>11, <2>2
    <3>3. l[i] \in L /\ h[j - p] \in H
      BY <1>7, <3>1
    <3> QED
      BY <3>2, <3>3
  <2>3. CASE ~ (i <= p)
    <3>1. i - p \in 1..q /\ j - p \in 1..q /\ i - p < j - p /\ ~ (j <= p)
      BY <1>13, <2>3, SMT
    <3>2. s[i] = h[i - p] /\ s[j] = h[j - p]
      BY <1>11, <2>3, <3>1
    <3> QED
      BY <1>7, <3>1, <3>2
  <2> QED
    BY <2>1, <2>2, <2>3
<1>14. Lists(s, L \cup H)
  <2>1. DOMAIN s = 1..(p + q)
    BY <1>12
  <2> QED
    BY <1>6, <1>12, <1>13, <2>1 DEF Lists
<1> QED
  BY <1>14, ListsOnce DEF s, l, h

(* What is newer than one of the newest rows is one of them. *)
LEMMA NewestAbove ==
    ASSUME NEW m \in Nat, NEW S \in SUBSET (1..m),
           NEW i \in Newest(S), NEW j \in S, i < j
    PROVE  j \in Newest(S)
<1> DEFINE A == {k \in S : k > i}
           B == {k \in S : k > j}
<1>1. IsFiniteSet(S)
  BY IdsFinite
<1>2. A \in SUBSET S /\ IsFiniteSet(A)
  BY <1>1, FS_Subset
<1>3. i \in S /\ Cardinality(A) < Limit
  BY DEF Newest
<1>4. B \in SUBSET A
  <2>1. i \in Int /\ \A k \in S : k \in Int
    BY <1>3, SMT
  <2>2. \A k \in S : k > j => k > i
    BY <2>1, SMT
  <2> QED
    BY <2>2
<1>5. Cardinality(B) <= Cardinality(A) /\ Cardinality(A) \in Nat /\ Cardinality(B) \in Nat
  <2>1. IsFiniteSet(B) /\ Cardinality(B) <= Cardinality(A)
    BY <1>2, <1>4, FS_Subset
  <2> QED
    BY <1>2, <2>1, FS_CardinalityType
<1>6. Cardinality(B) < Limit
  <2> HIDE DEF A, B
  <2>1. Limit \in Nat
    BY SpaceAssumption DEF SpaceAssumption
  <2> QED
    BY <1>3, <1>5, <2>1, SMT
<1> QED
  BY <1>6 DEF Newest

(* There are newest rows when there are rows. *)
LEMMA NewestSome ==
    ASSUME NEW m \in Nat, NEW S \in SUBSET (1..m), S # {}
    PROVE  Newest(S) # {}
<1> DEFINE Above == {n \in Nat : \A i \in S : i <= n}
<1>1. m \in Above
  BY SMT
<1>2. PICK n \in Above : \A k \in Above : n <= k
  BY <1>1, SmallestId
<1>3. n \in S
  <2>1. n \in Nat /\ \A i \in S : i \in Nat /\ i > 0 /\ i <= n
    BY <1>2, SMT
  <2>2. n > 0
    <3>1. PICK x : x \in S
      OBVIOUS
    <3>2. x \in Nat /\ x > 0 /\ x <= n
      BY <2>1, <3>1
    <3> QED
      BY <2>1, <3>2, SMT
  <2>3. PICK k \in Nat : n = k + 1
    BY <2>1, <2>2, SMT
  <2>4. k \notin Above
    BY <1>2, <2>3, SMT
  <2>5. PICK i \in S : ~ (i <= k)
    BY <2>4
  <2>6. i = n
    BY <2>1, <2>3, <2>5, SMT
  <2> QED
    BY <2>6
<1>4. {j \in S : j > n} = {}
  <2>1. \A j \in S : j \in Nat /\ n \in Nat /\ j <= n
    BY <1>2, SMT
  <2>2. \A j \in S : ~ (j > n)
    BY <2>1, SMT
  <2> QED
    BY <2>2
<1>5. Cardinality({j \in S : j > n}) < Limit
  <2>1. 0 < Limit
    BY SpaceAssumption, SMT DEF SpaceAssumption
  <2> QED
    BY <1>4, <2>1, FS_EmptySet
<1> QED
  BY <1>3, <1>5 DEF Newest

(* A page of history has no message twice, and every message of the        *)
(* channel from its first one on.                                          *)
LEMMA PageIs ==
    ASSUME TypeOK, NEW ch \in Channels
    PROVE  /\ channelHistory(ch, 0) \in Seq(Rows)
           /\ IsInjective(channelHistory(ch, 0))
           /\ channelHistory(ch, 0) # <<>> =>
                 \A i \in Rows : msgs[i].ch = ch => Accounts(channelHistory(ch, 0), i)
<1> DEFINE S == RowIds(ch, 0)
           page == channelHistory(ch, 0)
<1>1. PICK m \in Nat : Rows = 1..m
  <2>1. msgs \in Seq([ch : Channels, by : Users])
    BY DEF TypeOK
  <2> QED
    BY <2>1, LenProperties DEF Rows
<1>2. S \in SUBSET (1..m) /\ S \subseteq Rows /\ \A i \in Rows : msgs[i].ch = ch => i \in S
  BY <1>1 DEF RowIds, Rows
<1>3. Newest(S) \in SUBSET (1..m) /\ Newest(S) \subseteq S
  BY <1>2 DEF Newest
<1>4. page = Ascending(Newest(S))
  BY DEF channelHistory
<1> HIDE DEF S, page
<1>5. /\ page \in Seq(Newest(S)) /\ IsInjective(page) /\ ToSet(page) = Newest(S)
      /\ page # <<>> => \A i \in Newest(S) : page[1] <= i
  BY <1>3, <1>4, AscendingIs
<1>6. page \in Seq(Rows)
  BY <1>2, <1>3, <1>5, SeqMonotonic
<1>7. ASSUME page # <<>>, NEW i \in Rows, msgs[i].ch = ch PROVE Accounts(page, i)
  <2>1. i \in S /\ i \in Int
    BY <1>1, <1>2, <1>7, SMT
  <2>2. page[1] \in Newest(S)
    BY <1>5, <1>7, ElementOfSeq, LenProperties, EmptySeq, SMT
  <2>3. page[1] \in Int
    BY <1>3, <2>2, SMT
  <2>4. CASE i \in Newest(S)
    BY <1>5, <2>4 DEF Accounts
  <2>5. CASE i \notin Newest(S)
    <3>1. ~ (page[1] < i)
      BY <1>2, <2>1, <2>2, <2>5, NewestAbove
    <3>2. page[1] # i
      BY <2>2, <2>5
    <3> QED
      BY <2>1, <2>3, <3>1, <3>2, SMT DEF Accounts
  <2> QED
    BY <2>4, <2>5
<1> QED
  BY <1>5, <1>6, <1>7 DEF page

(***************************************************************************)
(* Lemmas about frames and handlers.                                       *)
(***************************************************************************)

(* Frames, by their kinds. *)
LEMMA FrameKinds ==
    ASSUME NEW f \in Frames
    PROVE  /\ f.ch \in Channels
           /\ f.t = "msg" \/ f.t = "history"
           /\ f.t = "msg" => f.id \in Rows
           /\ f.t = "history" => f.page \in Seq(Rows)
<1>1. CASE f \in [t : {"msg"}, ch : Channels, id : Rows]
  BY <1>1
<1>2. CASE f \in [t : {"history"}, ch : Channels, page : Seq(Rows)]
  BY <1>2
<1> QED
  BY <1>1, <1>2 DEF Frames

LEMMA HandlerKinds ==
    ASSUME NEW h \in Handlers
    PROVE  /\ h.at \in {"idle", "stored", "fanout", "answer"}
           /\ h.at \in {"stored", "fanout"} => h.id \in Rows
           /\ h.at = "fanout" => h.to \in SUBSET Users
           /\ h.at = "answer" => h.ch \in Channels /\ h.page \in Seq(Rows)
<1>1. CASE h \in [at : {"idle"}]
  BY <1>1
<1>2. CASE h \in [at : {"stored"}, id : Rows]
  BY <1>2
<1>3. CASE h \in [at : {"fanout"}, id : Rows, to : SUBSET Users]
  BY <1>3
<1>4. CASE h \in [at : {"answer"}, ch : Channels, page : Seq(Rows)]
  BY <1>4
<1> QED
  BY <1>1, <1>2, <1>3, <1>4 DEF Handlers

LEMMA IdleIs == Idle \in Handlers /\ Idle.at = "idle"
BY DEF Idle, Handlers

(* The frames of an inbox are frames. *)
LEMMA FramesAre ==
    ASSUME NEW ch \in Channels
    PROVE  /\ \A i \in Rows : [t |-> "msg", ch |-> ch, id |-> i] \in Frames
           /\ \A q \in Seq(Rows) : [t |-> "history", ch |-> ch, page |-> q] \in Frames
BY DEF Frames

(* Rows that are there stay there, with the frames and handlers that hold  *)
(* their ids.                                                              *)
LEMMA RowsGrow ==
    ASSUME Rows \subseteq Rows'
    PROVE  /\ Seq(Rows) \subseteq Seq(Rows') /\ SUBSET Rows \subseteq SUBSET Rows'
           /\ Handlers \subseteq Handlers' /\ Frames \subseteq Frames'
           /\ Seq(Frames) \subseteq Seq(Frames')
<1>1. Seq(Rows) \subseteq Seq(Rows') /\ SUBSET Rows \subseteq SUBSET Rows'
  BY SeqMonotonic
<1>2. Handlers \subseteq Handlers'
  BY <1>1 DEF Handlers
<1>3. Frames \subseteq Frames'
  BY <1>1 DEF Frames
<1> QED
  BY <1>1, <1>2, <1>3, SeqMonotonic

(* What most steps need of the types. *)
LEMMA TypeParts ==
    ASSUME TypeOK, NEW u \in Users
    PROVE  /\ handler[u] \in Handlers
           /\ inbox[u] \in Seq(Frames)
           /\ outbox[u] \in Seq(Requests)
           /\ \A ch \in Channels : log[u][ch] \in Seq(Rows)
           /\ excused[u] \in SUBSET Rows
           /\ active[u] \in Channels \cup {None}
BY DEF TypeOK

(* The row with an id. *)
LEMMA RowIs ==
    ASSUME TypeOK, NEW i \in Rows
    PROVE  msgs[i].ch \in Channels
<1>1. msgs[i] \in [ch : Channels, by : Users]
  <2>1. msgs \in Seq([ch : Channels, by : Users])
    BY DEF TypeOK
  <2>2. i \in 1..Len(msgs)
    BY <2>1, LenProperties DEF Rows
  <2> QED
    BY <2>1, <2>2, ElementOfSeq
<1> QED
  BY <1>1

(* The effect asks for the history of the open channel, if at all. *)
LEMMA EffectTyped ==
    ASSUME TypeOK, NEW u \in Users, active' \in [Users -> Channels \cup {None}], Effect(u)
    PROVE  outbox' \in [Users -> Seq(Requests)]
<1>1. outbox \in [Users -> Seq(Requests)]
  BY DEF TypeOK
<1> DEFINE r == [t |-> "history", ch |-> active'[u]]
<1>2. CASE active'[u] # None
  <2>1. r \in Requests
    BY <1>2 DEF Requests
  <2>2. Append(outbox[u], r) \in Seq(Requests)
    BY <1>1, <2>1, AppendProperties
  <2>3. outbox' = outbox \/ outbox' = [outbox EXCEPT ![u] = Append(outbox[u], r)]
    BY DEF Effect
  <2> QED
    BY <1>1, <2>2, <2>3
<1>3. CASE active'[u] = None
  BY <1>1, <1>3 DEF Effect
<1> QED
  BY <1>2, <1>3

(* A step that leaves the rows, what is on its way, the screens and the    *)
(* excuses alone.                                                          *)
LEMMA QuietStep ==
    ASSUME SpaceInv, UNCHANGED <<msgs, handler, inbox, log, excused>>
    PROVE  FramesFit' /\ ShownOnce' /\ PagesOnce' /\ NothingLost' /\ PagesWhole' /\ AnswersWhole'
<1>1. Rows' = Rows
  BY DEF Rows
<1>2. \A v, i : Holds(v, i)' <=> Holds(v, i)
  BY DEF Holds
<1>3. \A u, i, k : Coming(u, i, k)' <=> Coming(u, i, k)
  BY <1>2 DEF Coming
<1>4. \A u, i, ch : Owed(u, i, ch)' <=> Owed(u, i, ch)
  BY <1>1 DEF Owed
<1>5. FramesFit' /\ ShownOnce' /\ PagesOnce'
  BY DEF SpaceInv, FramesFit, FrameFits, ShownOnce, PagesOnce, PageOnce
<1>6. NothingLost'
  BY <1>1, <1>3, <1>4 DEF SpaceInv, NothingLost
<1>7. PagesWhole'
  BY <1>1, <1>3, <1>4 DEF SpaceInv, PagesWhole, Accounts
<1>8. AnswersWhole'
  BY <1>1, <1>2, <1>4 DEF SpaceInv, AnswersWhole, Accounts
<1> QED
  BY <1>5, <1>6, <1>7, <1>8

(* Typing, where no row is stored. *)
LEMMA SameRowsTyped ==
    ASSUME TypeOK, msgs' = msgs
    PROVE  /\ Rows' = Rows /\ Handlers' = Handlers /\ Frames' = Frames
           /\ msgs' \in Seq([ch : Channels, by : Users])
BY DEF TypeOK, Rows, Handlers, Frames

LEMMA SpaceInitInv == Init => SpaceInv
<1> SUFFICES ASSUME Init PROVE SpaceInv
  OBVIOUS
<1>1. Rows = {}
  BY EmptySeq DEF Init, Rows
<1>2. \A T : <<>> \in Seq(T)
  BY EmptySeq
<1>3. TypeOK
  <2>1. role \in [Users -> {"none", "member", "owner"}] /\ chans \subseteq Channels
    BY DEF Init, Channels
  <2>2. handler \in [Users -> Handlers]
    BY IdleIs DEF Init
  <2>3. inbox \in [Users -> Seq(Frames)] /\ outbox \in [Users -> Seq(Requests)]
    BY <1>2 DEF Init
  <2>4. log \in [Users -> [Channels -> Seq(Rows)]]
    BY <1>2 DEF Init
  <2>5. mounted \subseteq Users /\ active \in [Users -> Channels \cup {None}]
    BY DEF Init
  <2>6. excused \in [Users -> SUBSET Rows]
    BY DEF Init
  <2>7. posted \in 0..MaxMsgs
    BY SpaceAssumption, SMT DEF SpaceAssumption, Init
  <2>8. msgs \in Seq([ch : Channels, by : Users])
    BY <1>2 DEF Init
  <2> QED
    BY <2>1, <2>2, <2>3, <2>4, <2>5, <2>6, <2>7, <2>8 DEF TypeOK
<1>4. OwnerStays
  BY DEF Init, OwnerStays
<1>5. \A u \in Users : inbox[u] = <<>> /\ handler[u].at = "idle"
  BY IdleIs DEF Init
<1>6. FramesFit /\ PagesOnce /\ PagesWhole /\ AnswersWhole /\ NothingLost
  BY <1>1, <1>5 DEF FramesFit, PagesOnce, PagesWhole, AnswersWhole, NothingLost
<1>7. ShownOnce
  BY DEF Init, ShownOnce, IsInjective
<1> QED
  BY <1>3, <1>4, <1>6, <1>7 DEF SpaceInv

(***************************************************************************)
(* The steps.                                                              *)
(***************************************************************************)

(* Joining and leaving change the roles of others than the owner. *)
LEMMA JoinInv == ASSUME SpaceInv, NEW u \in Users, Join(u) PROVE SpaceInv'
<1>1. TypeOK'
  <2>1. role' \in [Users -> {"none", "member", "owner"}]
    BY DEF Join, SpaceInv, TypeOK
  <2> QED
    BY <2>1, SameRowsTyped DEF Join, clientVars, SpaceInv, TypeOK
<1>2. OwnerStays'
  BY DEF Join, SpaceInv, TypeOK, OwnerStays
<1> QED
  BY <1>1, <1>2, QuietStep DEF Join, clientVars, SpaceInv

LEMMA LeaveInv == ASSUME SpaceInv, NEW u \in Users, Leave(u) PROVE SpaceInv'
<1>1. TypeOK'
  <2>1. role' \in [Users -> {"none", "member", "owner"}]
    BY DEF Leave, SpaceInv, TypeOK
  <2>2. active' \in [Users -> Channels \cup {None}]
    BY DEF Leave, SpaceInv, TypeOK
  <2> QED
    BY <2>1, <2>2, SameRowsTyped DEF Leave, SpaceInv, TypeOK
<1>2. OwnerStays'
  BY DEF Leave, SpaceInv, TypeOK, OwnerStays
<1> QED
  BY <1>1, <1>2, QuietStep DEF Leave, SpaceInv

LEMMA CreateInv ==
    ASSUME SpaceInv, NEW u \in Users, NEW ch \in Channels, CreateChannel(u, ch)
    PROVE  SpaceInv'
<1>1. TypeOK'
  BY SameRowsTyped DEF CreateChannel, clientVars, SpaceInv, TypeOK
<1>2. OwnerStays'
  BY DEF CreateChannel, SpaceInv, OwnerStays
<1> QED
  BY <1>1, <1>2, QuietStep DEF CreateChannel, clientVars, SpaceInv

LEMMA MountInv == ASSUME SpaceInv, NEW u \in Users, Mount(u) PROVE SpaceInv'
<1>1. TypeOK'
  BY SameRowsTyped DEF Mount, relayVars, SpaceInv, TypeOK
<1>2. OwnerStays'
  BY DEF Mount, relayVars, SpaceInv, OwnerStays
<1> QED
  BY <1>1, <1>2, QuietStep DEF Mount, relayVars, SpaceInv

LEMMA OpenInv ==
    ASSUME SpaceInv, NEW u \in Users, NEW ch \in Channels, OpenChannel(u, ch)
    PROVE  SpaceInv'
<1>1. TypeOK'
  <2>1. active' \in [Users -> Channels \cup {None}]
    BY DEF OpenChannel, SpaceInv, TypeOK
  <2>2. outbox' \in [Users -> Seq(Requests)]
    BY <2>1, EffectTyped DEF OpenChannel, SpaceInv
  <2> QED
    BY <2>1, <2>2, SameRowsTyped DEF OpenChannel, relayVars, SpaceInv, TypeOK
<1>2. OwnerStays'
  BY DEF OpenChannel, relayVars, SpaceInv, OwnerStays
<1> QED
  BY <1>1, <1>2, QuietStep DEF OpenChannel, relayVars, SpaceInv

LEMMA PostInv == ASSUME SpaceInv, NEW u \in Users, Post(u) PROVE SpaceInv'
<1> DEFINE r == [t |-> "post", ch |-> active[u]]
<1>1. TypeOK'
  <2>1. active[u] \in Channels
    BY DEF Post, SpaceInv, TypeOK
  <2>2. Append(outbox[u], r) \in Seq(Requests)
    <3>1. r \in Requests
      BY <2>1 DEF Requests
    <3>2. outbox[u] \in Seq(Requests)
      BY DEF SpaceInv, TypeOK
    <3> QED
      BY <3>1, <3>2, AppendProperties
  <2>3. outbox' \in [Users -> Seq(Requests)]
    BY <2>2 DEF Post, SpaceInv, TypeOK
  <2>4. posted' \in 0..MaxMsgs
    BY SpaceAssumption, SMT DEF SpaceAssumption, Post, SpaceInv, TypeOK
  <2> QED
    BY <2>3, <2>4, SameRowsTyped DEF Post, relayVars, clientVars, SpaceInv, TypeOK
<1>2. OwnerStays'
  BY DEF Post, relayVars, SpaceInv, OwnerStays
<1> QED
  BY <1>1, <1>2, QuietStep DEF Post, relayVars, clientVars, SpaceInv

(* A request is taken by an idle handler. *)
LEMMA TakeTyped ==
    ASSUME TypeOK, NEW u \in Users, outbox[u] # <<>>
    PROVE  /\ Head(outbox[u]).ch \in Channels
           /\ [outbox EXCEPT ![u] = Tail(@)] \in [Users -> Seq(Requests)]
<1>1. outbox[u] \in Seq(Requests)
  BY DEF TypeOK
<1>2. Head(outbox[u]) \in Requests /\ Tail(outbox[u]) \in Seq(Requests)
  BY <1>1, HeadTailProperties
<1> QED
  BY <1>2 DEF TypeOK, Requests

(* The handlers of others hold what they held. *)
LEMMA OthersHold ==
    ASSUME TypeOK, NEW u \in Users, NEW h, handler' = [handler EXCEPT ![u] = h],
           NEW v \in Users, v # u
    PROVE  handler'[v] = handler[v] /\ \A i : Holds(v, i)' <=> Holds(v, i)
BY DEF TypeOK, Holds

(* The new row is held by the handler that stored it. *)
LEMMA InsertInv == ASSUME SpaceInv, NEW u \in Users, MsgInsert(u) PROVE SpaceInv'
<1>1. TypeOK
  BY DEF SpaceInv
<1>2. outbox[u] # <<>> /\ handler[u] = Idle /\ outbox' \in [Users -> Seq(Requests)]
  BY <1>1, TakeTyped DEF MsgInsert, Takes, TakeNext
<1>3. CASE UNCHANGED <<msgs, handler>>
  <2>1. TypeOK'
    BY <1>1, <1>2, <1>3, SameRowsTyped DEF MsgInsert, clientVars, TypeOK
  <2>2. OwnerStays'
    BY DEF MsgInsert, SpaceInv, OwnerStays
  <2> QED
    BY <1>3, <2>1, <2>2, QuietStep DEF MsgInsert, clientVars, SpaceInv
<1>4. CASE ~ UNCHANGED <<msgs, handler>>
  <2> DEFINE row == [ch |-> Head(outbox[u]).ch, by |-> u]
  <2>1. msgs' = Append(msgs, row) /\ handler' = [handler EXCEPT ![u] = [at |-> "stored", id |-> Len(msgs')]]
    BY <1>4 DEF MsgInsert
  <2>2. msgs \in Seq([ch : Channels, by : Users])
    BY <1>1 DEF TypeOK
  <2>3. row \in [ch : Channels, by : Users]
    BY <1>1, <1>2, TakeTyped
  <2>4. PICK n \in Nat : Len(msgs) = n /\ Rows = 1..n
    BY <2>2, LenProperties DEF Rows
  <2>5. msgs' \in Seq([ch : Channels, by : Users]) /\ Len(msgs') = n + 1
    BY <2>1, <2>2, <2>3, <2>4, AppendProperties
  <2>6. Rows' = 1..(n + 1)
    BY <2>5, LenProperties DEF Rows
  <2>7. PICK new \in Nat : new = n + 1
    BY SMT
  <2>8. Rows \subseteq Rows' /\ new \in Rows' /\ \A i \in Rows' : i \in Rows \/ i = new
    BY <2>4, <2>6, <2>7, SMT
  <2>9. \A i \in Rows : msgs'[i] = msgs[i]
    BY <2>1, <2>2, <2>3, <2>4, AppendProperties
  <2>10. /\ handler[u].at = "idle" /\ handler'[u] = [at |-> "stored", id |-> new]
         /\ handler' = [handler EXCEPT ![u] = [at |-> "stored", id |-> new]]
    BY <1>1, <1>2, <2>1, <2>5, <2>7, IdleIs DEF TypeOK
  <2>11. \A v \in Users : \A i : Holds(v, i) => Holds(v, i)'
    BY <1>1, <2>10, OthersHold DEF Holds
  <2>12. Holds(u, new)'
    BY <2>10 DEF Holds
  <2>13. inbox' = inbox /\ log' = log /\ excused' = excused /\ role' = role
    BY DEF MsgInsert, clientVars
  <2>14. TypeOK'
    <3>1. handler' \in [Users -> Handlers']
      <4>1. [at |-> "stored", id |-> new] \in Handlers'
        BY <2>8 DEF Handlers
      <4>2. \A v \in Users : handler[v] \in Handlers'
        BY <1>1, <2>8, RowsGrow DEF TypeOK
      <4> QED
        BY <1>1, <2>10, <4>1, <4>2 DEF TypeOK
    <3>2. inbox' \in [Users -> Seq(Frames')]
      BY <1>1, <2>8, <2>13, RowsGrow DEF TypeOK
    <3>3. log' \in [Users -> [Channels -> Seq(Rows')]]
      <4>1. \A v \in Users, ch \in Channels : log[v][ch] \in Seq(Rows')
        BY <1>1, <2>8, RowsGrow DEF TypeOK
      <4> QED
        BY <1>1, <2>13, <4>1 DEF TypeOK
    <3>4. excused' \in [Users -> SUBSET Rows']
      BY <1>1, <2>8, <2>13, RowsGrow DEF TypeOK
    <3>5. role' \in [Users -> {"none", "member", "owner"}] /\ chans' \subseteq Channels
          /\ mounted' \subseteq Users /\ active' \in [Users -> Channels \cup {None}]
          /\ posted' \in 0..MaxMsgs
      BY <1>1 DEF MsgInsert, clientVars, TypeOK
    <3> QED
      BY <1>2, <2>5, <3>1, <3>2, <3>3, <3>4, <3>5 DEF TypeOK
  <2>15. OwnerStays'
    BY <2>13 DEF SpaceInv, OwnerStays
  <2>16. \A w \in Users, i \in Rows : \A k : Coming(w, i, k) => Coming(w, i, k)'
    BY <2>11, <2>13 DEF Coming
  <2>17. \A w \in Users, i \in Rows : \A ch : Owed(w, i, ch)' => Owed(w, i, ch)
    BY <2>9, <2>13 DEF Owed
  <2>18. FramesFit'
    <3> SUFFICES ASSUME NEW w \in Users, NEW p \in DOMAIN inbox[w] PROVE FrameFits(inbox[w][p])'
      BY <2>13 DEF FramesFit
    <3>1. inbox[w][p] \in Frames
      BY <1>1, TypeParts, ElementOfSeq, LenProperties, SMT
    <3>2. inbox[w][p].t = "msg" => inbox[w][p].id \in Rows
      BY <3>1, FrameKinds
    <3>3. FrameFits(inbox[w][p])
      BY DEF SpaceInv, FramesFit
    <3> QED
      BY <2>9, <2>13, <3>2, <3>3 DEF FrameFits
  <2>19. ShownOnce' /\ PagesOnce'
    <3>1. \A w \in Users : handler'[w].at = "answer" => handler'[w] = handler[w]
      BY <1>1, <2>10, OthersHold
    <3> QED
      BY <2>13, <3>1 DEF SpaceInv, ShownOnce, PagesOnce, PageOnce
  <2>20. NothingLost'
    <3> SUFFICES ASSUME NEW w \in Users, NEW ch \in Channels, NEW i \in Rows', Owed(w, i, ch)'
                 PROVE  Coming(w, i, 0)' \/ i \in ToSet(log[w][ch])
      BY <2>13 DEF NothingLost
    <3>1. CASE i = new
      BY <2>12, <3>1 DEF Coming
    <3>2. CASE i \in Rows
      BY <2>16, <2>17, <3>2 DEF SpaceInv, NothingLost
    <3> QED
      BY <2>8, <3>1, <3>2
  <2>21. PagesWhole'
    <3> SUFFICES ASSUME NEW w \in Users, NEW p \in DOMAIN inbox[w], NEW i \in Rows',
                        inbox[w][p].t = "history", inbox[w][p].page # <<>>,
                        Owed(w, i, inbox[w][p].ch)'
                 PROVE  Accounts(inbox[w][p].page, i) \/ Coming(w, i, p)'
      BY <2>13 DEF PagesWhole, Accounts
    <3>1. CASE i = new
      BY <2>12, <3>1 DEF Coming
    <3>2. CASE i \in Rows
      BY <2>13, <2>16, <2>17, <3>2 DEF SpaceInv, PagesWhole
    <3> QED
      BY <2>8, <3>1, <3>2
  <2>22. AnswersWhole'
    <3> SUFFICES ASSUME NEW w \in Users, NEW i \in Rows',
                        handler'[w].at = "answer", handler'[w].page # <<>>,
                        Owed(w, i, handler[w].ch)', handler'[w] = handler[w]
                 PROVE  Accounts(handler[w].page, i) \/ \E v \in Users : Holds(v, i)'
      <4>1. \A w \in Users : handler'[w].at = "answer" => handler'[w] = handler[w]
        BY <1>1, <2>10, OthersHold
      <4> QED
        BY <4>1 DEF AnswersWhole, Accounts, Owed
    <3>1. CASE i = new
      BY <2>12, <3>1
    <3>2. CASE i \in Rows
      <4>1. Owed(w, i, handler[w].ch)
        BY <2>9, <2>13, <3>2 DEF Owed
      <4> QED
        BY <2>11, <3>2, <4>1 DEF SpaceInv, AnswersWhole
    <3> QED
      BY <2>8, <3>1, <3>2
  <2> QED
    BY <2>14, <2>15, <2>18, <2>19, <2>20, <2>21, <2>22 DEF SpaceInv
<1> QED
  BY <1>3, <1>4

(* The handler goes on holding the message it looks up the members for. *)
LEMMA RecipientsInv == ASSUME SpaceInv, NEW u \in Users, MsgRecipients(u) PROVE SpaceInv'
<1>1. TypeOK
  BY DEF SpaceInv
<1> DEFINE h == [at |-> "fanout", id |-> handler[u].id, to |-> Members]
<1>2. handler[u].at = "stored" /\ handler[u].id \in Rows
  BY <1>1, TypeParts, HandlerKinds DEF MsgRecipients
<1>3. h \in Handlers
  BY <1>2 DEF Handlers, Members
<1>4. handler' = [handler EXCEPT ![u] = h] /\ handler'[u] = h
  BY <1>1 DEF MsgRecipients, TypeOK
<1>5. UNCHANGED <<msgs, inbox, log, excused, role, chans, outbox, mounted, active, posted>>
  BY DEF MsgRecipients, relayVars, clientVars
<1>6. \A v \in Users : \A i : Holds(v, i)' <=> Holds(v, i)
  <2>1. \A i : Holds(u, i)' <=> Holds(u, i)
    BY <1>2, <1>4 DEF Holds
  <2> QED
    BY <1>1, <1>4, <2>1, OthersHold
<1>7. \A v \in Users : handler'[v].at = "answer" => handler'[v] = handler[v]
  BY <1>1, <1>4, OthersHold
<1> HIDE DEF h
<1>8. TypeOK'
  <2>1. handler' \in [Users -> Handlers]
    BY <1>1, <1>3, <1>4 DEF TypeOK
  <2> QED
    BY <1>1, <1>5, <2>1, SameRowsTyped DEF TypeOK
<1>9. \A w, i, k : Coming(w, i, k)' <=> Coming(w, i, k)
  BY <1>5, <1>6 DEF Coming
<1>10. Rows' = Rows /\ \A w, i, ch : Owed(w, i, ch)' <=> Owed(w, i, ch)
  BY <1>5 DEF Owed, Rows
<1>11. OwnerStays' /\ FramesFit' /\ ShownOnce' /\ PagesOnce'
  BY <1>5, <1>7 DEF SpaceInv, OwnerStays, FramesFit, FrameFits, ShownOnce, PagesOnce, PageOnce
<1>12. NothingLost' /\ PagesWhole'
  BY <1>5, <1>9, <1>10 DEF SpaceInv, NothingLost, PagesWhole, Accounts
<1>13. AnswersWhole'
  <2> SUFFICES ASSUME NEW w \in Users, NEW i \in Rows,
                      handler'[w].at = "answer", handler'[w].page # <<>>,
                      Owed(w, i, handler[w].ch), handler'[w] = handler[w]
               PROVE  Accounts(handler[w].page, i) \/ \E v \in Users : Holds(v, i)'
    BY <1>7, <1>10 DEF AnswersWhole, Accounts
  <2> QED
    BY <1>6 DEF SpaceInv, AnswersWhole
<1> QED
  BY <1>8, <1>11, <1>12, <1>13 DEF SpaceInv

(* What a handler sends goes to the end of every recipient's inbox; a user *)
(* that does not get it, or has a page behind which it comes, is excused.  *)
LEMMA FanoutInv == ASSUME SpaceInv, NEW u \in Users, MsgFanout(u) PROVE SpaceInv'
<1>1. TypeOK
  BY DEF SpaceInv
<1>2. PICK id : id = handler[u].id
  OBVIOUS
<1>3. PICK to : to = handler[u].to
  OBVIOUS
<1>4. PICK c : c = msgs[id].ch
  OBVIOUS
<1> DEFINE frame == [t |-> "msg", ch |-> c, id |-> id]
<1>5. handler[u].at = "fanout" /\ id \in Rows
  BY <1>1, <1>2, TypeParts, HandlerKinds DEF MsgFanout
<1>6. c \in Channels
  BY <1>1, <1>4, <1>5, RowIs
<1>7. /\ inbox' = [v \in Users |-> IF v \in to THEN Append(inbox[v], frame) ELSE inbox[v]]
      /\ excused' = [v \in Users |-> IF v \notin to \/ Racing(v, c)
                                     THEN excused[v] \cup {id} ELSE excused[v]]
      /\ handler' = [handler EXCEPT ![u] = Idle]
  BY <1>2, <1>3, <1>4 DEF MsgFanout
<1>8. UNCHANGED <<msgs, log, role, chans, outbox, mounted, active, posted>>
  BY DEF MsgFanout, relayVars, clientVars
<1>9. frame \in Frames /\ frame.t = "msg" /\ frame.ch = c /\ frame.id = id
  BY <1>5, <1>6, FramesAre
<1> HIDE DEF frame
<1>10. TypeOK'
  <2>1. handler' \in [Users -> Handlers]
    BY <1>1, <1>7, IdleIs DEF TypeOK
  <2>2. inbox' \in [Users -> Seq(Frames)]
    <3>1. \A v \in Users : Append(inbox[v], frame) \in Seq(Frames) /\ inbox[v] \in Seq(Frames)
      BY <1>1, <1>9, TypeParts, AppendProperties
    <3> QED
      BY <1>7, <3>1
  <2>3. excused' \in [Users -> SUBSET Rows]
    <3>1. \A v \in Users : excused[v] \in SUBSET Rows /\ excused[v] \cup {id} \in SUBSET Rows
      BY <1>1, <1>5, TypeParts
    <3> QED
      BY <1>7, <3>1
  <2> QED
    BY <1>1, <1>8, <2>1, <2>2, <2>3, SameRowsTyped DEF TypeOK
<1>11. Rows' = Rows
  BY <1>8 DEF Rows
<1>12. \A v \in Users : \A i : Holds(v, i) => Holds(v, i)' \/ i = id
  <2>1. \A i : Holds(u, i) => i = id
    BY <1>2 DEF Holds
  <2> QED
    BY <1>1, <1>7, <2>1, OthersHold
<1>13. ASSUME NEW w \in Users, NEW p \in DOMAIN inbox'[w]
       PROVE  \/ p \in DOMAIN inbox[w] /\ inbox'[w][p] = inbox[w][p]
              \/ inbox'[w][p] = frame
  <2>1. inbox[w] \in Seq(Frames)
    BY <1>1, TypeParts
  <2>2. inbox'[w] = inbox[w] \/ inbox'[w] = Append(inbox[w], frame)
    BY <1>7
  <2>3. CASE inbox'[w] = Append(inbox[w], frame)
    <3>1. p \in 1..(Len(inbox[w]) + 1)
      BY <1>9, <2>1, <2>3, AppendProperties, LenProperties
    <3>2. CASE p = Len(inbox[w]) + 1
      BY <1>9, <2>1, <2>3, <3>2, AppendProperties
    <3>3. CASE p # Len(inbox[w]) + 1
      <4>1. p \in 1..Len(inbox[w])
        BY <2>1, <3>1, <3>3, LenProperties, SMT
      <4> QED
        BY <1>9, <2>1, <2>3, <4>1, AppendProperties, LenProperties
    <3> QED
      BY <3>2, <3>3
  <2> QED
    BY <2>2, <2>3
<1>14. ASSUME NEW w \in Users, NEW p \in DOMAIN inbox[w]
       PROVE  p \in DOMAIN inbox'[w] /\ inbox'[w][p] = inbox[w][p]
  <2>1. inbox[w] \in Seq(Frames)
    BY <1>1, TypeParts
  <2>2. inbox'[w] = inbox[w] \/ inbox'[w] = Append(inbox[w], frame)
    BY <1>7
  <2>3. p \in 1..Len(inbox[w]) /\ p \in 1..(Len(inbox[w]) + 1)
    BY <2>1, LenProperties, SMT
  <2> QED
    BY <1>9, <2>1, <2>2, <2>3, AppendProperties, LenProperties
<1>15. \A w \in Users : \A i, ch : Owed(w, i, ch)' => Owed(w, i, ch)
  BY <1>7, <1>8, <1>11 DEF Owed
<1>16. ASSUME NEW w \in Users, NEW ch, Owed(w, id, ch)' PROVE w \in to /\ ~ Racing(w, ch)
  <2>1. ch = c
    BY <1>4, <1>8, <1>16 DEF Owed
  <2>2. id \notin excused'[w]
    BY <1>16 DEF Owed
  <2>3. w \in to /\ ~ Racing(w, c)
    BY <1>7, <2>2
  <2> QED
    BY <2>1, <2>3
<1>17. ASSUME NEW w \in Users, NEW i, NEW ch, Owed(w, i, ch)',
              NEW k \in Nat, k <= Len(inbox[w]), Coming(w, i, k)
       PROVE  Coming(w, i, k)'
  <2>1. CASE \E v \in Users : Holds(v, i)'
    BY <2>1 DEF Coming
  <2>2. CASE i = id
    <3>1. w \in to
      BY <1>16, <1>17, <2>2
    <3>2. inbox'[w] = Append(inbox[w], frame) /\ inbox[w] \in Seq(Frames)
      BY <1>1, <1>7, <3>1, TypeParts
    <3>3. PICK l \in Nat : l = Len(inbox[w]) + 1 /\ l > k
      BY <1>17, <3>2, LenProperties, SMT
    <3>4. l \in DOMAIN inbox'[w] /\ inbox'[w][l] = frame
      <4>1. l \in 1..(Len(inbox[w]) + 1)
        BY <3>2, <3>3, LenProperties, SMT
      <4> QED
        BY <1>9, <3>2, <3>3, <4>1, AppendProperties, LenProperties
    <3> QED
      BY <1>9, <2>2, <3>3, <3>4 DEF Coming
  <2>3. CASE \E p \in DOMAIN inbox[w] : p > k /\ inbox[w][p].t = "msg" /\ inbox[w][p].id = i
    BY <1>14, <2>3 DEF Coming
  <2> QED
    BY <1>12, <1>17, <2>1, <2>2, <2>3 DEF Coming
<1>18. FramesFit'
  <2> SUFFICES ASSUME NEW w \in Users, NEW p \in DOMAIN inbox'[w],
                      NEW f, f = inbox'[w][p], f.t = "msg"
               PROVE  f.ch = msgs[f.id].ch
    BY <1>8 DEF FramesFit, FrameFits
  <2>1. CASE f = frame
    BY <1>4, <1>9, <2>1
  <2>2. CASE p \in DOMAIN inbox[w] /\ f = inbox[w][p]
    BY <2>2 DEF SpaceInv, FramesFit, FrameFits
  <2> QED
    BY <1>13, <2>1, <2>2
<1>19. \A w \in Users : handler'[w].at = "answer" => handler'[w] = handler[w]
  BY <1>1, <1>7, IdleIs, OthersHold DEF TypeOK
<1>20. ShownOnce' /\ PagesOnce' /\ OwnerStays'
  <2>1. \A w \in Users : \A p \in DOMAIN inbox'[w] : PageOnce(inbox'[w][p])
    BY <1>9, <1>13 DEF SpaceInv, PagesOnce, PageOnce
  <2>2. \A w \in Users : handler'[w].at = "answer" => IsInjective(handler'[w].page)
    BY <1>19 DEF SpaceInv, PagesOnce
  <2> QED
    BY <1>8, <2>1, <2>2 DEF SpaceInv, PagesOnce, PageOnce, ShownOnce, OwnerStays
<1>21. NothingLost'
  <2> SUFFICES ASSUME NEW w \in Users, NEW ch \in Channels, NEW i \in Rows, Owed(w, i, ch)'
               PROVE  Coming(w, i, 0)' \/ i \in ToSet(log[w][ch])
    BY <1>8, <1>11 DEF NothingLost
  <2>1. Coming(w, i, 0) \/ i \in ToSet(log[w][ch])
    BY <1>15 DEF SpaceInv, NothingLost
  <2>2. 0 \in Nat /\ 0 <= Len(inbox[w])
    BY <1>1, TypeParts, LenProperties, SMT
  <2> QED
    BY <1>17, <2>1, <2>2
<1>22. PagesWhole'
  <2> SUFFICES ASSUME NEW w \in Users, NEW p \in DOMAIN inbox'[w], NEW i \in Rows,
                      NEW f, f = inbox'[w][p], f.t = "history", f.page # <<>>,
                      NEW ch, ch = f.ch, Owed(w, i, ch)'
               PROVE  Accounts(f.page, i) \/ Coming(w, i, p)'
    BY <1>8, <1>11 DEF PagesWhole, Accounts, Owed
  <2>1. p \in DOMAIN inbox[w] /\ f = inbox[w][p]
    BY <1>9, <1>13
  <2>2. Accounts(f.page, i) \/ Coming(w, i, p)
    BY <1>15, <2>1 DEF SpaceInv, PagesWhole
  <2>3. p \in Nat /\ p <= Len(inbox[w])
    BY <1>1, <2>1, TypeParts, LenProperties, SMT
  <2> QED
    BY <1>17, <2>1, <2>2, <2>3
<1>23. AnswersWhole'
  <2> SUFFICES ASSUME NEW w \in Users, NEW i \in Rows,
                      handler'[w].at = "answer", handler'[w].page # <<>>,
                      Owed(w, i, handler[w].ch)', handler'[w] = handler[w]
               PROVE  Accounts(handler[w].page, i) \/ \E v \in Users : Holds(v, i)'
    BY <1>11, <1>19 DEF AnswersWhole, Accounts, Owed
  <2>1. Accounts(handler[w].page, i) \/ \E v \in Users : Holds(v, i)
    BY <1>15 DEF SpaceInv, AnswersWhole
  <2>2. i # id
    BY <1>16 DEF Racing
  <2> QED
    BY <1>12, <2>1, <2>2
<1> QED
  BY <1>10, <1>18, <1>20, <1>21, <1>22, <1>23 DEF SpaceInv

(* A handler that is idle or has a page to send holds no message. *)
LEMMA SameHeld ==
    ASSUME TypeOK, NEW u \in Users, NEW h, handler' = [handler EXCEPT ![u] = h],
           handler[u].at \in {"idle", "answer"}, h.at \in {"idle", "answer"}
    PROVE  \A v \in Users : \A i : Holds(v, i)' <=> Holds(v, i)
<1>1. handler'[u] = h
  BY DEF TypeOK
<1>2. \A i : Holds(u, i)' <=> Holds(u, i)
  BY <1>1 DEF Holds
<1> QED
  BY <1>2, OthersHold

(* The page is read: it has every message of the channel from its first    *)
(* one on.                                                                 *)
LEMMA QueryInv == ASSUME SpaceInv, NEW u \in Users, HistoryQuery(u) PROVE SpaceInv'
<1>1. TypeOK
  BY DEF SpaceInv
<1>2. PICK ch : ch = Head(outbox[u]).ch
  OBVIOUS
<1>3. /\ outbox[u] # <<>> /\ handler[u] = Idle /\ ch \in Channels
      /\ outbox' \in [Users -> Seq(Requests)]
  BY <1>1, <1>2, TakeTyped DEF HistoryQuery, Takes, TakeNext
<1>4. UNCHANGED <<msgs, inbox, log, excused, role, chans, mounted, active, posted>>
  BY DEF HistoryQuery, relayVars, clientVars
<1>5. CASE handler' = handler
  <2>1. TypeOK'
    BY <1>1, <1>3, <1>4, <1>5, SameRowsTyped DEF TypeOK
  <2>2. OwnerStays'
    BY <1>4 DEF SpaceInv, OwnerStays
  <2> QED
    BY <1>4, <1>5, <2>1, <2>2, QuietStep DEF SpaceInv
<1>6. CASE handler' # handler
  <2>1. PICK page : page = channelHistory(ch, 0)
    OBVIOUS
  <2>2. /\ page \in Seq(Rows) /\ IsInjective(page)
        /\ page # <<>> => \A i \in Rows : msgs[i].ch = ch => Accounts(page, i)
    BY <1>1, <1>3, <2>1, PageIs
  <2> DEFINE h == [at |-> "answer", ch |-> ch, page |-> page]
  <2>3. handler' = [handler EXCEPT ![u] = h] /\ handler'[u] = h
    BY <1>1, <1>2, <1>6, <2>1 DEF HistoryQuery, TypeOK
  <2>4. h \in Handlers /\ h.at = "answer" /\ h.ch = ch /\ h.page = page
    BY <1>3, <2>2 DEF Handlers
  <2> HIDE DEF h
  <2>5. \A v \in Users : \A i : Holds(v, i)' <=> Holds(v, i)
    BY <1>1, <1>3, <2>3, <2>4, IdleIs, SameHeld
  <2>6. TypeOK'
    <3>1. handler' \in [Users -> Handlers]
      BY <1>1, <2>3, <2>4 DEF TypeOK
    <3> QED
      BY <1>1, <1>3, <1>4, <3>1, SameRowsTyped DEF TypeOK
  <2>7. \A w, i, k : Coming(w, i, k)' <=> Coming(w, i, k)
    BY <1>4, <2>5 DEF Coming
  <2>8. Rows' = Rows /\ \A w, i, c : Owed(w, i, c)' <=> Owed(w, i, c)
    BY <1>4 DEF Owed, Rows
  <2>9. \A w \in Users : w # u => handler'[w] = handler[w]
    BY <1>1, <2>3, OthersHold
  <2>10. OwnerStays' /\ FramesFit' /\ ShownOnce'
    BY <1>4 DEF SpaceInv, OwnerStays, FramesFit, FrameFits, ShownOnce
  <2>11. PagesOnce'
    BY <1>4, <2>2, <2>3, <2>4, <2>9 DEF SpaceInv, PagesOnce, PageOnce
  <2>12. NothingLost' /\ PagesWhole'
    BY <1>4, <2>7, <2>8 DEF SpaceInv, NothingLost, PagesWhole, Accounts
  <2>13. AnswersWhole'
    <3> SUFFICES ASSUME NEW w \in Users, NEW i \in Rows, NEW g, g = handler'[w],
                        g.at = "answer", g.page # <<>>, NEW c, c = g.ch, Owed(w, i, c)'
                 PROVE  Accounts(g.page, i) \/ \E v \in Users : Holds(v, i)'
      BY <2>8 DEF AnswersWhole, Accounts, Owed
    <3>1. CASE w = u
      <4>1. msgs[i].ch = ch
        <5>1. msgs[i].ch = c
          BY <1>4 DEF Owed
        <5>2. c = ch
          BY <2>3, <2>4, <3>1
        <5> QED
          BY <5>1, <5>2
      <4> QED
        BY <2>2, <2>3, <2>4, <3>1, <4>1
    <3>2. CASE w # u
      BY <2>5, <2>8, <2>9, <3>2 DEF SpaceInv, AnswersWhole
    <3> QED
      BY <3>1, <3>2
  <2> QED
    BY <2>6, <2>10, <2>11, <2>12, <2>13 DEF SpaceInv
<1> QED
  BY <1>5, <1>6

(* A frame at the end of one inbox. *)
LEMMA Delivered ==
    ASSUME NEW w \in Users, NEW f \in Frames, inbox[w] \in Seq(Frames),
           inbox'[w] = Append(inbox[w], f)
    PROVE  /\ \A p \in DOMAIN inbox'[w] :
                 \/ p \in DOMAIN inbox[w] /\ inbox'[w][p] = inbox[w][p]
                 \/ inbox'[w][p] = f
           /\ \A p \in DOMAIN inbox[w] : p \in DOMAIN inbox'[w] /\ inbox'[w][p] = inbox[w][p]
<1>1. PICK n \in Nat : Len(inbox[w]) = n /\ DOMAIN inbox[w] = 1..n
  BY LenProperties
<1>2. DOMAIN inbox'[w] = 1..(n + 1)
  BY <1>1, AppendProperties, LenProperties
<1>3. \A p \in 1..n : inbox'[w][p] = inbox[w][p]
  BY <1>1, AppendProperties
<1>4. inbox'[w][n + 1] = f
  BY <1>1, AppendProperties
<1>5. \A p \in 1..(n + 1) : p \in 1..n \/ p = n + 1
  BY SMT
<1>6. \A p \in 1..n : p \in 1..(n + 1)
  BY SMT
<1> QED
  BY <1>1, <1>2, <1>3, <1>4, <1>5, <1>6

(* The page is sent, and whatever it lacks comes behind it. *)
LEMMA AnswerInv == ASSUME SpaceInv, NEW u \in Users, HistoryAnswer(u) PROVE SpaceInv'
<1>1. TypeOK
  BY DEF SpaceInv
<1>2. PICK ch : ch = handler[u].ch
  OBVIOUS
<1>3. PICK page : page = handler[u].page
  OBVIOUS
<1> DEFINE f == [t |-> "history", ch |-> ch, page |-> page]
<1>4. handler[u].at = "answer" /\ ch \in Channels /\ page \in Seq(Rows)
  BY <1>1, <1>2, <1>3, TypeParts, HandlerKinds DEF HistoryAnswer
<1>5. f \in Frames /\ f.t = "history" /\ f.ch = ch /\ f.page = page
  BY <1>4, FramesAre
<1>6. inbox' = [inbox EXCEPT ![u] = Append(@, f)] /\ handler' = [handler EXCEPT ![u] = Idle]
  BY <1>2, <1>3 DEF HistoryAnswer
<1>7. UNCHANGED <<msgs, log, excused, role, chans, outbox, mounted, active, posted>>
  BY DEF HistoryAnswer, relayVars, clientVars
<1> HIDE DEF f
<1>8. inbox[u] \in Seq(Frames) /\ Append(inbox[u], f) \in Seq(Frames)
  BY <1>1, <1>5, TypeParts, AppendProperties
<1>9. TypeOK'
  <2>1. handler' \in [Users -> Handlers]
    BY <1>1, <1>6, IdleIs DEF TypeOK
  <2>2. inbox' \in [Users -> Seq(Frames)]
    BY <1>1, <1>6, <1>8 DEF TypeOK
  <2> QED
    BY <1>1, <1>7, <2>1, <2>2, SameRowsTyped DEF TypeOK
<1>10. \A v \in Users : \A i : Holds(v, i)' <=> Holds(v, i)
  BY <1>1, <1>4, <1>6, IdleIs, SameHeld
<1>11. inbox'[u] = Append(inbox[u], f) /\ \A w \in Users : w # u => inbox'[w] = inbox[w]
  BY <1>1, <1>6 DEF TypeOK
<1>12. ASSUME NEW w \in Users
       PROVE  /\ \A p \in DOMAIN inbox'[w] :
                    \/ p \in DOMAIN inbox[w] /\ inbox'[w][p] = inbox[w][p]
                    \/ w = u /\ inbox'[w][p] = f
              /\ \A p \in DOMAIN inbox[w] : p \in DOMAIN inbox'[w] /\ inbox'[w][p] = inbox[w][p]
  <2>1. CASE w = u
    BY <1>5, <1>8, <1>11, <2>1, Delivered
  <2>2. CASE w # u
    BY <1>11, <2>2
  <2> QED
    BY <2>1, <2>2
<1>13. \A w \in Users : \A i, k : Coming(w, i, k) => Coming(w, i, k)'
  BY <1>10, <1>12 DEF Coming
<1>14. Rows' = Rows /\ \A w, i, c : Owed(w, i, c)' <=> Owed(w, i, c)
  BY <1>7 DEF Owed, Rows
<1>15. \A w \in Users : handler'[w].at = "answer" => handler'[w] = handler[w]
  BY <1>1, <1>6, IdleIs, OthersHold DEF TypeOK
<1>16. OwnerStays' /\ ShownOnce'
  BY <1>7 DEF SpaceInv, OwnerStays, ShownOnce
<1>17. FramesFit'
  <2> SUFFICES ASSUME NEW w \in Users, NEW p \in DOMAIN inbox'[w],
                      NEW g, g = inbox'[w][p], g.t = "msg"
               PROVE  g.ch = msgs[g.id].ch
    BY <1>7 DEF FramesFit, FrameFits
  <2>1. p \in DOMAIN inbox[w] /\ g = inbox[w][p]
    BY <1>5, <1>12
  <2> QED
    BY <2>1 DEF SpaceInv, FramesFit, FrameFits
<1>18. PagesOnce'
  <2>1. IsInjective(page)
    BY <1>3, <1>4 DEF SpaceInv, PagesOnce
  <2>2. \A w \in Users : \A p \in DOMAIN inbox'[w] : PageOnce(inbox'[w][p])
    BY <1>5, <1>12, <2>1 DEF SpaceInv, PagesOnce, PageOnce
  <2>3. \A w \in Users : handler'[w].at = "answer" => IsInjective(handler'[w].page)
    BY <1>15 DEF SpaceInv, PagesOnce
  <2> QED
    BY <2>2, <2>3 DEF PagesOnce, PageOnce
<1>19. NothingLost'
  BY <1>7, <1>13, <1>14 DEF SpaceInv, NothingLost
<1>20. PagesWhole'
  <2> SUFFICES ASSUME NEW w \in Users, NEW p \in DOMAIN inbox'[w], NEW i \in Rows,
                      NEW g, g = inbox'[w][p], g.t = "history", g.page # <<>>,
                      NEW c, c = g.ch, Owed(w, i, c)
               PROVE  Accounts(g.page, i) \/ Coming(w, i, p)'
    BY <1>14 DEF PagesWhole, Accounts
  <2>1. CASE p \in DOMAIN inbox[w] /\ g = inbox[w][p]
    BY <1>13, <2>1 DEF SpaceInv, PagesWhole
  <2>2. CASE w = u /\ g = f
    <3>1. Accounts(page, i) \/ \E v \in Users : Holds(v, i)
      BY <1>2, <1>3, <1>4, <1>5, <2>2 DEF SpaceInv, AnswersWhole
    <3> QED
      BY <1>5, <1>10, <2>2, <3>1 DEF Coming
  <2> QED
    BY <1>12, <2>1, <2>2
<1>21. AnswersWhole'
  <2> SUFFICES ASSUME NEW w \in Users, NEW i \in Rows, NEW g, g = handler'[w],
                      g.at = "answer", g.page # <<>>, NEW c, c = g.ch, Owed(w, i, c)
               PROVE  Accounts(g.page, i) \/ \E v \in Users : Holds(v, i)'
    BY <1>14 DEF AnswersWhole, Accounts
  <2> QED
    BY <1>10, <1>15 DEF SpaceInv, AnswersWhole
<1> QED
  BY <1>9, <1>16, <1>17, <1>18, <1>19, <1>20, <1>21 DEF SpaceInv

(* Whatever the view showed is excused with it. *)
LEMMA UnmountInv == ASSUME SpaceInv, NEW u \in Users, Unmount(u) PROVE SpaceInv'
<1>1. TypeOK
  BY DEF SpaceInv
<1>2. UNCHANGED <<msgs, handler, inbox, role, chans, outbox, posted>>
  BY DEF Unmount, relayVars
<1> DEFINE empty == [ch \in Channels |-> <<>>]
           gone == UNION {ToSet(log[u][ch]) : ch \in Channels}
<1>3. /\ log' = [log EXCEPT ![u] = empty]
      /\ excused' = [excused EXCEPT ![u] = excused[u] \cup gone]
  BY DEF Unmount
<1>4. \A ch \in Channels : ToSet(log[u][ch]) \subseteq gone
  OBVIOUS
<1>5. gone \in SUBSET Rows
  <2> SUFFICES ASSUME NEW ch \in Channels PROVE ToSet(log[u][ch]) \subseteq Rows
    OBVIOUS
  <2>1. log[u][ch] \in Seq(Rows)
    BY <1>1, TypeParts
  <2> QED
    BY <2>1, ElementOfSeq, LenProperties DEF ToSet
<1>6. empty \in [Channels -> Seq(Rows)] /\ \A ch \in Channels : empty[ch] = <<>>
  BY EmptySeq
<1> HIDE DEF empty, gone
<1>7. TypeOK'
  <2>1. log' \in [Users -> [Channels -> Seq(Rows)]]
    BY <1>1, <1>3, <1>6 DEF TypeOK
  <2>2. excused' \in [Users -> SUBSET Rows]
    BY <1>1, <1>3, <1>5 DEF TypeOK
  <2>3. mounted' \subseteq Users /\ active' \in [Users -> Channels \cup {None}]
    BY <1>1 DEF Unmount, TypeOK
  <2> QED
    BY <1>1, <1>2, <2>1, <2>2, <2>3, SameRowsTyped DEF TypeOK
<1>8. /\ log'[u] = empty /\ excused'[u] = excused[u] \cup gone
      /\ \A w \in Users : w # u => log'[w] = log[w] /\ excused'[w] = excused[w]
  BY <1>1, <1>3 DEF TypeOK
<1>9. Rows' = Rows /\ \A w \in Users : \A i, ch : Owed(w, i, ch)' => Owed(w, i, ch)
  BY <1>2, <1>8 DEF Owed, Rows
<1>10. \A v, i : Holds(v, i)' <=> Holds(v, i)
  BY <1>2 DEF Holds
<1>11. \A w, i, k : Coming(w, i, k)' <=> Coming(w, i, k)
  BY <1>2, <1>10 DEF Coming
<1>12. OwnerStays' /\ FramesFit' /\ PagesOnce'
  BY <1>2 DEF SpaceInv, OwnerStays, FramesFit, FrameFits, PagesOnce, PageOnce
<1>13. ShownOnce'
  <2> SUFFICES ASSUME NEW w \in Users, NEW ch \in Channels PROVE IsInjective(log'[w][ch])
    BY DEF ShownOnce
  <2>1. CASE w = u
    BY <1>6, <1>8, <2>1 DEF IsInjective
  <2>2. CASE w # u
    BY <1>8, <2>2 DEF SpaceInv, ShownOnce
  <2> QED
    BY <2>1, <2>2
<1>14. NothingLost'
  <2> SUFFICES ASSUME NEW w \in Users, NEW ch \in Channels, NEW i \in Rows, Owed(w, i, ch)'
               PROVE  Coming(w, i, 0) \/ i \in ToSet(log'[w][ch])
    BY <1>9, <1>11 DEF NothingLost
  <2>1. Coming(w, i, 0) \/ i \in ToSet(log[w][ch])
    BY <1>9 DEF SpaceInv, NothingLost
  <2>2. CASE w = u
    <3>1. i \notin gone
      BY <1>8, <2>2 DEF Owed
    <3> QED
      BY <1>4, <2>1, <2>2, <3>1
  <2>3. CASE w # u
    BY <1>8, <2>1, <2>3
  <2> QED
    BY <2>2, <2>3
<1>15. PagesWhole'
  BY <1>2, <1>9, <1>11 DEF SpaceInv, PagesWhole, Accounts
<1>16. AnswersWhole'
  BY <1>2, <1>9, <1>10 DEF SpaceInv, AnswersWhole, Accounts
<1> QED
  BY <1>7, <1>12, <1>13, <1>14, <1>15, <1>16 DEF SpaceInv

(* The inbox of u without its first frame. *)
LEMMA Taken ==
    ASSUME NEW u \in Users, NEW f, inbox[u] \in Seq(Frames), inbox[u] # <<>>,
           f = Head(inbox[u]), inbox'[u] = Tail(inbox[u])
    PROVE  /\ 1 \in DOMAIN inbox[u] /\ inbox[u][1] = f /\ f \in Frames
           /\ inbox'[u] \in Seq(Frames)
           /\ \A p \in DOMAIN inbox'[u] : \E q \in DOMAIN inbox[u] :
                 q = p + 1 /\ inbox'[u][p] = inbox[u][q]
           /\ \A q \in DOMAIN inbox[u] : q = 1 \/ \E p \in DOMAIN inbox'[u] :
                 q = p + 1 /\ inbox'[u][p] = inbox[u][q]
<1>1. PICK n \in Nat : Len(inbox[u]) = n /\ DOMAIN inbox[u] = 1..n
  BY LenProperties
<1>2. n # 0
  BY <1>1, EmptySeq
<1>3. PICK m \in Nat : n = m + 1
  BY <1>2, SMT
<1>4. /\ inbox'[u] \in Seq(Frames) /\ Len(inbox'[u]) = m /\ f \in Frames
      /\ \A p \in 1..m : inbox'[u][p] = inbox[u][p + 1]
  BY <1>1, <1>3, HeadTailProperties, SMT
<1>5. DOMAIN inbox'[u] = 1..m
  BY <1>4, LenProperties
<1>6. 1 \in 1..n /\ inbox[u][1] = f
  BY <1>3, HeadTailProperties, SMT
<1>7. \A p \in 1..m : p + 1 \in 1..n
  BY <1>3, SMT
<1>8. \A q \in 1..n : q = 1 \/ \E p \in 1..m : q = p + 1
  <2> SUFFICES ASSUME NEW q \in 1..n, q # 1 PROVE \E p \in 1..m : q = p + 1
    OBVIOUS
  <2>1. q - 1 \in 1..m /\ q = (q - 1) + 1
    BY <1>3, SMT
  <2> QED
    BY <2>1
<1> QED
  BY <1>1, <1>4, <1>5, <1>6, <1>7, <1>8

(* What a frame does to the list on screen. *)
LEMMA ShownIs ==
    ASSUME NEW f \in Frames, NEW shown \in Seq(Rows), IsInjective(shown), PageOnce(f)
    PROVE  /\ Shown(shown, f) \in Seq(Rows) /\ IsInjective(Shown(shown, f))
           /\ f.t = "msg" => /\ f.id \in ToSet(Shown(shown, f))
                             /\ ToSet(shown) \subseteq ToSet(Shown(shown, f))
           /\ f.t = "history" =>
                 Shown(shown, f) = IF f.page = <<>> THEN shown ELSE f.page
           /\ LeftBehind(shown, f) \in SUBSET Rows
<1>1. /\ f.t = "msg" \/ f.t = "history"
      /\ f.t = "msg" => f.id \in Rows
      /\ f.t = "history" => f.page \in Seq(Rows)
  BY FrameKinds
<1>2. PICK n \in Nat : Len(shown) = n /\ DOMAIN shown = 1..n
  BY LenProperties
<1>3. \A k \in 1..n : shown[k] \in Rows
  BY <1>2, ElementOfSeq
<1>4. ToSet(shown) \subseteq Rows
  BY <1>2, <1>3 DEF ToSet
<1>5. LeftBehind(shown, f) \in SUBSET Rows
  BY <1>4 DEF LeftBehind
<1>6. CASE f.t = "history"
  BY <1>1, <1>5, <1>6 DEF Shown, PageOnce
<1>7. CASE f.t = "msg" /\ Contains(shown, f.id)
  <2>1. Shown(shown, f) = shown
    BY <1>7 DEF Shown
  <2>2. f.id \in ToSet(shown)
    BY <1>2, <1>7 DEF Contains, ToSet
  <2> QED
    BY <1>5, <1>7, <2>1, <2>2
<1>8. CASE f.t = "msg" /\ ~ Contains(shown, f.id)
  <2>1. PICK id \in Rows : id = f.id
    BY <1>1, <1>8
  <2>2. PICK t : t = Append(shown, id)
    OBVIOUS
  <2>3. Shown(shown, f) = t
    BY <1>8, <2>1, <2>2 DEF Shown
  <2>4. t \in Seq(Rows) /\ DOMAIN t = 1..(n + 1)
    BY <1>2, <2>2, AppendProperties, LenProperties
  <2>5. t[n + 1] = id /\ \A k \in 1..n : t[k] = shown[k]
    BY <1>2, <2>2, AppendProperties
  <2>6. \A k \in 1..n : shown[k] # id
    BY <1>2, <1>8, <2>1 DEF Contains
  <2>7. \A k \in 1..(n + 1) : k \in 1..n \/ k = n + 1
    BY SMT
  <2>8. n + 1 \in 1..(n + 1) /\ \A k \in 1..n : k \in 1..(n + 1)
    BY SMT
  <2>9. \A j, k \in 1..n : shown[j] = shown[k] => j = k
    BY <1>2 DEF IsInjective
  <2>10. ASSUME NEW j \in 1..(n + 1), NEW k \in 1..(n + 1), t[j] = t[k] PROVE j = k
    <3>1. CASE j \in 1..n /\ k \in 1..n
      BY <2>5, <2>9, <2>10, <3>1
    <3>2. CASE j \in 1..n /\ k = n + 1
      BY <2>5, <2>6, <2>10, <3>2
    <3>3. CASE j = n + 1 /\ k \in 1..n
      BY <2>5, <2>6, <2>10, <3>3
    <3> QED
      BY <2>7, <2>10, <3>1, <3>2, <3>3
  <2>11. IsInjective(t)
    BY <2>4, <2>10 DEF IsInjective
  <2>12. id \in ToSet(t) /\ ToSet(shown) \subseteq ToSet(t)
    BY <1>2, <2>4, <2>5, <2>8 DEF ToSet
  <2> QED
    BY <1>5, <1>8, <2>1, <2>3, <2>4, <2>11, <2>12
<1> QED
  BY <1>1, <1>6, <1>7, <1>8

(* A frame comes to the browser: a message is shown, or excused when the   *)
(* view is off screen; a page takes the place of what was shown, and what  *)
(* it lacks comes behind it.                                               *)
LEMMA ReceiveInv == ASSUME SpaceInv, NEW u \in Users, Receive(u) PROVE SpaceInv'
<1>1. TypeOK
  BY DEF SpaceInv
<1>2. PICK f : f = Head(inbox[u])
  OBVIOUS
<1>3. inbox[u] # <<>> /\ inbox' = [inbox EXCEPT ![u] = Tail(inbox[u])]
  BY DEF Receive
<1>4. UNCHANGED <<msgs, handler, role, chans, active, mounted, posted>>
  BY DEF Receive, relayVars
<1>5. /\ inbox'[u] = Tail(inbox[u]) /\ inbox[u] \in Seq(Frames)
      /\ \A w \in Users : w # u => inbox'[w] = inbox[w]
  BY <1>1, <1>3 DEF TypeOK
<1>6. /\ 1 \in DOMAIN inbox[u] /\ inbox[u][1] = f /\ f \in Frames
      /\ inbox'[u] \in Seq(Frames)
      /\ \A p \in DOMAIN inbox'[u] : \E q \in DOMAIN inbox[u] :
            q = p + 1 /\ inbox'[u][p] = inbox[u][q]
      /\ \A q \in DOMAIN inbox[u] : q = 1 \/ \E p \in DOMAIN inbox'[u] :
            q = p + 1 /\ inbox'[u][p] = inbox[u][q]
  BY <1>2, <1>3, <1>5, Taken
<1>7. /\ f.ch \in Channels /\ (f.t = "msg" \/ f.t = "history")
      /\ f.t = "msg" => f.id \in Rows
  BY <1>6, FrameKinds
<1>8. FrameFits(f) /\ PageOnce(f)
  BY <1>6 DEF SpaceInv, FramesFit, PagesOnce
<1>9. Rows' = Rows
  BY <1>4 DEF Rows
<1>10. \A v, i : Holds(v, i)' <=> Holds(v, i)
  BY <1>4 DEF Holds
<1>11. \A w \in Users : \A i, k : w # u => (Coming(w, i, k)' <=> Coming(w, i, k))
  BY <1>5, <1>10 DEF Coming
<1>12. DOMAIN inbox[u] \subseteq Nat /\ DOMAIN inbox'[u] \subseteq Nat
  BY <1>5, <1>6, LenProperties
<1>13. ASSUME NEW i, NEW p \in Nat, NEW q \in Nat, q = p + 1, Coming(u, i, q)
       PROVE  Coming(u, i, p)'
  <2>1. CASE \E v \in Users : Holds(v, i)
    BY <1>10, <2>1 DEF Coming
  <2>2. ASSUME NEW x \in DOMAIN inbox[u], x > q, inbox[u][x].t = "msg", inbox[u][x].id = i
        PROVE  Coming(u, i, p)'
    <3>1. x \in Nat /\ x # 1
      BY <1>12, <1>13, <2>2, SMT
    <3>2. PICK y \in DOMAIN inbox'[u] : x = y + 1 /\ inbox'[u][y] = inbox[u][x]
      BY <1>6, <3>1
    <3>3. y > p
      BY <1>12, <1>13, <2>2, <3>1, <3>2, SMT
    <3> QED
      BY <2>2, <3>2, <3>3 DEF Coming
  <2> QED
    BY <1>13, <2>1, <2>2 DEF Coming
<1>14. ASSUME NEW i, Coming(u, i, 0)
       PROVE  Coming(u, i, 0)' \/ (f.t = "msg" /\ f.id = i)
  <2>1. CASE \E v \in Users : Holds(v, i)
    BY <1>10, <2>1 DEF Coming
  <2>2. ASSUME NEW x \in DOMAIN inbox[u], inbox[u][x].t = "msg", inbox[u][x].id = i, x # 1
        PROVE  Coming(u, i, 0)'
    <3>1. PICK y \in DOMAIN inbox'[u] : x = y + 1 /\ inbox'[u][y] = inbox[u][x]
      BY <1>6, <2>2
    <3>2. y > 0
      <4>1. DOMAIN inbox'[u] = 1..Len(inbox'[u]) /\ Len(inbox'[u]) \in Nat
        BY <1>6, LenProperties
      <4> QED
        BY <4>1, SMT
    <3> QED
      BY <2>2, <3>1, <3>2 DEF Coming
  <2>3. CASE \E x \in DOMAIN inbox[u] : inbox[u][x].t = "msg" /\ inbox[u][x].id = i /\ x = 1
    BY <1>6, <2>3
  <2> QED
    BY <1>14, <2>1, <2>2, <2>3 DEF Coming
<1>15. \A ch \in Channels : log[u][ch] \in Seq(Rows) /\ IsInjective(log[u][ch])
  BY <1>1, TypeParts DEF SpaceInv, ShownOnce
<1>16. /\ outbox' \in [Users -> Seq(Requests)]
       /\ log' \in [Users -> [Channels -> Seq(Rows)]]
       /\ excused' \in [Users -> SUBSET Rows]
       /\ \A w \in Users : w # u => log'[w] = log[w] /\ excused'[w] = excused[w]
       /\ excused[u] \subseteq excused'[u]
       /\ \A ch \in Channels : IsInjective(log'[u][ch])
       /\ \A ch \in Channels, i \in Rows :
             Owed(u, i, ch)' => Coming(u, i, 0)' \/ i \in ToSet(log'[u][ch])
  <2>1. ASSUME NEW ch \in Channels, NEW i \in Rows, Owed(u, i, ch)', excused[u] \subseteq excused'[u]
        PROVE  Owed(u, i, ch) /\ i \notin excused'[u] /\ (Coming(u, i, 0) \/ i \in ToSet(log[u][ch]))
    <3>1. Owed(u, i, ch) /\ i \notin excused'[u]
      BY <1>4, <1>9, <2>1 DEF Owed
    <3> QED
      BY <3>1 DEF SpaceInv, NothingLost
  <2>2. CASE u \notin mounted
    <3>1. /\ log' = log /\ outbox' = outbox
          /\ excused' = IF f.t = "msg" THEN [excused EXCEPT ![u] = @ \cup {f.id}] ELSE excused
      BY <1>2, <2>2 DEF Receive
    <3>2. /\ excused' \in [Users -> SUBSET Rows]
          /\ \A w \in Users : w # u => excused'[w] = excused[w]
          /\ excused[u] \subseteq excused'[u]
          /\ f.t = "msg" => f.id \in excused'[u]
      BY <1>1, <1>7, <3>1 DEF TypeOK
    <3>3. \A ch \in Channels, i \in Rows :
             Owed(u, i, ch)' => Coming(u, i, 0)' \/ i \in ToSet(log[u][ch])
      BY <1>14, <2>1, <3>2
    <3> QED
      BY <1>1, <1>15, <3>1, <3>2, <3>3 DEF TypeOK
  <2>3. CASE u \in mounted
    <3>1. PICK c \in Channels : c = f.ch
      BY <1>7
    <3>2. PICK t : t = Shown(log[u][c], f)
      OBVIOUS
    <3>3. PICK left : left = LeftBehind(log[u][c], f)
      OBVIOUS
    <3>4. /\ log' = [log EXCEPT ![u][c] = t]
          /\ outbox' = outbox \/ Effect(u)
          /\ excused' = [excused EXCEPT ![u] = @ \cup left]
      BY <1>2, <2>3, <3>1, <3>2, <3>3 DEF Receive
    <3>5. /\ t \in Seq(Rows) /\ IsInjective(t) /\ left \in SUBSET Rows
          /\ f.t = "msg" => f.id \in ToSet(t) /\ ToSet(log[u][c]) \subseteq ToSet(t)
          /\ f.t = "history" => t = IF f.page = <<>> THEN log[u][c] ELSE f.page
      BY <1>6, <1>8, <1>15, <3>1, <3>2, <3>3, ShownIs
    <3>6. /\ log' \in [Users -> [Channels -> Seq(Rows)]] /\ log'[u][c] = t
          /\ \A w \in Users : w # u => log'[w] = log[w]
          /\ \A ch \in Channels : ch # c => log'[u][ch] = log[u][ch]
      BY <1>1, <3>4, <3>5 DEF TypeOK
    <3>7. /\ excused' \in [Users -> SUBSET Rows] /\ excused'[u] = excused[u] \cup left
          /\ \A w \in Users : w # u => excused'[w] = excused[w]
      BY <1>1, <3>4, <3>5 DEF TypeOK
    <3>8. outbox' \in [Users -> Seq(Requests)]
      <4>1. outbox \in [Users -> Seq(Requests)] /\ active' \in [Users -> Channels \cup {None}]
        BY <1>1, <1>4 DEF TypeOK
      <4> QED
        BY <1>1, <3>4, <4>1, EffectTyped
    <3>9. ASSUME NEW ch \in Channels, NEW i \in Rows, Owed(u, i, ch)'
          PROVE  Coming(u, i, 0)' \/ i \in ToSet(log'[u][ch])
      <4>1. Owed(u, i, ch) /\ i \notin excused'[u] /\ (Coming(u, i, 0) \/ i \in ToSet(log[u][ch]))
        BY <2>1, <3>7, <3>9
      <4>2. CASE f.t = "msg"
        <5>1. CASE i = f.id
          <6>1. ch = f.ch
            BY <1>8, <4>1, <4>2, <5>1 DEF FrameFits, Owed
          <6> QED
            BY <3>1, <3>5, <3>6, <4>2, <5>1, <6>1
        <5>2. CASE i # f.id
          <6>1. ToSet(log[u][ch]) \subseteq ToSet(log'[u][ch])
            BY <3>5, <3>6, <4>2
          <6> QED
            BY <1>14, <4>1, <5>2, <6>1
        <5> QED
          BY <5>1, <5>2
      <4>3. CASE f.t = "history" /\ (ch # c \/ f.page = <<>>)
        <5>1. log'[u][ch] = log[u][ch]
          BY <3>5, <3>6, <4>3
        <5> QED
          BY <1>14, <4>1, <4>3, <5>1
      <4>4. CASE f.t = "history" /\ ch = c /\ f.page # <<>>
        <5>1. log'[u][ch] = f.page
          BY <3>5, <3>6, <4>4
        <5>2. CASE Coming(u, i, 0)
          BY <1>14, <4>4, <5>2
        <5>3. CASE i \in ToSet(log[u][ch])
          <6>1. Accounts(f.page, i) \/ Coming(u, i, 1)
            BY <1>6, <3>1, <4>1, <4>4 DEF SpaceInv, PagesWhole
          <6>2. CASE Coming(u, i, 1)
            <7>1. 0 \in Nat /\ 1 \in Nat /\ 1 = 0 + 1
              BY SMT
            <7> QED
              BY <1>13, <6>2, <7>1
          <6>3. CASE i < f.page[1]
            <7>1. i \in left
              BY <3>3, <4>4, <5>3, <6>3 DEF LeftBehind
            <7> QED
              BY <3>7, <4>1, <7>1
          <6> QED
            BY <5>1, <6>1, <6>2, <6>3 DEF Accounts
        <5> QED
          BY <4>1, <5>2, <5>3
      <4> QED
        BY <1>7, <4>2, <4>3, <4>4
    <3>10. \A ch \in Channels : IsInjective(log'[u][ch])
      BY <1>15, <3>5, <3>6
    <3> QED
      BY <3>6, <3>7, <3>8, <3>9, <3>10
  <2> QED
    BY <2>2, <2>3
<1>17. TypeOK'
  <2>1. inbox' \in [Users -> Seq(Frames)]
    BY <1>1, <1>3, <1>5, <1>6 DEF TypeOK
  <2> QED
    BY <1>1, <1>4, <1>16, <2>1, SameRowsTyped DEF TypeOK
<1>18. \A w \in Users : \A i, ch : Owed(w, i, ch)' => Owed(w, i, ch)
  BY <1>4, <1>9, <1>16 DEF Owed
<1>19. ASSUME NEW w \in Users, NEW p \in DOMAIN inbox'[w]
       PROVE  \E q \in DOMAIN inbox[w] :
                 /\ inbox'[w][p] = inbox[w][q]
                 /\ \A i : Coming(w, i, q) => Coming(w, i, p)'
  <2>1. CASE w = u
    <3>1. PICK q \in DOMAIN inbox[u] : q = p + 1 /\ inbox'[u][p] = inbox[u][q]
      BY <1>6, <1>19, <2>1
    <3> QED
      BY <1>12, <1>13, <1>19, <2>1, <3>1
  <2>2. CASE w # u
    BY <1>5, <1>11, <1>19, <2>2
  <2> QED
    BY <2>1, <2>2
<1>20. FramesFit'
  <2> SUFFICES ASSUME NEW w \in Users, NEW p \in DOMAIN inbox'[w],
                      NEW g, g = inbox'[w][p], g.t = "msg"
               PROVE  g.ch = msgs[g.id].ch
    BY <1>4 DEF FramesFit, FrameFits
  <2> QED
    BY <1>19 DEF SpaceInv, FramesFit, FrameFits
<1>21. PagesOnce' /\ OwnerStays'
  <2>1. \A w \in Users : \A p \in DOMAIN inbox'[w] : PageOnce(inbox'[w][p])
    BY <1>19 DEF SpaceInv, PagesOnce
  <2> QED
    BY <1>4, <2>1 DEF SpaceInv, PagesOnce, PageOnce, OwnerStays
<1>22. ShownOnce'
  BY <1>16 DEF SpaceInv, ShownOnce
<1>23. NothingLost'
  <2> SUFFICES ASSUME NEW w \in Users, NEW ch \in Channels, NEW i \in Rows, Owed(w, i, ch)'
               PROVE  Coming(w, i, 0)' \/ i \in ToSet(log'[w][ch])
    BY <1>9 DEF NothingLost
  <2>1. CASE w = u
    BY <1>16, <2>1
  <2>2. CASE w # u
    BY <1>11, <1>16, <1>18, <2>2 DEF SpaceInv, NothingLost
  <2> QED
    BY <2>1, <2>2
<1>24. PagesWhole'
  <2> SUFFICES ASSUME NEW w \in Users, NEW p \in DOMAIN inbox'[w], NEW i \in Rows,
                      NEW g, g = inbox'[w][p], g.t = "history", g.page # <<>>,
                      NEW c, c = g.ch, Owed(w, i, c)'
               PROVE  Accounts(g.page, i) \/ Coming(w, i, p)'
    BY <1>4, <1>9 DEF PagesWhole, Accounts, Owed
  <2>1. PICK q \in DOMAIN inbox[w] : g = inbox[w][q] /\ (Coming(w, i, q) => Coming(w, i, p)')
    BY <1>19
  <2> QED
    BY <1>18, <2>1 DEF SpaceInv, PagesWhole
<1>25. AnswersWhole'
  BY <1>4, <1>9, <1>10, <1>18 DEF SpaceInv, AnswersWhole, Accounts
<1> QED
  BY <1>17, <1>20, <1>21, <1>22, <1>23, <1>24, <1>25 DEF SpaceInv

(***************************************************************************)
(* The theorems.                                                           *)
(***************************************************************************)

LEMMA SpaceStep == SpaceInv /\ [Next]_vars => SpaceInv'
<1> SUFFICES ASSUME SpaceInv, [Next]_vars PROVE SpaceInv'
  OBVIOUS
<1>1. CASE UNCHANGED vars
  <2>1. TypeOK' /\ OwnerStays'
    BY <1>1, SameRowsTyped DEF vars, relayVars, clientVars, SpaceInv, TypeOK, OwnerStays
  <2> QED
    BY <1>1, <2>1, QuietStep DEF vars, relayVars, clientVars, SpaceInv
<1>2. ASSUME NEW u \in Users, Relay(u) PROVE SpaceInv'
  BY <1>2, InsertInv, RecipientsInv, FanoutInv, QueryInv, AnswerInv DEF Relay
<1>3. ASSUME NEW u \in Users, Client(u) PROVE SpaceInv'
  BY <1>3, JoinInv, LeaveInv, MountInv, UnmountInv, PostInv, ReceiveInv, CreateInv, OpenInv DEF Client
<1> QED
  BY <1>1, <1>2, <1>3 DEF Next

(* The rows, what is on its way and the screens of a space, at every step. *)
THEOREM SpaceInvariant == Spec => []SpaceInv
BY SpaceInitInv, SpaceStep, PTL DEF Spec

(* Every id on its way, on screen or excused is the id of a row. *)
THEOREM SpaceTyping == Spec => []TypeOK
<1>1. SpaceInv => TypeOK
  BY DEF SpaceInv
<1> QED
  BY SpaceInvariant, <1>1, PTL

(* Joining again and leaving change no owner. *)
THEOREM OwnerKept == Spec => []OwnerStays
<1>1. SpaceInv => OwnerStays
  BY DEF SpaceInv
<1> QED
  BY SpaceInvariant, <1>1, PTL

(* No message is on screen twice, live or in a page of history. *)
THEOREM MessagesShownOnce == Spec => []ShownOnce
<1>1. SpaceInv => ShownOnce
  BY DEF SpaceInv
<1> QED
  BY SpaceInvariant, <1>1, PTL

(* A page is empty only when there is nothing left to show, has all rows   *)
(* before the cursor from its first one on, in order, and the cursor it    *)
(* gives leaves the others to the next page.                               *)
PageStep(ch, before, page) ==
    /\ page = <<>> <=> RowIds(ch, before) = {}
    /\ \A j, k \in DOMAIN page : j < k => page[j] < page[k]
    /\ page # <<>> =>
          /\ ToSet(page) = {i \in RowIds(ch, before) : i >= page[1]}
          /\ RowIds(ch, page[1]) = {i \in RowIds(ch, before) : i < page[1]}

(* Every page is what PageStep says. *)
LEMMA PageSteps ==
    ASSUME TypeOK, NEW ch \in Channels, NEW before \in Nat
    PROVE  PageStep(ch, before, channelHistory(ch, before))
<1> DEFINE S == RowIds(ch, before)
           page == channelHistory(ch, before)
<1>1. PICK m \in Nat : Rows = 1..m
  <2>1. msgs \in Seq([ch : Channels, by : Users])
    BY DEF TypeOK
  <2> QED
    BY <2>1, LenProperties DEF Rows
<1>2. S \in SUBSET (1..m) /\ S = {i \in 1..m : msgs[i].ch = ch /\ (before > 0 => i < before)}
  BY <1>1 DEF RowIds, Rows
<1>3. page = Ascending(Newest(S))
  BY DEF channelHistory
<1> HIDE DEF S, page
<1>4. Newest(S) \in SUBSET (1..m) /\ Newest(S) \subseteq S
  BY <1>2 DEF Newest
<1>5. Newest(S) = {} <=> S = {}
  BY <1>2, <1>4, NewestSome
<1>6. /\ page \in Seq(Newest(S)) /\ ToSet(page) = Newest(S)
      /\ page # <<>> => \A i \in Newest(S) : page[1] <= i
  BY <1>3, <1>4, AscendingIs
<1>7. \A j, k \in DOMAIN page : j < k => page[j] < page[k]
  BY <1>3, <1>4, AscendingRises
<1>8. page = <<>> <=> S = {}
  <2>1. page = <<>> <=> DOMAIN page = {}
    BY <1>6, LenProperties, EmptySeq, SMT
  <2>2. DOMAIN page = {} <=> ToSet(page) = {}
    BY DEF ToSet
  <2> QED
    BY <1>5, <1>6, <2>1, <2>2
<1>9. ASSUME page # <<>>
      PROVE  /\ ToSet(page) = {i \in S : i >= page[1]}
             /\ RowIds(ch, page[1]) = {i \in S : i < page[1]}
  <2>1. PICK first \in Newest(S) : first = page[1]
    BY <1>6, <1>9, ElementOfSeq, LenProperties, EmptySeq, SMT
  <2>2. first \in Nat /\ first > 0 /\ (before > 0 => first < before) /\ \A i \in S : i \in Nat
    BY <1>2, <1>4, SMT
  <2>3. ASSUME NEW i \in S, i >= first PROVE i \in Newest(S)
    <3>1. CASE i = first
      BY <3>1
    <3>2. CASE first < i
      BY <1>2, <3>2, NewestAbove
    <3> QED
      BY <2>2, <2>3, <3>1, <3>2, SMT
  <2>4. \A i \in Newest(S) : i \in S /\ i >= first
    BY <1>4, <1>6, <1>9, <2>1, <2>2, SMT
  <2>5. ToSet(page) = {i \in S : i >= first}
    BY <1>6, <2>3, <2>4
  <2>6. RowIds(ch, first) = {i \in 1..m : msgs[i].ch = ch /\ i < first}
    BY <1>1, <2>2 DEF RowIds, Rows
  <2>7. \A i \in 1..m : i < first => (before > 0 => i < before)
    BY <2>2, SMT
  <2>8. RowIds(ch, first) = {i \in S : i < first}
    BY <1>2, <2>6, <2>7
  <2> QED
    BY <2>1, <2>5, <2>8
<1> QED
  BY <1>7, <1>8, <1>9 DEF PageStep, S, page

(* Following the cursor neither skips nor repeats a message at the border  *)
(* of two pages, at any cursor.                                            *)
THEOREM PagesMeet ==
    Spec => [](\A ch \in Channels, before \in Nat :
                  PageStep(ch, before, channelHistory(ch, before)))
<1>1. TypeOK => \A ch \in Channels, before \in Nat :
                  PageStep(ch, before, channelHistory(ch, before))
  BY PageSteps
<1> QED
  BY SpaceTyping, <1>1, PTL

(* What a page leaves, followed by the page, is the whole list.            *)
LEMMA PageJoins ==
    ASSUME TypeOK, NEW ch \in Channels, NEW before \in Nat,
           channelHistory(ch, before) # <<>>
    PROVE  LET first == channelHistory(ch, before)[1] IN
           /\ first \in Rows /\ (before > 0 => first < before)
           /\ Ascending(RowIds(ch, first)) \o channelHistory(ch, before)
                = Ascending(RowIds(ch, before))
<1> DEFINE S == RowIds(ch, before)
           page == channelHistory(ch, before)
<1>1. PICK m \in Nat : Rows = 1..m
  <2>1. msgs \in Seq([ch : Channels, by : Users])
    BY DEF TypeOK
  <2> QED
    BY <2>1, LenProperties DEF Rows
<1>2. S \in SUBSET (1..m) /\ \A i \in S : before > 0 => i < before
  BY <1>1 DEF RowIds, Rows
<1>3. page = Ascending(Newest(S)) /\ page # <<>>
  BY DEF channelHistory
<1>4. PageStep(ch, before, page)
  BY PageSteps
<1> HIDE DEF S, page
<1>5. Newest(S) \in SUBSET (1..m) /\ Newest(S) \subseteq S
  BY <1>2 DEF Newest
<1>6. page \in Seq(Newest(S)) /\ ToSet(page) = Newest(S)
  BY <1>3, <1>5, AscendingIs
<1>7. PICK first \in Newest(S) : first = page[1]
  BY <1>3, <1>6, ElementOfSeq, LenProperties, EmptySeq, SMT
<1>8. Newest(S) = {i \in S : i >= first} /\ RowIds(ch, first) = {i \in S : i < first}
  BY <1>3, <1>4, <1>6, <1>7 DEF PageStep, S
<1> DEFINE L == {i \in S : i < first}
<1>9. L \in SUBSET (1..m) /\ first \in 1..m /\ \A i \in S : i \in Int
  <2>1. first \in S /\ \A i \in S : i \in 1..m
    BY <1>2, <1>5
  <2>2. \A i \in 1..m : i \in Int
    BY SMT
  <2> QED
    BY <2>1, <2>2
<1>10. \A a \in L, b \in Newest(S) : a < b
  BY <1>8, <1>9, SMT
<1>11. L \cup Newest(S) = S
  BY <1>8, <1>9, SMT
<1> HIDE DEF L
<1>12. Ascending(S) = Ascending(L) \o Ascending(Newest(S))
  <2>1. L \in SUBSET (1..m) /\ Newest(S) \in SUBSET (1..m)
    BY <1>5, <1>9
  <2>2. Ascending(L \cup Newest(S)) = Ascending(L) \o Ascending(Newest(S))
    BY <1>10, <2>1, AscendingJoins, Zenon
  <2> QED
    BY <1>11, <2>2
<1>13. Ascending(RowIds(ch, first)) \o page = Ascending(S)
  <2>1. RowIds(ch, first) = L
    BY <1>8 DEF L
  <2> QED
    BY <1>3, <1>12, <2>1, Zenon
<1> QED
  BY <1>1, <1>2, <1>5, <1>7, <1>9, <1>13 DEF S, page

(* One step back from the cursor n, when back has the walk from the next   *)
(* cursor; and the function that takes these steps.                        *)
StepBack(ch, back, n) ==
    LET page == channelHistory(ch, n) IN
    IF page = <<>> THEN <<>>
    ELSE IF page[1] = n THEN page
    ELSE back[page[1]] \o page

WalksBack(ch, back) == back = [n \in 0..Len(msgs) |-> StepBack(ch, back, n)]

LEMMA WalkIs ==
    ASSUME NEW ch
    PROVE  Walk(ch) = (CHOOSE back : WalksBack(ch, back))[0]
BY DEF Walk, WalksBack, StepBack

(* A step back is right when the walk from the next cursor is.             *)
LEMMA StepBackIs ==
    ASSUME TypeOK, NEW ch \in Channels, NEW n \in 0..Len(msgs), NEW back,
           \A k \in Rows : (n > 0 => k < n) => back[k] = Ascending(RowIds(ch, k))
    PROVE  StepBack(ch, back, n) = Ascending(RowIds(ch, n))
<1> DEFINE page == channelHistory(ch, n)
<1>1. PICK m \in Nat : Rows = 1..m /\ Len(msgs) = m
  <2>1. msgs \in Seq([ch : Channels, by : Users])
    BY DEF TypeOK
  <2> QED
    BY <2>1, LenProperties DEF Rows
<1>2. n \in Nat
  BY <1>1, SMT
<1>3. CASE page = <<>>
  <2>1. RowIds(ch, n) = {}
    BY <1>2, <1>3, PageSteps DEF PageStep
  <2>2. Ascending({}) \in Seq({})
    BY <1>1, AscendingIs
  <2>3. Ascending({}) = <<>>
    BY <2>2, SMT
  <2> QED
    BY <1>3, <2>1, <2>3 DEF StepBack
<1>4. CASE page # <<>>
  <2>1. /\ page[1] \in Rows /\ (n > 0 => page[1] < n)
        /\ Ascending(RowIds(ch, page[1])) \o page = Ascending(RowIds(ch, n))
    BY <1>2, <1>4, PageJoins
  <2>2. page[1] # n
    BY <1>1, <1>2, <2>1, SMT
  <2>3. StepBack(ch, back, n) = back[page[1]] \o page
    BY <1>4, <2>2 DEF StepBack
  <2> QED
    BY <2>1, <2>3
<1> QED
  BY <1>3, <1>4

(* There is such a function, and it gives the whole list at every cursor:  *)
(* at the least cursor where it would not, the step back is right.         *)
LEMMA WalkCovers ==
    ASSUME TypeOK, NEW ch \in Channels
    PROVE  Walk(ch) = Ascending(RowIds(ch, 0))
<1> DEFINE whole == [n \in 0..Len(msgs) |-> Ascending(RowIds(ch, n))]
           back == CHOOSE f : WalksBack(ch, f)
<1>1. PICK m \in Nat : Rows = 1..m /\ Len(msgs) = m
  <2>1. msgs \in Seq([ch : Channels, by : Users])
    BY DEF TypeOK
  <2> QED
    BY <2>1, LenProperties DEF Rows
<1>2. WalksBack(ch, whole)
  <2>1. \A k \in Rows : whole[k] = Ascending(RowIds(ch, k))
    BY <1>1, SMT
  <2>2. \A n \in 0..Len(msgs) : whole[n] = Ascending(RowIds(ch, n))
    OBVIOUS
  <2>3. whole = [n \in 0..Len(msgs) |-> whole[n]]
    OBVIOUS
  <2> HIDE DEF whole
  <2>4. \A n \in 0..Len(msgs) : StepBack(ch, whole, n) = whole[n]
    BY <2>1, <2>2, StepBackIs
  <2>5. [n \in 0..Len(msgs) |-> whole[n]] = [n \in 0..Len(msgs) |-> StepBack(ch, whole, n)]
    BY <2>4
  <2> QED
    BY <2>3, <2>5 DEF WalksBack
<1>3. WalksBack(ch, back)
  BY <1>2
<1> HIDE DEF back, whole
<1>4. \A n \in 0..m : back[n] = StepBack(ch, back, n)
  <2>1. back = [n \in 0..m |-> StepBack(ch, back, n)]
    BY <1>1, <1>3 DEF WalksBack
  <2> HIDE <1>3
  <2> QED
    BY <2>1
<1> DEFINE Bad == {n \in Rows : back[n] # Ascending(RowIds(ch, n))}
<1>5. Bad = {}
  <2> SUFFICES ASSUME Bad # {} PROVE FALSE
    OBVIOUS
  <2>1. Bad \in SUBSET Nat
    BY <1>1, SMT
  <2>2. PICK n \in Bad : \A y \in Bad : n <= y
    BY <2>1, SmallestId
  <2>3. n \in Rows /\ back[n] # Ascending(RowIds(ch, n))
    BY <2>2
  <2>4. n \in 0..m /\ n > 0 /\ \A k \in Rows : k \in Int /\ n \in Int
    BY <1>1, <2>3, SMT
  <2>5. ASSUME NEW k \in Rows, n > 0 => k < n PROVE back[k] = Ascending(RowIds(ch, k))
    <3>1. ~ (n <= k)
      BY <2>4, <2>5, SMT
    <3> QED
      BY <2>2, <3>1
  <2>6. StepBack(ch, back, n) = Ascending(RowIds(ch, n))
    BY <1>1, <2>4, <2>5, StepBackIs
  <2> QED
    BY <1>4, <2>3, <2>4, <2>6
<1>6. \A k \in Rows : back[k] = Ascending(RowIds(ch, k))
  BY <1>5
<1>7. 0 \in 0..m
  BY SMT
<1>8. StepBack(ch, back, 0) = Ascending(RowIds(ch, 0))
  BY <1>1, <1>6, <1>7, StepBackIs
<1>9. back[0] = Ascending(RowIds(ch, 0))
  BY <1>4, <1>7, <1>8
<1> QED
  BY <1>9, WalkIs DEF back

(* A client that follows the cursor from the newest page back has every    *)
(* message of the channel, once and in order, whatever the page size.      *)
THEOREM CursorsCover == Spec => []PagesCover
<1>1. TypeOK => PagesCover
  <2> SUFFICES ASSUME TypeOK, NEW ch \in chans
               PROVE  Walk(ch) = Ascending(RowIds(ch, 0))
    BY DEF PagesCover
  <2>1. ch \in Channels
    BY DEF TypeOK
  <2> QED
    BY <2>1, WalkCovers
<1> QED
  BY SpaceTyping, <1>1, PTL

(* Whatever the size of a page and the order in which messages, pages and  *)
(* posters' handlers cross, only what the excuses name is missing.         *)
THEOREM NoMessageMissing == Spec => []NoGapUnlessRaced
<1>1. SpaceInv => NoGapUnlessRaced
  <2> SUFFICES ASSUME SpaceInv, NEW u \in Users, NEW ch \in Channels, Settled(u),
                      NEW i \in RowIds(ch, 0) \ excused[u]
               PROVE  i \in ToSet(log[u][ch])
    BY DEF NoGapUnlessRaced
  <2>1. i \in Rows /\ Owed(u, i, ch)
    BY DEF RowIds, Rows, Owed
  <2>2. ~ Coming(u, i, 0)
    BY IdleIs DEF Settled, Coming, Holds
  <2> QED
    BY <2>1, <2>2 DEF SpaceInv, NothingLost
<1> QED
  BY SpaceInvariant, <1>1, PTL
===============================================================================
