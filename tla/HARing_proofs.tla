----------------------------- MODULE HARing_proofs -----------------------------
(***************************************************************************)
(* Proofs about HARing, for every set of clusters and lists of any length. *)
(***************************************************************************)
EXTENDS HARing, SequenceTheorems, NaturalsInduction, WellFoundedInduction, TLAPS

USE RingAssumption

Lists == Seq(Clusters) \ {<<>>}

-----------------------------------------------------------------------------
(* Lists of URLs. *)

\* A list of URLs is a sequence that is not empty.
LEMMA UrlListsAreLists == UrlLists \subseteq Lists
<1> SUFFICES ASSUME NEW ring \in UrlLists PROVE ring \in Lists
  OBVIOUS
<1>1. PICK n \in 1..MaxUrls : ring \in [1..n -> Clusters]
  BY DEF UrlLists
<1>2. n \in Nat /\ n >= 1
  BY <1>1
<1>3. ring \in Seq(Clusters)
  BY <1>1, <1>2, SeqDef
<1>4. 1 \in DOMAIN ring /\ DOMAIN <<>> = {}
  BY <1>1, <1>2
<1> QED
  BY <1>3, <1>4 DEF Lists

\* What a list of URLs is, for the lemmas below.
LEMMA ListShape ==
    ASSUME NEW s \in Lists
    PROVE  /\ Len(s) \in Nat \ {0} /\ DOMAIN s = 1..Len(s)
           /\ s \in [1..Len(s) -> Clusters] /\ 1 \in 1..Len(s) /\ s[1] \in ToSet(s)
<1>1. /\ s \in Seq(Clusters) /\ s # <<>>
  BY DEF Lists
<1>2. Len(s) \in Nat \ {0} /\ DOMAIN s = 1..Len(s) /\ s \in [1..Len(s) -> Clusters]
  BY <1>1, EmptySeq, LenProperties
<1> QED
  BY <1>2 DEF ToSet

\* Functions on the first numbers are lists.
LEMMA ListFromFunction ==
    ASSUME NEW n \in Nat \ {0}, NEW s \in [1..n -> Clusters]
    PROVE  s \in Lists /\ Len(s) = n
<1>1. s \in Seq(Clusters)
  BY SeqDef
<1>2. Len(s) = n
  BY <1>1, LenProperties
<1>3. s # <<>>
  BY <1>2
<1> QED
  BY <1>1, <1>2, <1>3 DEF Lists

\* Position finds a place where the cluster is.
LEMMA PositionFound ==
    ASSUME NEW s \in Lists, NEW c \in ToSet(s)
    PROVE  Position(s, c) \in 1..Len(s) /\ s[Position(s, c)] = c
<1> DEFINE T == {i \in 1..Len(s) : s[i] = c}
<1>1. T \subseteq Nat /\ T # {}
  BY ListShape DEF ToSet
<1>2. IsWellFoundedOn(OpToRel(<, Nat), Nat)
  BY NatLessThanWellFounded
<1>3. \E x \in T : \A y \in T : ~ (<<y, x>> \in OpToRel(<, Nat))
  BY <1>1, <1>2, WFMin
<1>4. \A x, y \in Nat : y < x => <<y, x>> \in OpToRel(<, Nat)
  BY DEF OpToRel
<1>5. PICK i \in T : \A j \in T : ~(j < i)
  BY <1>1, <1>3, <1>4
<1>6. i \in DOMAIN s /\ s[i] = c /\ \A j \in 1..(i - 1) : s[j] # c
  BY <1>5, ListShape
<1>7. Position(s, c) \in DOMAIN s /\ s[Position(s, c)] = c
  BY <1>6 DEF Position
<1> QED
  BY <1>7, ListShape

\* Moving the primary to the front loses no URL, and adds only the primary.
LEMMA MovedToFront ==
    ASSUME NEW s \in Lists, NEW c \in Clusters
    PROVE  LET m == MoveToFront(s, c)
           IN  /\ m \in Lists /\ m[1] = c
               /\ ToSet(s) \cup {c} \subseteq ToSet(m)
               /\ IsInjective(s) => IsInjective(m)
<1> DEFINE n == Len(s)
<1>1. n \in Nat \ {0} /\ s \in [1..n -> Clusters] /\ DOMAIN s = 1..n
  BY ListShape
<1>2. CASE c \in ToSet(s)
  <2>1. PICK p \in 1..n : p = Position(s, c) /\ s[p] = c
    BY <1>2, PositionFound
  <2>2. PICK m : m = [s EXCEPT ![1] = c, ![p] = s[1]]
    OBVIOUS
  <2>3. m = MoveToFront(s, c)
    BY <1>2, <2>1, <2>2 DEF MoveToFront
  <2>4. /\ m \in [1..n -> Clusters]
        /\ m[1] = c /\ m[p] = s[1]
        /\ \A i \in 1..n : i # 1 /\ i # p => m[i] = s[i]
    BY <1>1, <2>1, <2>2
  <2>5. m \in Lists /\ DOMAIN m = 1..n
    BY <1>1, <2>4, ListFromFunction
  <2>6. ToSet(s) \cup {c} \subseteq ToSet(m)
    <3>1. ASSUME NEW i \in 1..n PROVE s[i] \in ToSet(m)
      BY <1>1, <2>1, <2>4, <2>5 DEF ToSet
    <3> QED
      BY <1>1, <2>1, <3>1 DEF ToSet
  <2>7. IsInjective(s) => IsInjective(m)
    BY <1>1, <2>1, <2>4, <2>5 DEF IsInjective
  <2> QED
    BY <2>3, <2>4, <2>5, <2>6, <2>7
<1>3. CASE c \notin ToSet(s)
  <2>1. PICK m : m = <<c>> \o s
    OBVIOUS
  <2>2. m = MoveToFront(s, c)
    BY <1>3, <2>1 DEF MoveToFront
  <2>3. <<c>> \in Seq(Clusters) /\ Len(<<c>>) = 1 /\ <<c>>[1] = c /\ s \in Seq(Clusters)
    BY DEF Lists
  <2>4. /\ m \in Seq(Clusters) /\ Len(m) = 1 + n
        /\ \A i \in 1..(1 + n) : m[i] = IF i <= 1 THEN <<c>>[i] ELSE s[i - 1]
    BY <1>1, <2>1, <2>3, ConcatProperties
  <2>5. m[1] = c /\ \A i \in 1..n : m[i + 1] = s[i]
    BY <1>1, <2>3, <2>4
  <2>6. m \in Lists /\ DOMAIN m = 1..(n + 1)
    <3>1. DOMAIN m = 1..(n + 1) /\ m \in [1..(n + 1) -> Clusters]
      BY <1>1, <2>4, LenProperties
    <3> QED
      BY <1>1, <3>1, ListFromFunction
  <2>7. ToSet(s) \cup {c} \subseteq ToSet(m)
    <3>1. ASSUME NEW i \in 1..n PROVE s[i] \in ToSet(m)
      <4>1. i + 1 \in DOMAIN m /\ m[i + 1] = s[i]
        BY <1>1, <2>5, <2>6
      <4> QED
        BY <4>1 DEF ToSet
    <3>2. c \in ToSet(m)
      BY <1>1, <2>5, <2>6 DEF ToSet
    <3> QED
      BY <1>1, <3>1, <3>2 DEF ToSet
  <2>8. ASSUME IsInjective(s) PROVE IsInjective(m)
    <3>1. ASSUME NEW a \in 1..(n + 1), NEW b \in 1..(n + 1), m[a] = m[b], a # b PROVE FALSE
      <4>1. \A i \in 1..n : s[i] # c
        BY <1>1, <1>3 DEF ToSet
      <4>2. \A i \in 1..(n + 1) : i = 1 \/ (i - 1 \in 1..n /\ m[i] = s[i - 1])
        BY <1>1, <2>4
      <4>3. a # 1 /\ b # 1
        BY <2>5, <3>1, <4>1, <4>2
      <4>4. a - 1 \in 1..n /\ b - 1 \in 1..n /\ s[a - 1] = s[b - 1]
        BY <3>1, <4>2, <4>3
      <4>5. a - 1 = b - 1
        BY <1>1, <2>8, <4>4 DEF IsInjective
      <4> QED
        BY <1>1, <3>1, <4>5
    <3> QED
      BY <2>6, <3>1 DEF IsInjective
  <2> QED
    BY <2>2, <2>5, <2>6, <2>7, <2>8
<1> QED
  BY <1>2, <1>3
\* The URL in use is added to the server's list when it is missing.
LEMMA GivenAdded ==
    ASSUME urls \in Lists, NEW ring \in Lists
    PROVE  /\ WithGiven(ring) \in Lists
           /\ urls[1] \in ToSet(WithGiven(ring))
           /\ WithGiven(ring)[1] = ring[1]
           /\ IsInjective(ring) => IsInjective(WithGiven(ring))
<1> DEFINE n == Len(ring)
<1>1. n \in Nat \ {0} /\ ring \in [1..n -> Clusters] /\ DOMAIN ring = 1..n /\ urls[1] \in Clusters
  BY ListShape
<1>2. CASE urls[1] \in ToSet(ring)
  BY <1>2 DEF WithGiven
<1>3. CASE urls[1] \notin ToSet(ring)
  <2>1. PICK c \in Clusters : c = urls[1]
    BY <1>1
  <2>2. PICK m : m = Append(ring, c)
    OBVIOUS
  <2>3. WithGiven(ring) = m
    BY <1>3, <2>1, <2>2 DEF WithGiven
  <2>4. /\ m \in Seq(Clusters) /\ Len(m) = n + 1
        /\ \A i \in 1..n : m[i] = ring[i]
        /\ m[n + 1] = c
    BY <1>1, <2>2, AppendProperties DEF Lists
  <2>5. DOMAIN m = 1..(n + 1) /\ m \in Lists
    <3>1. DOMAIN m = 1..(n + 1) /\ m \in [1..(n + 1) -> Clusters]
      BY <1>1, <2>4, LenProperties
    <3> QED
      BY <1>1, <3>1, ListFromFunction
  <2>6. c \in ToSet(m) /\ m[1] = ring[1]
    BY <1>1, <2>4, <2>5 DEF ToSet
  <2>7. ASSUME IsInjective(ring) PROVE IsInjective(m)
    <3>1. \A i \in 1..n : ring[i] # c
      BY <1>1, <1>3, <2>1 DEF ToSet
    <3>2. \A i \in 1..(n + 1) : i \in 1..n \/ i = n + 1
      BY <1>1
    <3> QED
      BY <1>1, <2>4, <2>5, <2>7, <3>1, <3>2 DEF IsInjective
  <2> QED
    BY <2>1, <2>3, <2>5, <2>6, <2>7
<1> QED
  BY <1>2, <1>3

-----------------------------------------------------------------------------
(* The inductive invariant. *)

\* The cluster the application asked for.
Wanted == IF asked # NoCluster THEN asked ELSE given[1]

TypeInv ==
    /\ pc \in {"primary", "discover", "hm", "randomize", "done", "failed"}
    /\ given \in Lists /\ urls \in Lists /\ listed \in Seq(Clusters)
    /\ {asked, primaryStr, primaryPtr} \subseteq Clusters \cup {NoCluster}
    /\ primaryNormal \in BOOLEAN

\* Until the primary is handled there is the user's list alone.
GivenInv ==
    pc = "primary" => /\ urls = given /\ listed = <<>>
                      /\ primaryStr = asked /\ primaryPtr = NoCluster

\* From then on the ring has the cluster asked for; it is the one in use, and
\* first, until the server's list is taken over.  The primary is first unless
\* the server's list was taken over without looking for it; then the server's
\* first cluster is.
BuiltInv ==
    pc \in {"discover", "hm", "randomize", "done"} =>
        /\ primaryPtr = primaryStr
        /\ Wanted \in ToSet(urls)
        /\ pc = "discover" => listed = <<>> /\ urls[1] = Wanted
        /\ primaryPtr # NoCluster =>
              urls[1] = IF listed = <<>> \/ ~primaryNormal THEN primaryPtr ELSE listed[1]
        /\ IsInjective(given) /\ IsInjective(listed) => IsInjective(urls)

FinishedInv ==
    /\ pc \in {"randomize", "done"} => hmUrls = urls
    /\ pc = "done" => urlIndices \in Shuffles(Len(urls), primaryPtr)

RingInv == TypeInv /\ GivenInv /\ BuiltInv /\ FinishedInv

-----------------------------------------------------------------------------

\* What handlePrimaryURL does with a list.
LEMMA PrimaryHandled ==
    ASSUME TypeInv, NEW us \in Lists
    PROVE  LET r == HandlePrimary(us)
           IN  /\ r.urls \in Lists /\ r.ptr = r.str
               /\ r.str \in Clusters \cup {NoCluster} /\ r.normal \in BOOLEAN
               /\ ToSet(us) \subseteq ToSet(r.urls)
               /\ IsInjective(us) => IsInjective(r.urls)
               /\ r.ptr # NoCluster /\ ~r.normal => r.urls[1] = r.ptr
               /\ primaryPtr = NoCluster /\ r.ptr # NoCluster => r.urls[1] = r.ptr
               /\ primaryPtr = primaryStr /\ r.ptr # NoCluster /\ r.normal => r.urls[1] = us[1]
               /\ primaryStr # NoCluster => r.ptr = primaryStr
               /\ primaryStr = NoCluster /\ primaryPtr = NoCluster => r.urls[1] = us[1]
<1>1. PICK str : str = IF primaryStr = NoCluster /\ Len(us) = 1 THEN us[1] ELSE primaryStr
  OBVIOUS
<1>2. PICK normal \in BOOLEAN :
        normal = ((primaryStr = NoCluster /\ Len(us) = 1) \/ primaryNormal)
  BY DEF TypeInv
<1>3. PICK list : list = IF \/ str = NoCluster
                            \/ primaryPtr # NoCluster /\ primaryPtr = str /\ normal
                         THEN us ELSE MoveToFront(us, str)
  OBVIOUS
<1>4. HandlePrimary(us) = [urls |-> list, str |-> str, normal |-> normal, ptr |-> str]
  BY <1>1, <1>2, <1>3 DEF HandlePrimary
<1>5. us[1] \in Clusters /\ primaryStr \in Clusters \cup {NoCluster}
  BY ListShape DEF TypeInv
<1>6. str \in Clusters \cup {NoCluster}
  BY <1>1, <1>5
<1>7. str # NoCluster =>
        LET m == MoveToFront(us, str)
        IN  /\ m \in Lists /\ m[1] = str /\ ToSet(us) \subseteq ToSet(m)
            /\ IsInjective(us) => IsInjective(m)
  BY <1>6, MovedToFront
<1>8. /\ list \in Lists /\ ToSet(us) \subseteq ToSet(list)
      /\ IsInjective(us) => IsInjective(list)
  BY <1>3, <1>7
<1>9. str # NoCluster /\ (~normal \/ primaryPtr = NoCluster) => list[1] = str
  BY <1>3, <1>7
<1>12. primaryPtr = primaryStr /\ str # NoCluster /\ normal => list[1] = us[1]
  <2>1. CASE primaryStr = NoCluster
    <3>1. str # NoCluster => Len(us) = 1 /\ str = us[1]
      BY <1>1, <2>1
    <3> QED
      BY <1>3, <1>7, <2>1, <3>1
  <2>2. CASE primaryStr # NoCluster
    BY <1>1, <1>3, <2>2
  <2> QED
    BY <2>1, <2>2
<1>10. primaryStr # NoCluster => str = primaryStr
  BY <1>1
<1>11. primaryStr = NoCluster /\ primaryPtr = NoCluster => list[1] = us[1]
  BY <1>1, <1>3, <1>7
<1> QED
  BY <1>2, <1>4, <1>6, <1>8, <1>9, <1>10, <1>11, <1>12

\* The invariant before the constructor has built anything.
LEMMA InitHolds == Init => RingInv
<1> SUFFICES ASSUME Init PROVE RingInv
  OBVIOUS
<1>1. given \in Lists /\ <<>> \in Seq(Clusters)
  BY UrlListsAreLists DEF Init
<1>2. TypeInv
  BY <1>1 DEF Init, TypeInv
<1> QED
  BY <1>2 DEF Init, RingInv, GivenInv, BuiltInv, FinishedInv

\* Every step of the constructor keeps the invariant.
LEMMA NextHolds == RingInv /\ [Next]_vars => RingInv'
<1> SUFFICES ASSUME RingInv, [Next]_vars PROVE RingInv'
  OBVIOUS
<1> USE DEF inputs, primary
<1>a. TypeInv /\ GivenInv /\ BuiltInv /\ FinishedInv
  BY DEF RingInv
<1>1. CASE HandlePrimaryURL
  <2>1. PICK r : r = HandlePrimary(urls)
    OBVIOUS
  <2>2. /\ urls' = r.urls /\ primaryStr' = r.str /\ primaryNormal' = r.normal
        /\ primaryPtr' = r.ptr /\ pc = "primary" /\ pc' = "discover"
        /\ UNCHANGED <<given, asked, listed>>
    BY <1>1, <2>1 DEF HandlePrimaryURL, SetPrimary
  <2>3. urls = given /\ urls \in Lists /\ listed = <<>> /\ primaryStr = asked /\ primaryPtr = NoCluster
    BY <1>a, <2>2 DEF GivenInv, TypeInv
  <2>4. /\ r.urls \in Lists /\ r.ptr = r.str
        /\ r.str \in Clusters \cup {NoCluster} /\ r.normal \in BOOLEAN
        /\ IsInjective(urls) => IsInjective(r.urls)
        /\ r.ptr # NoCluster => r.urls[1] = r.ptr
        /\ asked # NoCluster => r.ptr = asked
        /\ asked = NoCluster => r.urls[1] = urls[1]
    BY <1>a, <2>1, <2>3, PrimaryHandled
  <2>5. r.urls[1] = Wanted
    BY <2>3, <2>4 DEF Wanted
  <2>6. TypeInv'
    BY <1>a, <2>2, <2>4 DEF TypeInv
  <2>7. r.urls[1] \in ToSet(r.urls)
    BY <2>4, ListShape
  <2>8. BuiltInv'
    BY <2>2, <2>3, <2>4, <2>5, <2>7 DEF BuiltInv, Wanted
  <2> QED
    BY <2>2, <2>6, <2>8 DEF RingInv, GivenInv, FinishedInv
<1>2. CASE PrimaryMalformed \/ DiscoverMalformed
  <2>1. UNCHANGED <<given, asked, listed, urls, primaryStr, primaryNormal, primaryPtr>> /\ pc' = "failed"
    BY <1>2 DEF PrimaryMalformed, DiscoverMalformed
  <2> QED
    BY <1>a, <2>1 DEF RingInv, TypeInv, GivenInv, BuiltInv, FinishedInv
<1>3. CASE DiscoverNothing \/ UpdateHostManagerUrls
  <2>1. /\ UNCHANGED <<given, asked, listed, urls, primaryStr, primaryNormal, primaryPtr>>
        /\ pc \in {"discover", "hm"} /\ pc' \in {"hm", "randomize"}
        /\ pc' = "randomize" => hmUrls' = urls
    BY <1>3 DEF DiscoverNothing, UpdateHostManagerUrls
  <2> QED
    BY <1>a, <2>1 DEF RingInv, TypeInv, GivenInv, BuiltInv, FinishedInv, Wanted
<1>4. ASSUME NEW ring \in UrlLists, DiscoverRing(ring) PROVE RingInv'
  <2>1. PICK w : w = WithGiven(ring)
    OBVIOUS
  <2>2. PICK r : r = HandlePrimary(w)
    OBVIOUS
  <2>3. /\ urls' = r.urls /\ primaryStr' = r.str /\ primaryNormal' = r.normal
        /\ primaryPtr' = r.ptr /\ pc = "discover" /\ pc' = "hm"
        /\ UNCHANGED <<given, asked>> /\ listed' = ring
    BY <1>4, <2>1, <2>2 DEF DiscoverRing, SetPrimary
  <2>4. ring \in Lists /\ urls \in Lists /\ urls[1] = Wanted
    BY <1>a, <2>3, UrlListsAreLists DEF BuiltInv, TypeInv
  <2>5. w \in Lists /\ Wanted \in ToSet(w) /\ w[1] = ring[1] /\ (IsInjective(ring) => IsInjective(w))
    BY <2>1, <2>4, GivenAdded
  <2>10. primaryPtr = primaryStr
    BY <1>a, <2>3 DEF BuiltInv
  <2>6. /\ r.urls \in Lists /\ r.ptr = r.str
        /\ r.str \in Clusters \cup {NoCluster} /\ r.normal \in BOOLEAN
        /\ ToSet(w) \subseteq ToSet(r.urls)
        /\ IsInjective(w) => IsInjective(r.urls)
        /\ r.ptr # NoCluster /\ ~r.normal => r.urls[1] = r.ptr
        /\ r.ptr # NoCluster /\ r.normal => r.urls[1] = w[1]
    BY <2>10, <1>a, <2>2, <2>5, PrimaryHandled
  <2>7. TypeInv'
    BY <1>a, <2>3, <2>4, <2>6 DEF TypeInv, Lists
  <2>8. listed' # <<>> /\ Wanted' = Wanted
    BY <2>3, <2>4 DEF Lists, Wanted
  <2>9. BuiltInv'
    BY <2>3, <2>5, <2>6, <2>8 DEF BuiltInv
  <2> QED
    BY <2>3, <2>7, <2>9 DEF RingInv, GivenInv, FinishedInv
<1>5. CASE RandomizeURLs
  <2>1. /\ UNCHANGED <<given, asked, listed, urls, hmUrls, primaryStr, primaryNormal, primaryPtr>>
        /\ pc = "randomize" /\ pc' = "done"
        /\ urlIndices' \in Shuffles(Len(urls), primaryPtr)
    BY <1>5 DEF RandomizeURLs
  <2> QED
    BY <1>a, <2>1 DEF RingInv, TypeInv, GivenInv, BuiltInv, FinishedInv, Wanted
<1>6. CASE Terminated \/ UNCHANGED vars
  BY <1>a, <1>6 DEF Terminated, vars, RingInv, TypeInv, GivenInv, BuiltInv, FinishedInv, Wanted
<1> QED
  BY <1>1, <1>2, <1>3, <1>4, <1>5, <1>6 DEF Next

-----------------------------------------------------------------------------
(* The results. *)

\* The invariant holds for every list of the user and of the server.
THEOREM Invariance == Spec => []RingInv
  BY InitHolds, NextHolds, PTL DEF Spec

\* When the constructor is done, its three lists are of one ring: head nodes and
\* host managers agree position by position, and the indices are an order of all.
THEOREM ConsistentCorrect == Spec => []RingConsistent
<1>1. RingInv => RingConsistent
  BY DEF RingInv, FinishedInv, RingConsistent, Shuffles
<1> QED
  BY <1>1, Invariance, PTL

\* The cluster the application asked for stays in the ring, whatever the server
\* lists.
THEOREM GivenClusterCorrect == Spec => []GivenClusterKept
<1>1. RingInv => GivenClusterKept
  BY DEF RingInv, BuiltInv, Wanted, GivenClusterKept
<1> QED
  BY <1>1, Invariance, PTL

\* No cluster comes into the ring twice that was not listed twice.
THEOREM NoDuplicatesCorrect == Spec => []NoDuplicates
<1>1. RingInv => NoDuplicates
  BY DEF RingInv, BuiltInv, NoDuplicates
<1> QED
  BY <1>1, Invariance, PTL

\* Position 0, where a walk begins and which the failback resets to, is the
\* primary's, or the first cluster's of a server's list that was taken over
\* without looking for the primary: no shuffle moves what comes first.
THEOREM HomeClusterCorrect == Spec => []HomeCluster
<1>1. RingInv => HomeCluster
  BY DEF RingInv, BuiltInv, FinishedInv, HomeCluster, Shuffles
<1> QED
  BY <1>1, Invariance, PTL
=============================================================================
