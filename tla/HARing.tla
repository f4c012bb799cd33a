-------------------------------- MODULE HARing --------------------------------
(***************************************************************************)
(* How the constructor of gpudb::GPUdb builds the ring that HAFailover     *)
(* walks (src/gpudb/GPUdb.cpp: init, handlePrimaryURL,                     *)
(* getHAringHeadNodeAddresses, updateHostManagerUrls, randomizeURLs).      *)
(*                                                                         *)
(* A URL is the cluster it names.  The one thing its spelling matters for  *)
(* is the comparison of the primary's text with the text of the URL parsed *)
(* from it, so primaryNormal says whether the text is already what HttpUrl *)
(* makes of it (http://host:9191/ rather than http://host:9191).           *)
(***************************************************************************)
EXTENDS Naturals, SequencesExt

CONSTANTS
    Clusters,
    NoCluster,  \* an empty string, a null pointer
    MaxUrls     \* bound: URLs in the user's list and in the server's list

ASSUME RingAssumption == NoCluster \notin Clusters /\ MaxUrls \in Nat \ {0}

VARIABLES
    given,         \* the list of URLs the user gave (history)
    asked,         \* Options::getPrimaryUrl() (history)
    listed,        \* the ring the server listed, <<>> when it listed none (history)
    urls,          \* m_urls
    hmUrls,        \* m_hmUrls: the cluster of each
    primaryStr,    \* m_primaryUrlStr
    primaryNormal, \* m_primaryUrlStr is in HttpUrl's own spelling
    primaryPtr,    \* *m_primaryUrlPtr
    urlIndices,    \* m_urlIndices, positions from 1
    pc             \* where init() is

inputs == <<given, asked, listed>>
primary == <<primaryStr, primaryNormal, primaryPtr>>
vars == <<inputs, urls, hmUrls, primary, urlIndices, pc>>

UrlLists == UNION {[1..n -> Clusters] : n \in 1..MaxUrls}

Orders(n) == {p \in [1..n -> 1..n] : IsInjective(p)}

ShuffleAll(n, ptr) == Orders(n) \* mutant: the primary's index moves too
\* randomizeURLs: any order, the first index kept first with a primary.
Shuffles(n, ptr) == {p \in Orders(n) : ptr # NoCluster => p[1] = 1}

Position(s, c) ==
    CHOOSE i \in DOMAIN s : s[i] = c /\ \A j \in 1..(i - 1) : s[j] # c

\* std::iter_swap with the first element, or insertion before it.
AlwaysInsert(s, c) == <<c>> \o s \* mutant: does not look for the primary in the list
MoveToFront(s, c) ==
    IF c \in ToSet(s)
    THEN [s EXCEPT ![1] = c, ![Position(s, c)] = s[1]]
    ELSE <<c>> \o s

\* handlePrimaryURL on a list of URLs: the new list and primary.  Without an
\* explicit primary the only URL of a list of one becomes it, in HttpUrl's
\* spelling.  A primary whose text equals the text of the URL already parsed
\* from it counts as processed, and the list is left as it is.
HandlePrimary(us) ==
    LET single == primaryStr = NoCluster /\ Len(us) = 1
        str    == IF single THEN us[1] ELSE primaryStr
        normal == single \/ primaryNormal
        done   == primaryPtr # NoCluster /\ primaryPtr = str /\ normal
    IN  [urls   |-> IF str = NoCluster \/ done THEN us ELSE MoveToFront(us, str),
         str    |-> str,
         normal |-> normal,
         ptr    |-> str]

SetPrimary(r) ==
    /\ urls' = r.urls
    /\ primaryStr' = r.str
    /\ primaryNormal' = r.normal
    /\ primaryPtr' = r.ptr

-----------------------------------------------------------------------------

Init ==
    /\ given \in UrlLists
    /\ asked \in Clusters \cup {NoCluster}
    /\ listed = <<>>
    /\ urls = given
    /\ hmUrls = <<>>
    /\ primaryStr = asked
    /\ primaryNormal \in (IF asked = NoCluster THEN {TRUE} ELSE BOOLEAN)
    /\ primaryPtr = NoCluster
    /\ urlIndices = <<>>
    /\ pc = "primary"

HandlePrimaryURL ==
    /\ pc = "primary"
    /\ LET r == HandlePrimary(urls)
       IN  /\ SetPrimary(r)
           /\ hmUrls' = IF r.ptr = NoCluster THEN hmUrls ELSE r.urls
    /\ pc' = "discover"
    /\ UNCHANGED <<inputs, urlIndices>>

\* The primary's text is no URL: a GPUdbException pointer out of the constructor.
PrimaryMalformed ==
    /\ pc = "primary"
    /\ asked # NoCluster
    /\ pc' = "failed"
    /\ UNCHANGED <<inputs, urls, hmUrls, primary, urlIndices>>

\* Auto-discovery is off, or the server does not answer, has HA disabled or
\* lists no ring: none of it is worth dying for.
DiscoverNothing ==
    /\ pc = "discover"
    /\ pc' = "hm"
    /\ UNCHANGED <<inputs, urls, hmUrls, primary, urlIndices>>

\* The server's list is malformed: GPUdbException out of the constructor.
DiscoverMalformed ==
    /\ pc = "discover"
    /\ pc' = "failed"
    /\ UNCHANGED <<inputs, urls, hmUrls, primary, urlIndices>>

\* The server lists the ring; the URL in use is added when it is missing, then
\* the primary is handled again on the new list.
WithGiven(ring) == IF urls[1] \in ToSet(ring) THEN ring ELSE Append(ring, urls[1])

DiscoverRingAlone(ring) == \* mutant: takes the server's list as it is
    /\ pc = "discover"
    /\ listed' = ring
    /\ LET r == HandlePrimary(ring)
       IN  /\ SetPrimary(r)
           /\ hmUrls' = r.urls
           /\ urlIndices' \in Shuffles(Len(r.urls), r.ptr)
    /\ pc' = "hm"
    /\ UNCHANGED <<given, asked>>
DiscoverRing(ring) ==
    /\ pc = "discover"
    /\ listed' = ring
    /\ LET r == HandlePrimary(WithGiven(ring))
       IN  /\ SetPrimary(r)
           /\ hmUrls' = r.urls
           /\ urlIndices' \in Shuffles(Len(r.urls), r.ptr)
    /\ pc' = "hm"
    /\ UNCHANGED <<given, asked>>

UpdateHostManagerUrls ==
    /\ pc = "hm"
    /\ hmUrls' = urls
    /\ pc' = "randomize"
    /\ UNCHANGED <<inputs, urls, primary, urlIndices>>

RandomizeGiven == \* mutant: as many indices as the user gave URLs
    /\ pc = "randomize"
    /\ urlIndices' \in Shuffles(Len(given), primaryPtr)
    /\ pc' = "done"
    /\ UNCHANGED <<inputs, urls, hmUrls, primary>>
RandomizeURLs ==
    /\ pc = "randomize"
    /\ urlIndices' \in Shuffles(Len(urls), primaryPtr)
    /\ pc' = "done"
    /\ UNCHANGED <<inputs, urls, hmUrls, primary>>

Terminated == pc \in {"done", "failed"} /\ UNCHANGED vars

Next ==
    \/ HandlePrimaryURL \/ PrimaryMalformed
    \/ DiscoverNothing \/ DiscoverMalformed \/ \E ring \in UrlLists : DiscoverRing(ring)
    \/ UpdateHostManagerUrls \/ RandomizeURLs
    \/ Terminated

Spec == Init /\ [][Next]_vars

-----------------------------------------------------------------------------

(* The three lists built by different functions agree when the constructor is *)
(* done: every position of the ring is tried exactly once in a walk, and the  *)
(* head node and the host manager at a position are those of one cluster      *)
(* (GPUdb.cpp:960-1000 index m_urls and m_hmUrls with the same m_urlIndices). *)
RingConsistent ==
    pc = "done" => /\ hmUrls = urls
                   /\ urlIndices \in Orders(Len(urls))

(* Whatever ring the server lists, the cluster the application asked for is a *)
(* member of the ring that is walked: the primary if one was named, else the  *)
(* first URL of the list (GPUdb.cpp:657-666).                                 *)
GivenClusterKept ==
    pc = "done" => (IF asked # NoCluster THEN asked ELSE given[1]) \in ToSet(urls)

(* Joining the user's URL, the primary and the server's list brings no        *)
(* cluster into the ring twice: switchUrl recognises the end of a walk by the *)
(* address of an entry, so a cluster listed twice would be tried again.       *)
NoDuplicates ==
    pc = "done" /\ IsInjective(given) /\ IsInjective(listed) => IsInjective(urls)

(* What is at position 0, where a walk begins and which the failback resets   *)
(* the cursor to, through swaps, insertions and two shuffles: the primary, or *)
(* after the early return of the second handlePrimaryURL (GPUdb.cpp:454), for *)
(* a text already in HttpUrl's spelling, whichever cluster the server lists   *)
(* first.                                                                     *)
HomeCluster ==
    pc = "done" /\ primaryPtr # NoCluster =>
        urls[urlIndices[1]] =
            IF listed = <<>> \/ ~primaryNormal THEN primaryPtr ELSE listed[1]
=============================================================================
