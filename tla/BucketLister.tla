---------------------------- MODULE BucketLister ----------------------------
(***************************************************************************)
(* Listing a bucket page by page: bucket_lister of                         *)
(* src/boto/s3/bucketlistresultset.py, under the wildcard iterator of      *)
(* src/gslib/wildcard_iterator.py.                                         *)
(*                                                                         *)
(* Each page is a request of its own, for the keys after a marker; other   *)
(* clients add and remove keys between the pages.  The server is external. *)
(***************************************************************************)
EXTENDS Integers, FiniteSets, Sequences

CONSTANTS
    Keys,         \* names of keys, integers that stand for their order
    Matches,      \* keys whose names match the wildcard
    PageSize,     \* keys in a page of the server
    NoKey,        \* None
    MaxChanges    \* bound: keys added and removed by other clients

VARIABLES
    bucket,       \* keys in the bucket
    lpc,          \* the generator's control
    marker,       \* marker of the next request
    k,            \* the last key that was yielded
    page,         \* keys of the page not yielded yet
    nextMarker,   \* rs.next_marker
    moreResults,  \* rs.is_truncated
    listed,       \* matching keys yielded so far
    changes,
    stayed        \* history: keys in the bucket since the listing began

ASSUME KeysAssumption ==
    /\ Keys \subseteq Nat \ {0} /\ IsFiniteSet(Keys)
    /\ Matches \subseteq Keys /\ NoKey \notin Keys
ASSUME PageAssumption == PageSize \in Nat \ {0} /\ MaxChanges \in Nat

listVars == <<bucket, lpc, marker, k, page, nextMarker, moreResults, listed,
              changes, stayed>>

\* The keys of S in order; at most n of them.
Ordered(S) == [i \in 1..Cardinality(S) |->
                  CHOOSE x \in S : Cardinality({y \in S : y < x}) = i - 1]
First(S, n) == {x \in S : Cardinality({y \in S : y < x}) < n}

ListInit ==
    /\ bucket \in SUBSET Keys
    /\ lpc = "page"
    /\ marker = 0 /\ k = NoKey
    /\ page = <<>> /\ nextMarker = NoKey /\ moreResults = TRUE
    /\ listed = <<>>
    /\ changes = 0
    /\ stayed = bucket

\* get_all_keys: the first keys after the marker; some servers tell the next
\* marker, which is the last key of the page.
GetPage ==
    /\ lpc = "page"
    /\ LET rest == {x \in bucket : x > marker}
           keys == First(rest, PageSize)
       IN  /\ page' = Ordered(keys)
           /\ moreResults' = (keys # rest)
           /\ nextMarker' \in {NoKey} \union {x \in keys : \A y \in keys : y <= x}
    /\ lpc' = "yield"
    /\ UNCHANGED <<bucket, marker, k, listed, changes, stayed>>

\* The request fails, which ends the listing and the command.
GetPageFails ==
    /\ lpc = "page"
    /\ lpc' = "failed"
    /\ UNCHANGED <<bucket, marker, k, page, nextMarker, moreResults, listed,
                   changes, stayed>>

YieldKey ==
    /\ lpc = "yield" /\ page # <<>>
    /\ k' = Head(page)
    /\ page' = Tail(page)
    /\ listed' = IF k' \in Matches THEN Append(listed, k') ELSE listed
    /\ UNCHANGED <<bucket, lpc, marker, nextMarker, moreResults, changes, stayed>>

\* The end of the listing: without a match a WildcardException.
Ended == IF listed = <<>> THEN "failed" ELSE "listed"

\* Faulty: the marker moves only if the server tells it.
NextPageNeedsMarker ==
    /\ lpc = "yield" /\ page = <<>>
    /\ marker' = IF nextMarker # NoKey THEN nextMarker ELSE marker
    /\ lpc' = IF moreResults THEN "page" ELSE Ended
    /\ UNCHANGED <<bucket, k, page, nextMarker, moreResults, listed, changes, stayed>>

\* Faulty: the loop goes on only while the server tells a marker.
NextPageTrustsMarker ==
    /\ lpc = "yield" /\ page = <<>>
    /\ marker' = IF k = NoKey THEN marker
                 ELSE IF nextMarker # NoKey THEN nextMarker ELSE k
    /\ lpc' = IF moreResults /\ nextMarker # NoKey THEN "page" ELSE Ended
    /\ UNCHANGED <<bucket, k, page, nextMarker, moreResults, listed, changes, stayed>>

\* The end of a page: the loop goes on while the server has more.
NextPage ==
    /\ lpc = "yield" /\ page = <<>>
    /\ marker' = IF k = NoKey THEN marker
                 ELSE IF nextMarker # NoKey THEN nextMarker ELSE k
    /\ lpc' = IF moreResults THEN "page" ELSE Ended
    /\ UNCHANGED <<bucket, k, page, nextMarker, moreResults, listed, changes, stayed>>

\* Another client adds or removes a key.
ChangeBucket ==
    /\ changes < MaxChanges
    /\ changes' = changes + 1
    /\ \E x \in Keys :
          \/ x \notin bucket /\ bucket' = bucket \union {x} /\ UNCHANGED stayed
          \/ x \in bucket /\ bucket' = bucket \ {x} /\ stayed' = stayed \ {x}
    /\ UNCHANGED <<lpc, marker, k, page, nextMarker, moreResults, listed>>

ListStep == GetPage \/ GetPageFails \/ YieldKey \/ NextPage

-----------------------------------------------------------------------------
(* Properties.                                                             *)

ListTypeOK ==
    /\ bucket \subseteq Keys /\ stayed \subseteq Keys
    /\ lpc \in {"page", "yield", "listed", "failed"}
    /\ marker \in Keys \union {0} /\ k \in Keys \union {NoKey}
    /\ nextMarker \in Keys \union {NoKey}
    /\ page \in Seq(Keys) /\ listed \in Seq(Keys)
    /\ moreResults \in BOOLEAN /\ changes \in Nat

\* A listing yields no key twice, and in order, whatever other clients add
\* or remove between its pages.
ListedOnce == \A i, j \in 1..Len(listed) : i < j => listed[i] < listed[j]

\* A listing that ends has yielded every matching key that was in the bucket
\* from its beginning to its end.
StayersListed ==
    lpc = "listed" => \A x \in stayed \intersect Matches : \E i \in 1..Len(listed) : listed[i] = x
=============================================================================
