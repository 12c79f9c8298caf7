------------------------------ MODULE Listing ------------------------------
(***************************************************************************)
(* The listers of boto: bucket_lister, versioned_bucket_lister and         *)
(* multipart_upload_lister (s3/bucketlistresultset.py), query_lister,      *)
(* select_lister and SelectResultSet (sdb/queryresultset.py), ResultSet    *)
(* (dynamodb2/results.py).  A lister fetches page after page and hands out *)
(* one entry at a time; meanwhile others write.  The listings are those of *)
(* a for loop: SelectResultSet.next, which begins a new one each time it   *)
(* is called, is left out.                                                 *)
(*                                                                         *)
(* Entries are numbered in the order in which the service lists them.  It  *)
(* looks at some of them for a page and returns those that are wanted.     *)
(***************************************************************************)
EXTENDS Integers, Sequences, FiniteSetsExt

CONSTANTS Entries,
          PageSize,    \* entries the service looks at for a page, at most
          Limits,      \* values of max_items, or limit
          NoLimit,
          MaxWrites    \* bound: what others write during the listing

ASSUME EntriesAssumption == Entries \subseteq Nat \ {0} /\ IsFiniteSet(Entries)
ASSUME PagesAssumption == /\ PageSize \in Nat \ {0} /\ MaxWrites \in Nat
                          /\ Limits \subseteq Nat \ {0} /\ NoLimit \notin Nat

VARIABLES there,    \* the entries the service has
          writes,
          lister,   \* what is listed, and how far
          given,    \* what the caller was given
          kept      \* ghost: the entries that have been there all the time

listingVars == <<there, writes, lister, given, kept>>

\* "keys" and "uploads" are the listers of S3, which have no limit and list what
\* begins with a prefix; "query" and "select" those of SimpleDB; "scan" is the
\* ResultSet of DynamoDB.
Kinds == [kind : {"keys", "uploads"}, wanted : {Entries}, limit : {NoLimit}]
         \cup [kind : {"query", "select", "scan"}, wanted : SUBSET Entries,
               limit : Limits \cup {NoLimit}]

ListingInit ==
    /\ there \in SUBSET Entries
    /\ kept = there
    /\ writes = 0
    /\ given = <<>>
    /\ \E k \in Kinds :
          lister = [pc |-> "fetch", kind |-> k.kind, wanted |-> k.wanted,
                    limit |-> k.limit, left |-> k.limit,
                    marker |-> 0, page |-> {}, more |-> "yes"]

\* What the service looks at for a page of n entries, and whether it stops
\* before its last one.
Beyond(marker)  == {e \in there : e > marker}
LookedAt(marker, n) ==
    {e \in Beyond(marker) :
        Cardinality({d \in Beyond(marker) : d <= e}) <= n}

Limited == lister.limit # NoLimit

\* The position of the next page: that of the last entry looked at; bucket_lister
\* takes the name of the last key of the page for it.  Mutated: that before it.
MarkerBefore(looked) == Max(looked \cup {lister.marker}) - 1
MarkerAt(looked)     == Max(looked \cup {lister.marker})

\* Whether a page ends the listing of a ResultSet.
PageEnds(hits) == lister.kind = "scan" /\ hits = {}

\* A ResultSet passes what is left of its limit on, which bounds what the service
\* looks at, and takes the results off; a limit of 0 is refused.
Decreased(hits) == IF lister.kind = "scan" /\ Limited
                   THEN lister.left - Cardinality(hits) ELSE lister.left

FetchMore ==
    \E n \in 1..PageSize :
       LET bound   == IF lister.kind = "scan" /\ Limited
                      THEN Min({n, lister.left}) ELSE n
           looked  == LookedAt(lister.marker, bound)
           hits    == looked \cap lister.wanted
       IN
       /\ lister.pc = "fetch" /\ bound > 0
       /\ lister' = [lister EXCEPT
            !.pc     = IF PageEnds(hits) THEN "done" ELSE "give",
            !.page   = hits,
            !.marker = MarkerAt(looked),
            !.left   = Decreased(hits),
            !.more   = IF looked = Beyond(lister.marker) THEN "no" ELSE "yes"]
       /\ UNCHANGED <<there, writes, given, kept>>

Refused ==
    /\ lister.pc = "fetch" /\ lister.kind = "scan" /\ Limited /\ lister.left = 0
    /\ lister' = [lister EXCEPT !.pc = "raised"]
    /\ UNCHANGED <<there, writes, given, kept>>

\* Whether max_items have been given.
EnoughGiven == Limited /\ lister.kind # "scan" /\ Len(given) >= lister.limit

Give ==
    /\ lister.pc = "give" /\ lister.page # {} /\ ~EnoughGiven
    /\ given' = Append(given, Min(lister.page))
    /\ lister' = [lister EXCEPT !.page = @ \ {Min(@)}]
    /\ UNCHANGED <<there, writes, kept>>

\* StopIteration, or the end of the page; a SelectResultSet looks at its limit
\* here too, the others fetch one more page.
PageDone ==
    /\ lister.pc = "give" /\ (lister.page = {} \/ EnoughGiven)
    /\ lister' = [lister EXCEPT
         !.pc = IF \/ lister.page # {} \/ lister.more = "no"
                   \/ lister.kind = "select" /\ EnoughGiven
                THEN "done" ELSE "fetch"]
    /\ UNCHANGED <<there, writes, given, kept>>

\* Others add an entry or remove one.
OthersWrite ==
    /\ writes < MaxWrites /\ lister.pc \notin {"done", "raised"}
    /\ writes' = writes + 1
    /\ \E e \in Entries :
          there' = IF e \in there THEN there \ {e} ELSE there \cup {e}
    /\ kept' = kept \cap there'
    /\ UNCHANGED <<lister, given>>

ListerStep == FetchMore \/ Refused \/ Give \/ PageDone

ListingNext == ListerStep \/ OthersWrite

ListingSpec == ListingInit /\ [][ListingNext]_listingVars

-----------------------------------------------------------------------------
(* Properties.                                                             *)

ListingTypeOK ==
    /\ there \subseteq Entries /\ kept \subseteq there
    /\ writes \in 0..MaxWrites
    /\ given \in Seq(Entries)
    /\ lister.pc \in {"fetch", "give", "done", "raised"}
    /\ lister.wanted \subseteq Entries /\ lister.page \subseteq Entries
    /\ lister.limit \in Limits \cup {NoLimit} /\ lister.more \in {"no", "yes"}
    /\ lister.left \in Nat \cup {NoLimit}
    /\ lister.marker \in Entries \cup {0}

\* Entries are given in the order of the service, none twice, whatever others add
\* and remove between two pages, none that was not asked for, and no more than
\* asked for.  A listing that has ended, and was not cut off by its limit, has
\* given all that was there from beginning to end; but for the scan of a
\* ResultSet, which ends at a page without results.
ListedAll ==
    /\ \A i, j \in DOMAIN given : i < j => given[i] < given[j]
    /\ \A i \in DOMAIN given : given[i] \in lister.wanted
    /\ Limited => Len(given) <= lister.limit
    /\ /\ lister.pc = "done" /\ lister.kind # "scan"
       /\ Limited => Len(given) < lister.limit
       => kept \cap lister.wanted \subseteq {given[i] : i \in DOMAIN given}

\* A listing that has a page ends, with pages as small as the service likes.
ListingEnds == lister.pc = "give" ~> lister.pc \in {"done", "raised"}
=============================================================================
