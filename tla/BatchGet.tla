------------------------------ MODULE BatchGet ------------------------------
(***************************************************************************)
(* BatchGetResultSet of boto/dynamodb2/results.py, over _batch_get of its  *)
(* table.py: it asks DynamoDB for the items of some keys, so many at a     *)
(* time, and is to ask once more for the keys DynamoDB did not process.    *)
(* Keys are numbered in the order of the caller.                           *)
(***************************************************************************)
EXTENDS Integers, Sequences, SequencesExt

CONSTANTS MaxKeys,   \* bound: keys the caller asks for
          GetSize    \* max_batch_get

ASSUME GetAssumption == MaxKeys \in Nat /\ GetSize \in Nat \ {0}

VARIABLES rows,      \* the keys of which there is an item
          total,     \* how many keys were asked for
          keysLeft,  \* _keys_left
          items,     \* where next is, with the items of the page to be given
          got,       \* the items given to the caller
          dropped,   \* ghost: the keys DynamoDB did not process, not asked for again
          failed     \* ghost: the keys of requests that failed

getVars == <<rows, total, keysLeft, items, got, dropped, failed>>

GetInit == /\ rows \in SUBSET (1..MaxKeys)
           /\ total \in 0..MaxKeys
           /\ keysLeft = [i \in 1..total |-> i]
           /\ items = [pc |-> "fetch", page |-> {}]
           /\ got = <<>>
           /\ dropped = {} /\ failed = {}

\* The keys of a request are taken off.  Mutated: one more of them.
OneTooMany(n) == SubSeq(keysLeft, n + 2, Len(keysLeft))
TakenOff(n)   == SubSeq(keysLeft, n + 1, Len(keysLeft))

\* _batch_get: `Keys' is looked for beside the names of the tables and not below
\* that of the table, where DynamoDB puts it; so no unprocessed key is found.
Named(unprocessed) == <<>>

\* Keys that are found unprocessed come first among those left.
Reinserted(rest, unprocessed) == unprocessed \o rest

NumberAsked == IF Len(keysLeft) < GetSize THEN Len(keysLeft) ELSE GetSize
Asked       == {keysLeft[i] : i \in 1..NumberAsked}

\* fetch_more.  A request without results ends it all, whatever keys are left.
GetMore ==
    /\ items.pc = "fetch"
    /\ \E unprocessed \in SetToAllKPermutations(Asked) :
          LET returned == (Asked \ ToSet(unprocessed)) \cap rows
              left     == IF returned = {} THEN TakenOff(NumberAsked)
                          ELSE Reinserted(TakenOff(NumberAsked), Named(unprocessed))
          IN /\ items' = [pc |-> IF returned = {} THEN "ended"
                                 ELSE IF left = <<>> THEN "last" ELSE "give",
                          page |-> returned]
             /\ keysLeft' = left
             /\ dropped' = dropped \cup (ToSet(unprocessed) \ ToSet(left))
    /\ UNCHANGED <<rows, total, got, failed>>

\* The request raises an exception when its keys have been taken off already.
GetFails ==
    /\ items.pc = "fetch"
    /\ items' = [items EXCEPT !.pc = "raised"]
    /\ keysLeft' = TakenOff(NumberAsked)
    /\ failed' = failed \cup Asked
    /\ UNCHANGED <<rows, total, got, dropped>>

\* The caller catches it, and calls next again.
CallAgain == /\ items.pc = "raised"
             /\ items' = [items EXCEPT !.pc = "fetch"]
             /\ UNCHANGED <<rows, total, keysLeft, got, dropped, failed>>

\* next: an item of the page, in the order of DynamoDB, which is any.
GiveItem ==
    /\ items.pc \in {"give", "last"}
    /\ \E k \in items.page : /\ got' = Append(got, k)
                             /\ items' = [items EXCEPT !.page = @ \ {k}]
    /\ UNCHANGED <<rows, total, keysLeft, dropped, failed>>

PageAfter(pc) == IF pc = "give" THEN "fetch" ELSE "done"

EndOfPage ==
    /\ items.pc \in {"give", "last"} /\ items.page = {}
    /\ items' = [items EXCEPT !.pc = PageAfter(@)]
    /\ UNCHANGED <<rows, total, keysLeft, got, dropped, failed>>

GetStep == GetMore \/ GetFails \/ GiveItem \/ EndOfPage

GetNext == GetStep \/ CallAgain

GetSpec == GetInit /\ [][GetNext]_getVars

-----------------------------------------------------------------------------
(* Properties.                                                             *)

GetTypeOK == /\ rows \subseteq 1..MaxKeys /\ total \in 0..MaxKeys
             /\ keysLeft \in Seq(1..total) /\ IsInjective(keysLeft)
             /\ items.pc \in {"fetch", "give", "last", "raised", "ended", "done"}
             /\ items.page \subseteq rows \cap 1..total
             /\ got \in Seq(rows)
             /\ dropped \subseteq 1..total /\ failed \subseteq 1..total

\* No item is given twice; and when the items end because no key is left, all that
\* exist have been given, but for keys DynamoDB left unprocessed and those of a
\* request that failed: no other is skipped or asked for twice, over requests that
\* are answered in part, fail and are gone on from.  (When a request has no results
\* the items end with keys left.)
GotAll ==
    /\ \A i, j \in DOMAIN got : i # j => got[i] # got[j]
    /\ items.pc = "done" => ToSet(got) = (rows \cap 1..total) \ (dropped \cup failed)

\* The items end, or a request fails, whatever DynamoDB leaves unprocessed.
GetEnds == items.pc \in {"give", "last"} ~> items.pc \in {"raised", "ended", "done"}
=============================================================================
