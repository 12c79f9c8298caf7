------------------------------ MODULE LRUCache ------------------------------
(***************************************************************************)
(* LRUCache of boto/utils.py: a dictionary of items that are linked in a   *)
(* list, from head to tail, the one used last at the head.  A loop over    *)
(* the cache follows the links while its body may use the cache.           *)
(*                                                                         *)
(* An item is known by its key; one removed and put again is another item. *)
(* Each method is one step.                                                *)
(***************************************************************************)
EXTENDS Integers, FiniteSets, Sequences

CONSTANTS Keys, Capacity, Nil

ASSUME CacheAssumption == /\ Nil \notin Keys /\ Capacity \in Nat
                          /\ IsFiniteSet(Keys)

VARIABLES dict,      \* keys in _dict
          links,     \* links[k]: previous and next of the item of k
          head, tail,
          found      \* the last call: its key and what became of it

cacheVars == <<dict, links, head, tail, found>>

Unlinked == [previous |-> Nil, next |-> Nil]

\* The list, and the state of the methods while they work on it.
Now == [dict |-> dict, links |-> links, head |-> head, tail |-> tail]

Becomes(c) == /\ dict' = c.dict /\ links' = c.links
              /\ head' = c.head /\ tail' = c.tail

CacheInit == /\ dict = {}
             /\ links = [k \in Keys |-> Unlinked]
             /\ head = Nil /\ tail = Nil
             /\ found = <<"none">>

-----------------------------------------------------------------------------
\* Assignments to a link; one to a link of Nil does not occur.
Linked(c, k, link, to) == [c EXCEPT !.links[k][link] = to]

\* _manage_size: the item at the tail is removed while there are too many; as one
\* is added at a time, there is one too many.
TooFull(c) == Cardinality(c.dict) > Capacity

ManageSize(c) ==
    IF ~TooFull(c) THEN c
    ELSE LET last   == c.links[c.tail].previous
             popped == [c EXCEPT !.dict = @ \ {c.tail},
                                 !.links[c.tail] = Unlinked]
         IN IF c.tail = c.head
            THEN [popped EXCEPT !.head = Nil, !.tail = Nil]
            ELSE Linked([popped EXCEPT !.tail = last], last, "next", Nil)

\* _insert_item, at the head.
Inserted(c, k) ==
    LET new   == [c EXCEPT !.links[k] = [previous |-> Nil, next |-> c.head]]
        after == IF c.head = Nil THEN [new EXCEPT !.tail = k]
                 ELSE Linked(new, c.head, "previous", k)
    IN ManageSize([after EXCEPT !.head = k])

\* _update_item: the item is moved to the head.
TailMoves(c, k) == [c EXCEPT !.tail = c.links[k].previous]

Updated(c, k) ==
    IF c.head = k THEN c
    ELSE LET before  == c.links[k].previous
             after   == c.links[k].next
             without == Linked(c, before, "next", after)
             closed  == IF after = Nil THEN TailMoves(without, k)
                        ELSE Linked(without, after, "previous", before)
             moved   == [closed EXCEPT
                           !.links[k] = [previous |-> Nil, next |-> c.head]]
         IN [Linked(moved, c.head, "previous", k) EXCEPT !.head = k]

-----------------------------------------------------------------------------
\* __setitem__, of a new key or one that is there.
SetItem(k) ==
    /\ Becomes(IF k \in dict THEN ManageSize(Updated(Now, k))
               ELSE Inserted([Now EXCEPT !.dict = @ \cup {k}], k))
    /\ found' = <<k, "set">>

\* __getitem__.  Mutated: a lookup is no use.
Seen(k) == Now
Used(k) == Updated(Now, k)

GetItem(k) == IF k \in dict THEN Becomes(Used(k)) /\ found' = <<k, "yes">>
              ELSE UNCHANGED <<dict, links, head, tail>> /\ found' = <<k, "no">>

CacheNext == \E k \in Keys : SetItem(k) \/ GetItem(k)

CacheSpec == CacheInit /\ [][CacheNext]_cacheVars

-----------------------------------------------------------------------------
(* Properties.                                                             *)

CacheTypeOK == /\ dict \subseteq Keys /\ Cardinality(dict) <= Capacity
               /\ head \in dict \cup {Nil} /\ tail \in dict \cup {Nil}
               /\ links \in [Keys -> [previous : Keys \cup {Nil},
                                      next : Keys \cup {Nil}]]

\* The links of the items held go both ways, from the head to the tail, and none
\* leads to an item that was removed.
LinksAgree ==
    /\ (head = Nil) = (dict = {}) /\ (tail = Nil) = (dict = {})
    /\ \A k \in dict :
          /\ links[k].next = Nil <=> k = tail
          /\ links[k].previous = Nil <=> k = head
          /\ k # tail => /\ links[k].next \in dict
                         /\ links[links[k].next].previous = k

\* The keys as a loop over the cache finds them: along the links, no further than
\* the number of keys.
Loop == LET follow[i \in 1..Cardinality(dict)] ==
              IF i = 1 THEN head ELSE links[follow[i - 1]].next
        IN follow

Held == INSTANCE LRU WITH recent <- [i \in 1..Cardinality(dict) |-> Loop[i]]

\* Whatever is put, replaced and looked up, the cache is one that keeps the most
\* recently used keys, a loop over it finds these in that order, and its links
\* agree.
KeepsRecent == Held!Spec /\ []LinksAgree
=============================================================================
