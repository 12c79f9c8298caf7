---------------------------- MODULE HelperProofs ----------------------------
(***************************************************************************)
(* That nothing is lost of what boto takes in pages or sends in batches,   *)
(* for any numbers of entries, of keys and of writes, and any sizes; that  *)
(* trimming snapshots keeps the right ones, and that the cache is one that *)
(* keeps the most recently used keys.                                      *)
(*                                                                         *)
(* Of a batch of writes: what waits and what is written are together what  *)
(* the caller has put in, and nothing is both.  Of a batch of reads: a key *)
(* of an item is given, on the page, still to be asked for, or among those *)
(* that were dropped or failed, and one of these only.                     *)
(* Of a listing: the page comes after what was given, and up to the marker *)
(* nothing was left out of both that has been there all the time.          *)
(*                                                                         *)
(* Of the snapshots: one that is deleted, or about to be, is superseded by *)
(* an earlier one with no target between them, and stays so, for no target *)
(* appears before the time it was trimmed.                                 *)
(*                                                                         *)
(* Of the cache: there is a sequence of its keys that head, tail and links *)
(* agree with (Ordered).  A loop finds that sequence, and each method      *)
(* makes of it what LRU says.                                              *)
(*                                                                         *)
(* Batches of reads and listings are also shown to take a bounded number   *)
(* of steps.  And of the helpers together: only the one chosen does        *)
(* anything, so what holds of each holds of MCServices.                    *)
(***************************************************************************)
EXTENDS MCServices, ServiceProofs, SequenceTheorems, FiniteSetTheorems,
        WellFoundedInduction, TLAPS

-----------------------------------------------------------------------------
(* Sequences.                                                              *)

LEMMA ElementsOf ==
    ASSUME NEW S, NEW s \in Seq(S)
    PROVE  /\ ToSet(s) \subseteq S
           /\ ToSet(s) = {s[i] : i \in 1..Len(s)}
           /\ Len(s) \in Nat /\ DOMAIN s = 1..Len(s)
           /\ (ToSet(s) = {}) <=> s = <<>>
  BY LenProperties, EmptySeq DEF ToSet

LEMMA AppendElements ==
    ASSUME NEW S, NEW s \in Seq(S), NEW x \in S
    PROVE  /\ Append(s, x) \in Seq(S) /\ Len(Append(s, x)) = Len(s) + 1
           /\ ToSet(Append(s, x)) = ToSet(s) \cup {x}
<1>1. PICK t \in Seq(S) : t = Append(s, x)
  BY AppendProperties
<1>2. Len(s) \in Nat /\ Len(t) = Len(s) + 1
  BY <1>1, AppendProperties, LenProperties
<1>3. t[Len(s) + 1] = x /\ \A i \in 1..Len(s) : t[i] = s[i]
  BY <1>1, AppendProperties
<1>4. \A i \in 1..Len(t) : i = Len(s) + 1 \/ i \in 1..Len(s)
  BY <1>2
<1>5. \A i \in 1..Len(s) : i \in 1..Len(t)
  BY <1>2
<1>6. Len(s) + 1 \in 1..Len(t)
  BY <1>2
<1>7. ToSet(t) = {t[i] : i \in 1..Len(t)} /\ ToSet(s) = {s[i] : i \in 1..Len(s)}
  BY ElementsOf
<1> QED BY <1>1, <1>2, <1>3, <1>4, <1>5, <1>6, <1>7

LEMMA EmptyElements == ToSet(<<>>) = {}
  BY DEF ToSet

-----------------------------------------------------------------------------
(* Sets of numbers.                                                        *)

LEMMA LeastOf ==
    ASSUME NEW S, S \subseteq Nat, S # {}
    PROVE  Min(S) \in S /\ \A y \in S : Min(S) <= y
<1>1. \E x \in S : \A y \in S : ~(<<y, x>> \in OpToRel(<, Nat))
  BY NatLessThanWellFounded, WFMin
<1>2. \E x \in S : \A y \in S : ~(y < x)
  BY <1>1 DEF OpToRel
<1>3. \E x \in S : \A y \in S : x <= y
  BY <1>2
<1> QED BY <1>3 DEF Min

\* A finite set of numbers has a greatest one: a smallest set that had none would
\* have none either without one of its elements.
LEMMA GreatestOf ==
    ASSUME NEW S, S \subseteq Nat, S # {}, IsFiniteSet(S)
    PROVE  Max(S) \in S /\ \A y \in S : y <= Max(S)
<1> DEFINE HasMax(T) == \E x \in T : \A y \in T : y <= x
           C == {T \in SUBSET S : T # {} /\ ~HasMax(T)}
<1>1. ASSUME ~HasMax(S) PROVE FALSE
  <2>1. C \subseteq FiniteSubsetsOf(S) /\ C # {}
    BY <1>1, FS_FiniteSubsetsOfFinite
  <2>2. \E T \in C : \A U \in C : ~(<<U, T>> \in StrictSubsetOrdering(S))
    <3> HIDE DEF C
    <3> QED BY <2>1, FS_StrictSubsetOrderingWellFounded, WFMin
  <2>3. PICK T \in C : \A U \in C : ~(U \subseteq T /\ U # T)
    <3>1. \A T, U \in C : /\ <<U, T>> \in (SUBSET S) \X (SUBSET S)
                          /\ <<U, T>>[1] = U /\ <<U, T>>[2] = T
      OBVIOUS
    <3> HIDE DEF C
    <3>2. \A T, U \in C : U \subseteq T /\ U # T => <<U, T>> \in StrictSubsetOrdering(S)
      BY <3>1 DEF StrictSubsetOrdering
    <3>3. PICK T \in C : \A U \in C : ~(<<U, T>> \in StrictSubsetOrdering(S))
      BY <2>2
    <3>4. \A U \in C : ~(U \subseteq T /\ U # T)
      BY <3>2, <3>3
    <3> QED BY <3>4, Zenon
  <2>4. PICK x \in T : x \in Nat
    OBVIOUS
  <2>5. (T \ {x}) \notin C
    BY <2>3, <2>4
  <2>6. CASE T \ {x} = {}
    BY <2>4, <2>6
  <2>7. CASE HasMax(T \ {x})
    <3>1. PICK m \in T \ {x} : \A y \in T \ {x} : y <= m
      BY <2>7
    <3>2. m \in Nat
      BY <3>1
    <3>3. CASE x <= m
      BY <3>1, <3>3
    <3>4. CASE ~(x <= m)
      <4>1. \A y \in T : y \in Nat
        OBVIOUS
      <4>2. \A y \in T : y <= x
        BY <2>4, <3>1, <3>2, <3>4, <4>1
      <4> QED BY <2>4, <4>2
    <3> QED BY <3>3, <3>4
  <2> QED BY <2>5, <2>6, <2>7
<1>2. \E x \in S : \A y \in S : x >= y
  BY <1>1
<1> QED BY <1>2 DEF Max

-----------------------------------------------------------------------------
(* The cache.                                                              *)

\* No key twice.
Distinct(s) == \A i, j \in 1..Len(s) : s[i] = s[j] => i = j

\* A key of the sequence is moved to its front.
LEMMA MovedToFront ==
    ASSUME NEW s \in Seq(Keys), Distinct(s), NEW j \in 1..Len(s)
    PROVE  /\ Held!ToFront(s[j], s) \in Seq(Keys)
           /\ Len(Held!ToFront(s[j], s)) = Len(s)
           /\ \A i \in 1..Len(s) :
                 Held!ToFront(s[j], s)[i] = IF i = 1 THEN s[j]
                                            ELSE IF i <= j THEN s[i - 1] ELSE s[i]
<1>1. /\ Len(s) \in Nat /\ s[j] \in Keys
      /\ \A i \in 1..Len(s) : s[i] \in Keys
  BY LenProperties
<1>2. PICK at : at = {i \in 1..Len(s) : s[i] = s[j]}
  OBVIOUS
<1>3. at = {j}
  BY <1>2 DEF Distinct
<1>4. Held!Min(at) = j
  BY <1>3 DEF Held!Min
<1>5. PICK a : a = SubSeq(s, 1, j - 1)
  OBVIOUS
<1>6. PICK b : b = SubSeq(s, j + 1, Len(s))
  OBVIOUS
<1>7. Held!RemoveFirst(s, s[j]) = a \o b
  BY <1>2, <1>3, <1>4, <1>5, <1>6
     DEF Held!RemoveFirst, Held!RemoveAt, Held!SelectInSeq
<1>8. /\ a \in Seq(Keys) /\ Len(a) = j - 1
      /\ \A i \in 1..j - 1 : a[i] = s[i]
  <2>1. \A i \in 1..j - 1 : s[i] \in Keys
    BY <1>1
  <2>2. /\ a \in Seq(Keys) /\ Len(a) = IF 1 <= j - 1 THEN j - 1 - 1 + 1 ELSE 0
        /\ \A i \in 1..j - 1 - 1 + 1 : a[i] = s[1 + i - 1]
    BY <1>5, <2>1, SubSeqProperties
  <2> QED BY <1>1, <2>2
<1>9. /\ b \in Seq(Keys) /\ Len(b) = Len(s) - j
      /\ \A i \in 1..Len(s) - j : b[i] = s[j + i]
  <2>1. \A i \in j + 1..Len(s) : s[i] \in Keys
    BY <1>1
  <2>2. /\ b \in Seq(Keys)
        /\ Len(b) = IF j + 1 <= Len(s) THEN Len(s) - (j + 1) + 1 ELSE 0
        /\ \A i \in 1..Len(s) - (j + 1) + 1 : b[i] = s[j + 1 + i - 1]
    BY <1>1, <1>6, <2>1, SubSeqProperties
  <2> QED BY <1>1, <2>2
<1>10. PICK r \in Seq(Keys) : /\ r = a \o b /\ Len(r) = Len(s) - 1
                              /\ \A i \in 1..Len(s) - 1 :
                                    r[i] = IF i <= j - 1 THEN a[i] ELSE b[i - (j - 1)]
  <2>1. PICK r : r = a \o b
    OBVIOUS
  <2>2. /\ r \in Seq(Keys) /\ Len(r) = Len(a) + Len(b)
        /\ \A i \in 1..Len(a) + Len(b) :
              r[i] = IF i <= Len(a) THEN a[i] ELSE b[i - Len(a)]
    BY <1>8, <1>9, <2>1, ConcatProperties
  <2>3. Len(a) = j - 1 /\ Len(a) + Len(b) = Len(s) - 1
    BY <1>1, <1>8, <1>9
  <2> QED BY <2>1, <2>2, <2>3
<1>11. \A i \in 1..Len(s) - 1 : r[i] = IF i < j THEN s[i] ELSE s[i + 1]
  <2> TAKE i \in 1..Len(s) - 1
  <2>1. CASE i < j
    <3>1. i \in 1..j - 1 /\ i <= j - 1
      BY <1>1, <2>1
    <3>2. r[i] = a[i]
      BY <1>10, <3>1
    <3> QED BY <1>8, <2>1, <3>1, <3>2
  <2>2. CASE ~(i < j)
    <3>1. PICK m \in 1..Len(s) - j : m = i - (j - 1) /\ j + m = i + 1 /\ ~(i <= j - 1)
      BY <1>1, <2>2
    <3>2. r[i] = b[m]
      BY <1>10, <3>1
    <3>3. b[m] = s[i + 1]
      BY <1>9, <3>1
    <3> QED BY <2>2, <3>2, <3>3
  <2> QED BY <2>1, <2>2
<1>12. PICK t : t = Held!ToFront(s[j], s)
  OBVIOUS
<1>13. t = <<s[j]>> \o r
  BY <1>7, <1>10, <1>12 DEF Held!ToFront
<1>14. <<s[j]>> \in Seq(Keys) /\ Len(<<s[j]>>) = 1 /\ <<s[j]>>[1] = s[j]
  BY <1>1
<1>15. /\ t \in Seq(Keys) /\ Len(t) = Len(s)
       /\ \A i \in 1..Len(s) : t[i] = IF i <= 1 THEN <<s[j]>>[i] ELSE r[i - 1]
  BY <1>1, <1>10, <1>13, <1>14, ConcatProperties
<1>16. \A i \in 1..Len(s) : t[i] = IF i = 1 THEN s[j]
                                   ELSE IF i <= j THEN s[i - 1] ELSE s[i]
  BY <1>1, <1>11, <1>14, <1>15
<1> QED BY <1>12, <1>15, <1>16

\* A new key is put before the others.
LEMMA PutInFront ==
    ASSUME NEW s \in Seq(Keys), NEW k \in Keys, \A i \in 1..Len(s) : s[i] # k
    PROVE  /\ Held!ToFront(k, s) \in Seq(Keys)
           /\ Len(Held!ToFront(k, s)) = Len(s) + 1
           /\ Held!ToFront(k, s)[1] = k
           /\ \A i \in 1..Len(s) : Held!ToFront(k, s)[i + 1] = s[i]
<1>1. Held!ToFront(k, s) = <<k>> \o s
  BY DEF Held!ToFront, Held!RemoveFirst
<1>2. <<k>> \in Seq(Keys) /\ Len(<<k>>) = 1 /\ <<k>>[1] = k /\ Len(s) \in Nat
  BY LenProperties
<1>3. PICK t : t = <<k>> \o s
  OBVIOUS
<1>4. /\ t \in Seq(Keys) /\ Len(t) = Len(s) + 1
      /\ \A i \in 1..Len(s) + 1 : t[i] = IF i <= 1 THEN <<k>>[i] ELSE s[i - 1]
  BY <1>2, <1>3, ConcatProperties
<1>5. t[1] = k /\ \A i \in 1..Len(s) : t[i + 1] = s[i]
  BY <1>2, <1>4
<1> QED BY <1>1, <1>3, <1>4, <1>5

\* The first keys, as many as the cache holds.
LEMMA FirstOfThem ==
    ASSUME NEW s \in Seq(Keys)
    PROVE  /\ Held!Bounded(s) \in Seq(Keys)
           /\ Len(s) <= Capacity => Held!Bounded(s) = s
           /\ Len(s) > Capacity => Len(Held!Bounded(s)) = Capacity
           /\ \A i \in 1..Len(s) : i <= Capacity => Held!Bounded(s)[i] = s[i]
<1>1. Len(s) \in Nat /\ Capacity \in Nat /\ \A i \in 1..Len(s) : s[i] \in Keys
  BY LenProperties, CacheAssumption
<1>2. PICK n \in Nat : n = IF Len(s) < Capacity THEN Len(s) ELSE Capacity
  BY <1>1
<1>3. PICK t : t = SubSeq(s, 1, n)
  OBVIOUS
<1>4. Held!Bounded(s) = t
  BY <1>2, <1>3 DEF Held!Bounded
<1>5. n <= Len(s) /\ n <= Capacity /\ (n = Len(s) \/ n = Capacity)
  BY <1>1, <1>2
<1>6. \A i \in 1..n : s[i] \in Keys
  BY <1>1, <1>5
<1>7. /\ t \in Seq(Keys) /\ Len(t) = IF 1 <= n THEN n - 1 + 1 ELSE 0
      /\ \A i \in 1..n - 1 + 1 : t[i] = s[1 + i - 1]
  BY <1>3, <1>6, SubSeqProperties
<1>8. Len(t) = n /\ \A i \in 1..n : t[i] = s[i]
  BY <1>7
<1>9. Len(s) = n => t = s
  BY <1>7, <1>8, SeqEqual
<1> QED BY <1>1, <1>2, <1>4, <1>7, <1>8, <1>9

-----------------------------------------------------------------------------
\* The cache as the methods have it while they work on it.
Ends  == Keys \cup {Nil}
Links == [Keys -> [previous : Ends, next : Ends]]
Lists == [dict : SUBSET Keys, links : Links, head : Ends, tail : Ends]

\* What follows a key, or comes before it, at the place given.
At(s, i) == IF i \in 1..Len(s) THEN s[i] ELSE Nil

\* The items are linked in the order of s.
Ordered(c, s) ==
    /\ s \in Seq(Keys) /\ Distinct(s)
    /\ c.dict = {s[i] : i \in 1..Len(s)}
    /\ c.head = At(s, 1) /\ c.tail = At(s, Len(s))
    /\ \A i \in 1..Len(s) : /\ c.links[s[i]].previous = At(s, i - 1)
                            /\ c.links[s[i]].next = At(s, i + 1)

LEMMA ListFields ==
    ASSUME NEW c \in Lists
    PROVE  /\ c = [dict |-> c.dict, links |-> c.links, head |-> c.head, tail |-> c.tail]
           /\ c.dict \subseteq Keys /\ c.links \in Links
           /\ c.head \in Ends /\ c.tail \in Ends
  BY DEF Lists

LEMMA LinkFields ==
    ASSUME NEW l \in Links, NEW k \in Keys
    PROVE  /\ l[k].previous \in Ends /\ l[k].next \in Ends
           /\ l[k] = [previous |-> l[k].previous, next |-> l[k].next]
           /\ l[k] \in [previous : Ends, next : Ends]
  BY DEF Links

\* An item's link named by its field.
LEMMA NamedLink ==
    ASSUME NEW p, NEW n, NEW to, NEW v, v = [previous |-> p, next |-> n]
    PROVE  /\ [v EXCEPT !["next"] = to] = [previous |-> p, next |-> to]
           /\ [v EXCEPT !["previous"] = to] = [previous |-> to, next |-> n]
<1>2. v = [x \in {"previous", "next"} |-> IF x = "previous" THEN p ELSE n]
  OBVIOUS
<1>3. PICK w : w = [v EXCEPT !["next"] = to]
  OBVIOUS
<1>4. w = [x \in {"previous", "next"} |-> IF x = "previous" THEN p ELSE to]
  BY <1>2, <1>3
<1>5. w = [previous |-> p, next |-> to]
  BY <1>4
<1>6. PICK u : u = [v EXCEPT !["previous"] = to]
  OBVIOUS
<1>7. u = [x \in {"previous", "next"} |-> IF x = "previous" THEN to ELSE n]
  BY <1>2, <1>6
<1>8. u = [previous |-> to, next |-> n]
  BY <1>7
<1> QED BY <1>3, <1>5, <1>6, <1>8, Zenon

\* A link of an item is set, to the next or to the previous.
LEMMA LinkedNext ==
    ASSUME NEW c \in Lists, NEW k \in Keys, NEW to \in Ends
    PROVE  \E d \in Lists :
              /\ d = Linked(c, k, "next", to)
              /\ d.dict = c.dict /\ d.head = c.head /\ d.tail = c.tail
              /\ \A x \in Keys : d.links[x].previous = c.links[x].previous
              /\ \A x \in Keys \ {k} : d.links[x].next = c.links[x].next
              /\ d.links[k].next = to
<1>1. PICK l : l = [c.links EXCEPT ![k] = [previous |-> c.links[k].previous, next |-> to]]
  OBVIOUS
<1>2. [c.links[k] EXCEPT !["next"] = to] = [previous |-> c.links[k].previous, next |-> to]
  <2>1. c.links[k] = [previous |-> c.links[k].previous, next |-> c.links[k].next]
    BY ListFields, LinkFields
  <2>2. PICK v, p, n : v = c.links[k] /\ p = v.previous /\ n = v.next
    OBVIOUS
  <2>3. v = [previous |-> p, next |-> n]
    BY <2>1, <2>2
  <2>4. [v EXCEPT !["next"] = to] = [previous |-> p, next |-> to]
    BY <2>3, NamedLink
  <2> QED BY <2>2, <2>4, Zenon
<1>3. PICK d : d = [dict |-> c.dict, links |-> l, head |-> c.head, tail |-> c.tail]
  OBVIOUS
<1>4. d = Linked(c, k, "next", to)
  BY <1>1, <1>2, <1>3, ListFields DEF Linked
<1>5. c.links \in Links /\ c.links[k].previous \in Ends
  BY ListFields, LinkFields
<1>6. /\ l \in Links /\ l[k].next = to /\ l[k].previous = c.links[k].previous
      /\ \A x \in Keys \ {k} : l[x] = c.links[x]
  BY <1>1, <1>5 DEF Links
<1>7. d \in Lists
  BY <1>3, <1>6, ListFields DEF Lists
<1> QED BY <1>3, <1>4, <1>6, <1>7

LEMMA LinkedPrevious ==
    ASSUME NEW c \in Lists, NEW k \in Keys, NEW to \in Ends
    PROVE  \E d \in Lists :
              /\ d = Linked(c, k, "previous", to)
              /\ d.dict = c.dict /\ d.head = c.head /\ d.tail = c.tail
              /\ \A x \in Keys : d.links[x].next = c.links[x].next
              /\ \A x \in Keys \ {k} : d.links[x].previous = c.links[x].previous
              /\ d.links[k].previous = to
<1>1. PICK l : l = [c.links EXCEPT ![k] = [previous |-> to, next |-> c.links[k].next]]
  OBVIOUS
<1>2. [c.links[k] EXCEPT !["previous"] = to] = [previous |-> to, next |-> c.links[k].next]
  <2>1. c.links[k] = [previous |-> c.links[k].previous, next |-> c.links[k].next]
    BY ListFields, LinkFields
  <2>2. PICK v, p, n : v = c.links[k] /\ p = v.previous /\ n = v.next
    OBVIOUS
  <2>3. v = [previous |-> p, next |-> n]
    BY <2>1, <2>2
  <2>4. [v EXCEPT !["previous"] = to] = [previous |-> to, next |-> n]
    BY <2>3, NamedLink
  <2> QED BY <2>2, <2>4, Zenon
<1>3. PICK d : d = [dict |-> c.dict, links |-> l, head |-> c.head, tail |-> c.tail]
  OBVIOUS
<1>4. d = Linked(c, k, "previous", to)
  BY <1>1, <1>2, <1>3, ListFields DEF Linked
<1>5. c.links \in Links /\ c.links[k].next \in Ends
  BY ListFields, LinkFields
<1>6. /\ l \in Links /\ l[k].previous = to /\ l[k].next = c.links[k].next
      /\ \A x \in Keys \ {k} : l[x] = c.links[x]
  BY <1>1, <1>5 DEF Links
<1>7. d \in Lists
  BY <1>3, <1>6, ListFields DEF Lists
<1> QED BY <1>3, <1>4, <1>6, <1>7

\* Both links of an item are set.
SetLinks(c, k, p, n) == [c EXCEPT !.links[k] = [previous |-> p, next |-> n]]

LEMMA BothLinks ==
    ASSUME NEW c \in Lists, NEW k \in Keys, NEW p \in Ends, NEW n \in Ends
    PROVE  \E d \in Lists :
              /\ d = SetLinks(c, k, p, n)
              /\ d.dict = c.dict /\ d.head = c.head /\ d.tail = c.tail
              /\ \A x \in Keys \ {k} : /\ d.links[x].next = c.links[x].next
                                       /\ d.links[x].previous = c.links[x].previous
              /\ d.links[k].previous = p /\ d.links[k].next = n
<1>1. PICK l : l = [c.links EXCEPT ![k] = [previous |-> p, next |-> n]]
  OBVIOUS
<1>3. PICK d : d = [dict |-> c.dict, links |-> l, head |-> c.head, tail |-> c.tail]
  OBVIOUS
<1>4. d = SetLinks(c, k, p, n)
  BY <1>1, <1>3, ListFields DEF SetLinks
<1>6. /\ l \in Links /\ l[k].previous = p /\ l[k].next = n
      /\ \A x \in Keys \ {k} : l[x] = c.links[x]
  BY <1>1, ListFields DEF Links
<1>7. d \in Lists
  BY <1>3, <1>6, ListFields DEF Lists
<1> QED BY <1>3, <1>4, <1>6, <1>7

\* The head, or the tail, is set.
LEMMA HeadSet ==
    ASSUME NEW c \in Lists, NEW k \in Ends
    PROVE  \E d \in Lists : /\ d = [c EXCEPT !.head = k] /\ d.head = k
                            /\ d.dict = c.dict /\ d.links = c.links /\ d.tail = c.tail
<1>1. PICK d : d = [dict |-> c.dict, links |-> c.links, head |-> k, tail |-> c.tail]
  OBVIOUS
<1>2. d = [c EXCEPT !.head = k]
  BY <1>1, ListFields
<1>3. d \in Lists
  BY <1>1, ListFields DEF Lists
<1> QED BY <1>1, <1>2, <1>3

LEMMA TailSet ==
    ASSUME NEW c \in Lists, NEW k \in Ends
    PROVE  \E d \in Lists : /\ d = [c EXCEPT !.tail = k] /\ d.tail = k
                            /\ d.dict = c.dict /\ d.links = c.links /\ d.head = c.head
<1>1. PICK d : d = [dict |-> c.dict, links |-> c.links, head |-> c.head, tail |-> k]
  OBVIOUS
<1>2. d = [c EXCEPT !.tail = k]
  BY <1>1, ListFields
<1>3. d \in Lists
  BY <1>1, ListFields DEF Lists
<1> QED BY <1>1, <1>2, <1>3

LEMMA OrderedFacts ==
    ASSUME NEW c \in Lists, NEW s, Ordered(c, s)
    PROVE  /\ s \in Seq(Keys) /\ Len(s) \in Nat /\ Distinct(s)
           /\ \A i \in 1..Len(s) : s[i] \in Keys
           /\ \A i \in Int : At(s, i) \in Ends
           /\ Nil \notin Keys
<1>1. s \in Seq(Keys) /\ Distinct(s)
  BY DEF Ordered
<1> QED BY <1>1, LenProperties, CacheAssumption DEF At, Ends

\* An item is moved to the head.
LEMMA UpdatedOrdered ==
    ASSUME NEW c \in Lists, NEW s, Ordered(c, s), NEW j \in 1..Len(s), j # 1
    PROVE  /\ Updated(c, s[j]) \in Lists
           /\ Ordered(Updated(c, s[j]), Held!ToFront(s[j], s))
<1>1. /\ s \in Seq(Keys) /\ Len(s) \in Nat /\ Distinct(s)
      /\ \A i \in 1..Len(s) : s[i] \in Keys
      /\ \A i \in Int : At(s, i) \in Ends
      /\ Nil \notin Keys
  BY OrderedFacts
<1>2. PICK n \in Nat : n = Len(s) /\ j \in 2..n
  BY <1>1
<1>3. PICK k \in Keys : k = s[j]
  BY <1>1
<1>4. /\ 1 \in 1..n /\ j - 1 \in 1..n /\ j \in 1..n
      /\ s[1] \in Keys /\ s[j - 1] \in Keys /\ s[1] # k /\ s[j - 1] # k
  BY <1>1, <1>2, <1>3 DEF Distinct
<1>5. /\ c.head = s[1] /\ c.tail = s[n]
      /\ c.links[k].previous = s[j - 1] /\ c.links[k].next = At(s, j + 1)
  BY <1>2, <1>3, <1>4 DEF Ordered, At
<1>6. PICK after \in Ends : after = At(s, j + 1) /\ (after = Nil <=> j = n)
  BY <1>1, <1>2 DEF At, Ends
<1>7. PICK without \in Lists :
         /\ without = Linked(c, s[j - 1], "next", after)
         /\ without.dict = c.dict /\ without.head = c.head /\ without.tail = c.tail
         /\ \A x \in Keys : without.links[x].previous = c.links[x].previous
         /\ \A x \in Keys \ {s[j - 1]} : without.links[x].next = c.links[x].next
         /\ without.links[s[j - 1]].next = after
  BY <1>4, LinkedNext
<1>8. PICK closed \in Lists :
         /\ closed = IF after = Nil THEN TailMoves(without, k)
                     ELSE Linked(without, after, "previous", s[j - 1])
         /\ closed.dict = c.dict /\ closed.head = c.head
         /\ closed.tail = IF j = n THEN s[j - 1] ELSE c.tail
         /\ \A x \in Keys : closed.links[x].next = without.links[x].next
         /\ \A x \in Keys \ {after} : closed.links[x].previous = c.links[x].previous
         /\ after # Nil => closed.links[after].previous = s[j - 1]
  <2>1. CASE after = Nil
    <3>1. without.links[k].previous = s[j - 1]
      BY <1>5, <1>7
    <3>2. s[j - 1] \in Ends
      BY <1>4 DEF Ends
    <3>3. PICK d \in Lists :
             /\ d = [without EXCEPT !.tail = s[j - 1]] /\ d.tail = s[j - 1]
             /\ d.dict = without.dict /\ d.links = without.links /\ d.head = without.head
      BY <3>2, TailSet
    <3>4. d = TailMoves(without, k)
      BY <3>1, <3>3 DEF TailMoves
    <3>5. d = IF after = Nil THEN TailMoves(without, k)
              ELSE Linked(without, after, "previous", s[j - 1])
      BY <2>1, <3>4, Zenon
    <3>6. d.tail = IF j = n THEN s[j - 1] ELSE c.tail
      BY <1>6, <2>1, <3>3
    <3>7. d.dict = c.dict /\ d.head = c.head /\ d.links = without.links
      BY <1>7, <3>3, Zenon
    <3>8. /\ \A x \in Keys : d.links[x].next = without.links[x].next
          /\ \A x \in Keys \ {after} : d.links[x].previous = c.links[x].previous
      BY <1>7, <3>7
    <3> QED BY <2>1, <3>5, <3>6, <3>7, <3>8, Zenon
  <2>2. CASE after # Nil
    <3>1. after \in Keys /\ s[j - 1] \in Ends
      BY <1>4, <2>2 DEF Ends
    <3>2. PICK d \in Lists :
             /\ d = Linked(without, after, "previous", s[j - 1])
             /\ d.dict = without.dict /\ d.head = without.head /\ d.tail = without.tail
             /\ \A x \in Keys : d.links[x].next = without.links[x].next
             /\ \A x \in Keys \ {after} : d.links[x].previous = without.links[x].previous
             /\ d.links[after].previous = s[j - 1]
      BY <3>1, LinkedPrevious
    <3>3. d = IF after = Nil THEN TailMoves(without, k)
              ELSE Linked(without, after, "previous", s[j - 1])
      BY <2>2, <3>2, Zenon
    <3>4. d.tail = IF j = n THEN s[j - 1] ELSE c.tail
      BY <1>6, <1>7, <2>2, <3>2
    <3>5. d.dict = c.dict /\ d.head = c.head
      BY <1>7, <3>2, Zenon
    <3>6. \A x \in Keys \ {after} : d.links[x].previous = c.links[x].previous
      BY <1>7, <3>2
    <3> QED BY <3>2, <3>3, <3>4, <3>5, <3>6, Zenon
  <2> QED BY <2>1, <2>2
<1>9. PICK moved \in Lists :
         /\ moved = [closed EXCEPT !.links[k] = [previous |-> Nil, next |-> c.head]]
         /\ moved.dict = c.dict /\ moved.head = c.head /\ moved.tail = closed.tail
         /\ \A x \in Keys \ {k} : /\ moved.links[x].next = closed.links[x].next
                                  /\ moved.links[x].previous = closed.links[x].previous
         /\ moved.links[k].previous = Nil /\ moved.links[k].next = c.head
  <2>1. PICK p, h \in Ends : p = Nil /\ h = c.head
    BY ListFields DEF Ends
  <2>2. PICK d \in Lists :
         /\ d = SetLinks(closed, k, p, h)
         /\ d.dict = closed.dict /\ d.head = closed.head /\ d.tail = closed.tail
         /\ \A x \in Keys \ {k} : /\ d.links[x].next = closed.links[x].next
                                  /\ d.links[x].previous = closed.links[x].previous
         /\ d.links[k].previous = p /\ d.links[k].next = h
    BY BothLinks, SMTT(60)
  <2>3. d = [closed EXCEPT !.links[k] = [previous |-> Nil, next |-> c.head]]
    BY <2>1, <2>2 DEF SetLinks
  <2> QED BY <1>8, <2>1, <2>2, <2>3, ZenonT(60)
<1>10. PICK led \in Lists :
         /\ led = Linked(moved, c.head, "previous", k)
         /\ led.dict = moved.dict /\ led.head = moved.head /\ led.tail = moved.tail
         /\ \A x \in Keys : led.links[x].next = moved.links[x].next
         /\ \A x \in Keys \ {c.head} : led.links[x].previous = moved.links[x].previous
         /\ led.links[c.head].previous = k
  <2>1. c.head \in Keys /\ k \in Ends
    BY <1>4, <1>5 DEF Ends
  <2> QED BY <2>1, LinkedPrevious
<1>11. PICK u \in Lists :
         /\ u = [led EXCEPT !.head = k] /\ u.head = k
         /\ u.dict = led.dict /\ u.links = led.links /\ u.tail = led.tail
  <2>1. k \in Ends
    BY DEF Ends
  <2> QED BY <2>1, HeadSet
<1>12. u = Updated(c, k)
  BY <1>4, <1>5, <1>6, <1>7, <1>8, <1>9, <1>10, <1>11, ZenonT(60) DEF Updated
<1>13. PICK t \in Seq(Keys) :
         /\ t = Held!ToFront(k, s) /\ Len(t) = n
         /\ \A i \in 1..n : t[i] = IF i = 1 THEN k
                                   ELSE IF i <= j THEN s[i - 1] ELSE s[i]
  BY <1>1, <1>2, <1>3, MovedToFront, ZenonT(60)
<1>14. u.dict = c.dict /\ u.head = k /\ u.tail = IF j = n THEN s[j - 1] ELSE s[n]
  BY <1>5, <1>8, <1>9, <1>10, <1>11, ZenonT(60)
<1>15. \A m \in 1..n \ {j} : s[m] \in Keys /\ s[m] # k
  BY <1>1, <1>2, <1>3 DEF Distinct
<1>a. \A x \in Keys : u.links[x] = led.links[x]
  BY <1>11
<1>b. \A x \in Keys : u.links[x].next = moved.links[x].next
  BY <1>a, <1>10
<1>c. \A x \in Keys \ {k} : u.links[x].next = without.links[x].next
  BY <1>b, <1>9, <1>8
<1>d. \A x \in Keys \ {s[1]} : u.links[x].previous = moved.links[x].previous
  BY <1>a, <1>5, <1>10
<1>e. \A x \in Keys \ {s[1], k} : u.links[x].previous = closed.links[x].previous
  BY <1>d, <1>9
<1>16. \A m \in 1..n \ {j} :
          u.links[s[m]].next = IF m = j - 1 THEN At(s, j + 1) ELSE At(s, m + 1)
  <2> TAKE m \in 1..n \ {j}
  <2>1. u.links[s[m]].next = without.links[s[m]].next
    BY <1>c, <1>15
  <2>2. m # j - 1 => s[m] # s[j - 1]
    BY <1>1, <1>2, <1>4 DEF Distinct
  <2>3. c.links[s[m]].next = At(s, m + 1)
    BY <1>2 DEF Ordered
  <2> QED BY <1>6, <1>7, <1>15, <2>1, <2>2, <2>3
<1>17. \A m \in 1..n \ {j} :
          u.links[s[m]].previous = IF m = 1 THEN k
                                   ELSE IF m = j + 1 THEN s[j - 1] ELSE At(s, m - 1)
  <2> TAKE m \in 1..n \ {j}
  <2>1. CASE m = 1
    BY <1>5, <1>10, <1>11, <2>1
  <2>2. CASE m # 1
    <3>1. s[m] # s[1]
      BY <1>1, <1>2, <1>4, <2>2 DEF Distinct
    <3>2. u.links[s[m]].previous = closed.links[s[m]].previous
      BY <1>e, <1>15, <3>1
    <3>3. c.links[s[m]].previous = At(s, m - 1)
      BY <1>2 DEF Ordered
    <3>4. m = j + 1 => after = s[m] /\ after # Nil
      BY <1>1, <1>2, <1>6, <1>15 DEF At
    <3>5. m # j + 1 => after # s[m]
      BY <1>1, <1>2, <1>6, <1>15 DEF At, Distinct
    <3> QED BY <1>8, <1>15, <2>2, <3>2, <3>3, <3>4, <3>5
  <2> QED BY <2>1, <2>2
<1>18. u.links[k].next = s[1] /\ u.links[k].previous = Nil
  BY <1>4, <1>5, <1>9, <1>b, <1>d
<1>19. Distinct(t)
  BY <1>1, <1>2, <1>3, <1>13, <1>15 DEF Distinct
<1>20. u.dict = {t[i] : i \in 1..Len(t)}
  <2>1. c.dict = {s[i] : i \in 1..n}
    BY <1>2 DEF Ordered
  <2>2. \A i \in 1..n : \E m \in 1..n : t[i] = s[m]
    <3> TAKE i \in 1..n
    <3>1. CASE i = 1
      BY <1>3, <1>4, <1>13, <3>1
    <3>2. CASE i # 1 /\ i <= j
      BY <1>2, <1>13, <3>2
    <3>3. CASE i # 1 /\ i > j
      BY <1>2, <1>13, <3>3
    <3> QED BY <1>2, <3>1, <3>2, <3>3
  <2>3. \A m \in 1..n : \E i \in 1..n : s[m] = t[i]
    <3> TAKE m \in 1..n
    <3>1. CASE m = j
      BY <1>3, <1>4, <1>13, <3>1
    <3>2. CASE m < j
      <4>1. PICK i \in 1..n : i = m + 1 /\ i # 1 /\ i <= j /\ i - 1 = m
        BY <1>2, <3>2
      <4>2. t[i] = s[m]
        BY <1>13, <4>1
      <4> QED BY <4>2
    <3>3. CASE m > j
      BY <1>2, <1>13, <3>3
    <3> QED BY <1>2, <3>1, <3>2, <3>3
  <2>4. {s[i] : i \in 1..n} = {t[i] : i \in 1..n}
    <3>1. ASSUME NEW m \in 1..n PROVE s[m] \in {t[i] : i \in 1..n}
      BY <2>3
    <3>2. ASSUME NEW i \in 1..n PROVE t[i] \in {s[m] : m \in 1..n}
      BY <2>2
    <3> QED BY <3>1, <3>2
  <2> QED BY <1>13, <1>14, <2>1, <2>4
<1>21. ASSUME NEW i \in 1..n
       PROVE  u.links[t[i]].previous = At(t, i - 1) /\ u.links[t[i]].next = At(t, i + 1)
  <2>1. CASE i = 1
    <3>1. t[1] = k /\ t[2] = s[1]
      BY <1>2, <1>13
    <3>2. At(t, 0) = Nil /\ At(t, 2) = s[1]
      BY <1>2, <1>13, <3>1 DEF At
    <3> QED BY <1>18, <2>1, <3>1, <3>2
  <2>2. CASE i # 1 /\ i <= j
    <3>1. i - 1 \in 1..n \ {j} /\ t[i] = s[i - 1]
      BY <1>2, <1>13, <2>2
    <3>2. u.links[t[i]].next = IF i = j THEN At(s, j + 1) ELSE At(s, i)
      BY <1>2, <1>16, <3>1
    <3>3. u.links[t[i]].previous = IF i = 2 THEN k ELSE At(s, i - 2)
      BY <1>2, <1>17, <2>2, <3>1
    <3>4. At(t, i + 1) = IF i = j THEN At(s, j + 1) ELSE At(s, i)
      BY <1>2, <1>13, <2>2 DEF At
    <3>5. At(t, i - 1) = IF i = 2 THEN k ELSE At(s, i - 2)
      BY <1>2, <1>13, <2>2 DEF At
    <3> QED BY <3>2, <3>3, <3>4, <3>5
  <2>3. CASE i > j
    <3>1. i \in 1..n \ {j} /\ t[i] = s[i] /\ i # 1
      BY <1>2, <1>13, <2>3
    <3>2. u.links[t[i]].next = At(s, i + 1)
      BY <1>2, <1>16, <2>3, <3>1
    <3>3. u.links[t[i]].previous = IF i = j + 1 THEN s[j - 1] ELSE At(s, i - 1)
      BY <1>17, <3>1
    <3>4. At(t, i + 1) = At(s, i + 1)
      BY <1>2, <1>13, <2>3 DEF At
    <3>5. At(t, i - 1) = IF i = j + 1 THEN s[j - 1] ELSE At(s, i - 1)
      BY <1>2, <1>13, <2>3 DEF At
    <3> QED BY <3>2, <3>3, <3>4, <3>5
  <2> QED BY <1>2, <2>1, <2>2, <2>3
<1>22. u.head = At(t, 1) /\ u.tail = At(t, n)
  BY <1>2, <1>13, <1>14 DEF At
<1>23. Ordered(u, t)
  BY <1>13, <1>19, <1>20, <1>21, <1>22 DEF Ordered
<1> QED BY <1>3, <1>12, <1>13, <1>23

\* There are as many keys as places.
LEMMA OrderedSize ==
    ASSUME NEW c \in Lists, NEW s, Ordered(c, s)
    PROVE  Cardinality(c.dict) = Len(s)
<1>1. /\ s \in Seq(Keys) /\ Len(s) \in Nat /\ Distinct(s)
      /\ c.dict = {s[i] : i \in 1..Len(s)}
  BY OrderedFacts DEF Ordered
<1>2. s \in [1..Len(s) -> c.dict]
  BY <1>1, LenProperties
<1>3. s \in Bijection(1..Len(s), c.dict)
  BY <1>1, <1>2 DEF Bijection, Injection, Surjection, IsInjective, Distinct
<1>4. ExistsBijection(1..Len(s), c.dict)
  BY <1>3 DEF ExistsBijection
<1> QED BY <1>1, <1>4, FS_CountingElements

\* The item at the tail is removed.
WithoutTail(c) == [c EXCEPT !.dict = @ \ {c.tail}, !.links[c.tail] = Unlinked]

LEMMA TailRemoved ==
    ASSUME NEW c \in Lists, c.tail \in Keys
    PROVE  \E d \in Lists :
              /\ d = WithoutTail(c)
              /\ d.dict = c.dict \ {c.tail} /\ d.head = c.head /\ d.tail = c.tail
              /\ \A x \in Keys \ {c.tail} : d.links[x] = c.links[x]
<1>1. PICK l : l = [c.links EXCEPT ![c.tail] = Unlinked]
  OBVIOUS
<1>2. PICK d : d = [dict |-> c.dict \ {c.tail}, links |-> l,
                    head |-> c.head, tail |-> c.tail]
  OBVIOUS
<1>3. d = WithoutTail(c)
  <2>1. PICK m, D : /\ D = c.dict \ {c.tail}
                    /\ m = [dict |-> D, links |-> c.links,
                            head |-> c.head, tail |-> c.tail]
    OBVIOUS
  <2>2. m = [c EXCEPT !.dict = @ \ {c.tail}]
    <3>1. m = [c EXCEPT !.dict = D]
      BY <2>1, ListFields
    <3> QED BY <2>1, <3>1, Zenon
  <2>3. d = [m EXCEPT !.links[c.tail] = Unlinked]
    BY <1>1, <1>2, <2>1
  <2> QED BY <2>2, <2>3 DEF WithoutTail
<1>4. l \in Links /\ \A x \in Keys \ {c.tail} : l[x] = c.links[x]
  BY <1>1, ListFields DEF Links, Unlinked, Ends
<1>5. d \in Lists
  BY <1>2, <1>4, ListFields DEF Lists
<1> QED BY <1>2, <1>3, <1>4, <1>5

LEMMA ManageSizeIs ==
    ASSUME NEW c
    PROVE  ManageSize(c) =
             IF ~TooFull(c) THEN c
             ELSE IF c.tail = c.head
                  THEN [WithoutTail(c) EXCEPT !.head = Nil, !.tail = Nil]
                  ELSE Linked([WithoutTail(c) EXCEPT !.tail = c.links[c.tail].previous],
                              c.links[c.tail].previous, "next", Nil)
  BY DEF ManageSize, WithoutTail

\* What is left are the first keys, as many as the cache holds.
LEMMA ManageSizeOrdered ==
    ASSUME NEW c \in Lists, NEW s, Ordered(c, s), Len(s) <= Capacity + 1
    PROVE  /\ ManageSize(c) \in Lists
           /\ Ordered(ManageSize(c), Held!Bounded(s))
           /\ Len(Held!Bounded(s)) <= Capacity
<1>1. /\ s \in Seq(Keys) /\ Len(s) \in Nat /\ Distinct(s)
      /\ \A i \in 1..Len(s) : s[i] \in Keys
      /\ \A i \in Int : At(s, i) \in Ends
      /\ Nil \notin Keys /\ Capacity \in Nat
  BY OrderedFacts, CacheAssumption
<1>2. TooFull(c) <=> Len(s) > Capacity
  BY OrderedSize DEF TooFull
<1>3. CASE Len(s) <= Capacity
  <2>1. ~TooFull(c)
    BY <1>1, <1>2, <1>3
  <2>2. ManageSize(c) = c
    BY <2>1 DEF ManageSize
  <2>3. Held!Bounded(s) = s
    BY <1>1, <1>3, FirstOfThem
  <2> QED BY <1>3, <2>2, <2>3
<1>4. CASE Len(s) > Capacity
  <2>1. PICK n \in Nat : n = Len(s) /\ n = Capacity + 1 /\ n >= 1
    BY <1>1, <1>4
  <2>2. PICK t \in Seq(Keys) : /\ t = Held!Bounded(s) /\ Len(t) = n - 1
                               /\ \A i \in 1..n - 1 : t[i] = s[i]
    <3>1. \A i \in 1..Len(s) : i <= Capacity => Held!Bounded(s)[i] = s[i]
      BY <1>1, FirstOfThem
    <3>2. Held!Bounded(s) \in Seq(Keys) /\ Len(Held!Bounded(s)) = Capacity
      BY <1>1, <1>4, FirstOfThem
    <3> QED BY <2>1, <3>1, <3>2
  <2>3. c.tail = s[n] /\ c.head = s[1] /\ s[n] \in Keys /\ n \in 1..n /\ 1 \in 1..n
    BY <1>1, <2>1 DEF Ordered, At
  <2>4. PICK d \in Lists :
           /\ d = WithoutTail(c)
           /\ d.dict = c.dict \ {s[n]} /\ d.head = s[1] /\ d.tail = s[n]
           /\ \A x \in Keys \ {s[n]} : d.links[x] = c.links[x]
    BY <2>3, TailRemoved
  <2>5. Distinct(t) /\ \A i \in 1..n - 1 : s[i] # s[n] /\ s[i] \in Keys
    BY <1>1, <2>1, <2>2 DEF Distinct
  <2>6. d.dict = {t[i] : i \in 1..n - 1}
    <3>1. c.dict = {s[i] : i \in 1..n}
      BY <2>1 DEF Ordered
    <3>2. ASSUME NEW x \in d.dict PROVE x \in {t[i] : i \in 1..n - 1}
      <4>1. PICK i \in 1..n : x = s[i] /\ i # n
        BY <2>4, <3>1, <3>2
      <4> QED BY <2>1, <2>2, <4>1
    <3>3. ASSUME NEW i \in 1..n - 1 PROVE t[i] \in d.dict
      BY <2>1, <2>2, <2>4, <2>5, <3>1
    <3> QED BY <3>2, <3>3
  <2>7. TooFull(c)
    BY <1>2, <1>4
  <2>8. CASE n = 1
    <3>1. PICK e : e = [d EXCEPT !.head = Nil, !.tail = Nil]
      OBVIOUS
    <3>2. ManageSize(c) = e
      BY <2>3, <2>4, <2>7, <2>8, <3>1, ManageSizeIs
    <3>3. e = [dict |-> d.dict, links |-> d.links, head |-> Nil, tail |-> Nil]
      <4>1. DOMAIN e = {"dict", "links", "head", "tail"}
        BY <3>1, ListFields
      <4>2. e.dict = d.dict /\ e.links = d.links /\ e.head = Nil /\ e.tail = Nil
        BY <3>1, ListFields
      <4>3. e = [x \in DOMAIN e |-> e[x]]
        BY <3>1
      <4>4. e = [x \in {"dict", "links", "head", "tail"} |-> e[x]]
        BY <4>1, <4>3
      <4> QED BY <4>2, <4>4
    <3>4. e \in Lists /\ e.head = Nil /\ e.tail = Nil /\ e.dict = d.dict
      BY <3>3, ListFields DEF Lists, Ends
    <3>5. Ordered(e, t)
      BY <2>2, <2>5, <2>6, <2>8, <3>4 DEF Ordered, At
    <3> QED BY <1>1, <2>1, <2>2, <3>2, <3>4, <3>5
  <2>9. CASE n # 1
    <3>1. /\ c.links[c.tail].previous = s[n - 1] /\ s[n - 1] \in Keys
          /\ c.tail # c.head /\ n - 1 \in 1..n - 1
      <4>1. n - 1 \in 1..n /\ n - 1 \in 1..n - 1
        BY <2>1, <2>9
      <4>2. c.links[s[n]].previous = At(s, n - 1)
        BY <2>1, <2>3 DEF Ordered
      <4>3. At(s, n - 1) = s[n - 1]
        BY <2>1, <4>1 DEF At
      <4>4. s[1] # s[n]
        BY <1>1, <2>1, <2>3, <2>9 DEF Distinct
      <4> QED BY <2>3, <2>5, <4>1, <4>2, <4>3, <4>4
    <3>2. PICK e \in Lists :
             /\ e = [d EXCEPT !.tail = s[n - 1]] /\ e.tail = s[n - 1]
             /\ e.dict = d.dict /\ e.links = d.links /\ e.head = d.head
      <4>1. s[n - 1] \in Ends
        BY <3>1 DEF Ends
      <4> QED BY <4>1, TailSet
    <3>3. PICK f \in Lists :
             /\ f = Linked(e, s[n - 1], "next", Nil)
             /\ f.dict = e.dict /\ f.head = e.head /\ f.tail = e.tail
             /\ \A x \in Keys : f.links[x].previous = e.links[x].previous
             /\ \A x \in Keys \ {s[n - 1]} : f.links[x].next = e.links[x].next
             /\ f.links[s[n - 1]].next = Nil
      <4>1. Nil \in Ends
        BY DEF Ends
      <4> QED BY <3>1, <4>1, LinkedNext
    <3>4. ManageSize(c) = f
      BY <2>4, <2>7, <3>1, <3>2, <3>3, ManageSizeIs
    <3>5. f.head = At(t, 1) /\ f.tail = At(t, n - 1)
      BY <2>1, <2>2, <2>4, <2>9, <3>1, <3>2, <3>3 DEF At
    <3>6. ASSUME NEW i \in 1..n - 1
          PROVE  f.links[t[i]].previous = At(t, i - 1) /\ f.links[t[i]].next = At(t, i + 1)
      <4>1. t[i] = s[i] /\ s[i] \in Keys /\ s[i] # s[n] /\ i \in 1..n
        BY <2>1, <2>2, <2>5
      <4>2. c.links[s[i]].previous = At(s, i - 1) /\ c.links[s[i]].next = At(s, i + 1)
        BY <2>1, <4>1 DEF Ordered
      <4>3. e.links[s[i]] = c.links[s[i]]
        BY <2>4, <3>2, <4>1
      <4>4. f.links[s[i]].previous = At(t, i - 1)
        <5>1. At(s, i - 1) = At(t, i - 1)
          BY <2>1, <2>2 DEF At
        <5> QED BY <3>3, <4>1, <4>2, <4>3, <5>1
      <4>5. f.links[s[i]].next = At(t, i + 1)
        <5>1. CASE i = n - 1
          <6>1. At(t, i + 1) = Nil
            BY <2>1, <2>2, <5>1 DEF At
          <6> QED BY <3>3, <5>1, <6>1
        <5>2. CASE i # n - 1
          <6>1. s[i] # s[n - 1]
            BY <1>1, <2>1, <3>1, <4>1, <5>2 DEF Distinct
          <6>2. At(s, i + 1) = At(t, i + 1)
            BY <2>1, <2>2, <5>2 DEF At
          <6> QED BY <3>3, <4>1, <4>2, <4>3, <6>1, <6>2
        <5> QED BY <5>1, <5>2
      <4> QED BY <4>1, <4>4, <4>5
    <3>7. Ordered(f, t)
      BY <2>2, <2>5, <2>6, <3>2, <3>3, <3>5, <3>6 DEF Ordered
    <3> QED BY <1>1, <2>1, <2>2, <3>4, <3>7
  <2> QED BY <2>8, <2>9
<1> QED BY <1>1, <1>3, <1>4

\* A new item is put at the head.
WithKey(c, k) == [c EXCEPT !.dict = @ \cup {k}]

LEMMA KeyAdded ==
    ASSUME NEW c \in Lists, NEW k \in Keys
    PROVE  \E d \in Lists : /\ d = WithKey(c, k) /\ d.dict = c.dict \cup {k}
                            /\ d.links = c.links /\ d.head = c.head /\ d.tail = c.tail
<1>1. PICK D : D = c.dict \cup {k}
  OBVIOUS
<1>2. PICK d : d = [dict |-> D, links |-> c.links, head |-> c.head, tail |-> c.tail]
  OBVIOUS
<1>3. d = [c EXCEPT !.dict = D]
  BY <1>2, ListFields
<1>4. d = WithKey(c, k)
  BY <1>1, <1>3, Zenon DEF WithKey
<1>5. D \subseteq Keys
  BY <1>1, ListFields
<1>6. d \in Lists
  BY <1>2, <1>5, ListFields DEF Lists
<1> QED BY <1>1, <1>2, <1>4, <1>6

LEMMA InsertedIs ==
    ASSUME NEW c, NEW k
    PROVE  Inserted(c, k) =
             ManageSize([(IF c.head = Nil THEN [SetLinks(c, k, Nil, c.head) EXCEPT !.tail = k]
                          ELSE Linked(SetLinks(c, k, Nil, c.head), c.head, "previous", k))
                         EXCEPT !.head = k])
  BY DEF Inserted, SetLinks

LEMMA InsertedOrdered ==
    ASSUME NEW c \in Lists, NEW s, Ordered(c, s), Len(s) <= Capacity,
           NEW k \in Keys, k \notin c.dict
    PROVE  /\ Inserted(WithKey(c, k), k) \in Lists
           /\ Ordered(Inserted(WithKey(c, k), k), Held!Bounded(Held!ToFront(k, s)))
           /\ Len(Held!Bounded(Held!ToFront(k, s))) <= Capacity
<1>1. /\ s \in Seq(Keys) /\ Len(s) \in Nat /\ Distinct(s)
      /\ \A i \in 1..Len(s) : s[i] \in Keys
      /\ \A i \in Int : At(s, i) \in Ends
      /\ Nil \notin Keys /\ Capacity \in Nat
  BY OrderedFacts, CacheAssumption
<1>2. PICK n \in Nat : n = Len(s)
  BY <1>1
<1>3. \A i \in 1..n : s[i] # k
  BY <1>2 DEF Ordered
<1>4. PICK t \in Seq(Keys) : /\ t = Held!ToFront(k, s) /\ Len(t) = n + 1 /\ t[1] = k
                             /\ \A i \in 1..n : t[i + 1] = s[i]
  BY <1>1, <1>2, <1>3, PutInFront
<1>5. c.head = At(s, 1) /\ c.tail = At(s, n) /\ c.dict = {s[i] : i \in 1..n}
  BY <1>2 DEF Ordered
<1>6. PICK a \in Lists : /\ a = WithKey(c, k) /\ a.dict = c.dict \cup {k}
                         /\ a.links = c.links /\ a.head = c.head /\ a.tail = c.tail
  BY KeyAdded
<1>7. PICK b \in Lists :
         /\ b = SetLinks(a, k, Nil, c.head)
         /\ b.dict = a.dict /\ b.head = a.head /\ b.tail = a.tail
         /\ \A x \in Keys \ {k} : /\ b.links[x].next = a.links[x].next
                                  /\ b.links[x].previous = a.links[x].previous
         /\ b.links[k].previous = Nil /\ b.links[k].next = c.head
  <2>1. Nil \in Ends /\ c.head \in Ends
    BY ListFields DEF Ends
  <2> QED BY <2>1, BothLinks
<1>8. PICK d \in Lists :
         /\ d = IF c.head = Nil THEN [b EXCEPT !.tail = k]
                ELSE Linked(b, c.head, "previous", k)
         /\ d.dict = a.dict /\ d.tail = IF n = 0 THEN k ELSE c.tail
         /\ \A x \in Keys : d.links[x].next = b.links[x].next
         /\ \A x \in Keys \ {c.head} : d.links[x].previous = b.links[x].previous
         /\ n # 0 => d.links[c.head].previous = k
  <2>1. k \in Ends
    BY DEF Ends
  <2>2. CASE n = 0
    <3>1. c.head = Nil
      BY <1>2, <1>5, <2>2 DEF At
    <3>2. PICK e \in Lists : /\ e = [b EXCEPT !.tail = k] /\ e.tail = k
                             /\ e.dict = b.dict /\ e.links = b.links /\ e.head = b.head
      BY <2>1, TailSet
    <3> QED BY <1>7, <2>2, <3>1, <3>2
  <2>3. CASE n # 0
    <3>1. c.head = s[1] /\ c.head \in Keys /\ c.head # Nil
      <4>1. 1 \in 1..n
        BY <2>3
      <4> QED BY <1>1, <1>2, <1>5, <4>1 DEF At
    <3>2. PICK e \in Lists :
             /\ e = Linked(b, c.head, "previous", k)
             /\ e.dict = b.dict /\ e.head = b.head /\ e.tail = b.tail
             /\ \A x \in Keys : e.links[x].next = b.links[x].next
             /\ \A x \in Keys \ {c.head} : e.links[x].previous = b.links[x].previous
             /\ e.links[c.head].previous = k
      BY <2>1, <3>1, LinkedPrevious
    <3> QED BY <1>6, <1>7, <2>3, <3>1, <3>2
  <2> QED BY <2>2, <2>3
<1>9. PICK u \in Lists : /\ u = [d EXCEPT !.head = k] /\ u.head = k
                         /\ u.dict = d.dict /\ u.links = d.links /\ u.tail = d.tail
  <2>1. k \in Ends
    BY DEF Ends
  <2> QED BY <2>1, HeadSet
<1>10. Inserted(WithKey(c, k), k) = ManageSize(u)
  BY <1>6, <1>7, <1>8, <1>9, InsertedIs
<1>11. Distinct(t)
  <2> SUFFICES ASSUME NEW i \in 1..n + 1, NEW m \in 1..n + 1, t[i] = t[m] PROVE i = m
    BY <1>4 DEF Distinct
  <2>1. \A x \in 1..n + 1 : x # 1 => x - 1 \in 1..n /\ t[x] = s[x - 1]
    <3> TAKE x \in 1..n + 1
    <3>1. x # 1 => x - 1 \in 1..n /\ x - 1 + 1 = x
      OBVIOUS
    <3> QED BY <1>4, <3>1
  <2>2. i # 1 /\ m # 1 => i - 1 = m - 1
    BY <1>1, <1>2, <2>1 DEF Distinct
  <2>3. i = 1 <=> m = 1
    BY <1>3, <1>4, <2>1
  <2> QED BY <2>2, <2>3
<1>12. u.dict = {t[i] : i \in 1..n + 1}
  <2>1. u.dict = c.dict \cup {k}
    BY <1>6, <1>8, <1>9
  <2>2. ASSUME NEW x \in u.dict PROVE x \in {t[i] : i \in 1..n + 1}
    <3>1. CASE x = k
      BY <1>4, <3>1
    <3>2. CASE x # k
      <4>1. PICK i \in 1..n : x = s[i]
        BY <1>5, <2>1, <2>2, <3>2
      <4>2. i + 1 \in 1..n + 1 /\ t[i + 1] = x
        BY <1>4, <4>1
      <4> QED BY <4>2
    <3> QED BY <3>1, <3>2
  <2>3. ASSUME NEW i \in 1..n + 1 PROVE t[i] \in u.dict
    <3>1. CASE i = 1
      BY <1>4, <2>1, <3>1
    <3>2. CASE i # 1
      <4>1. PICK m \in 1..n : i = m + 1
        <5>1. i - 1 \in 1..n /\ i = i - 1 + 1
          BY <3>2
        <5> QED BY <5>1
      <4> QED BY <1>4, <1>5, <2>1, <4>1, ZenonT(60)
    <3> QED BY <3>1, <3>2
  <2> QED BY <2>2, <2>3
<1>13. u.head = At(t, 1) /\ u.tail = At(t, n + 1)
  <2>1. CASE n = 0
    BY <1>4, <1>8, <1>9, <2>1 DEF At
  <2>2. CASE n # 0
    <3>1. n \in 1..n /\ t[n + 1] = s[n] /\ c.tail = s[n]
      BY <1>2, <1>4, <1>5, <2>2 DEF At
    <3> QED BY <1>4, <1>8, <1>9, <2>2, <3>1 DEF At
  <2> QED BY <2>1, <2>2
<1>14. u.links[k].previous = Nil /\ u.links[k].next = At(s, 1)
  <2>1. k # c.head
    BY <1>1, <1>2, <1>3, <1>5 DEF At
  <2> QED BY <1>5, <1>7, <1>8, <1>9, <2>1
<1>15. ASSUME NEW i \in 1..n
       PROVE  /\ u.links[s[i]].next = At(s, i + 1)
              /\ u.links[s[i]].previous = IF i = 1 THEN k ELSE At(s, i - 1)
  <2>1. s[i] \in Keys \ {k} /\ 1 \in 1..n /\ n # 0
    BY <1>1, <1>2, <1>3
  <2>2. c.head = s[1]
    BY <1>2, <1>5, <2>1 DEF At
  <2>3. c.links[s[i]].previous = At(s, i - 1) /\ c.links[s[i]].next = At(s, i + 1)
    BY <1>2 DEF Ordered
  <2>4. u.links[s[i]].next = At(s, i + 1)
    <3>1. u.links[s[i]].next = b.links[s[i]].next
      BY <1>8, <1>9, <2>1, ZenonT(30)
    <3>2. b.links[s[i]].next = c.links[s[i]].next
      BY <1>6, <1>7, <2>1, ZenonT(30)
    <3> QED BY <2>3, <3>1, <3>2, Zenon
  <2>5. i # 1 => s[i] # s[1]
    BY <1>1, <1>2, <2>1 DEF Distinct
  <2>6. u.links[s[i]].previous = IF i = 1 THEN k ELSE At(s, i - 1)
    <3>1. CASE i = 1
      <4>1. s[i] = c.head
        BY <2>2, <3>1
      <4> QED BY <1>8, <1>9, <2>1, <3>1, <4>1, ZenonT(30)
    <3>2. CASE i # 1
      <4>1. u.links[s[i]].previous = b.links[s[i]].previous
        BY <1>8, <1>9, <2>1, <2>2, <2>5, <3>2, ZenonT(30)
      <4>2. b.links[s[i]].previous = c.links[s[i]].previous
        BY <1>6, <1>7, <2>1, ZenonT(30)
      <4> QED BY <2>3, <3>2, <4>1, <4>2, Zenon
    <3> QED BY <3>1, <3>2
  <2> QED BY <2>4, <2>6
<1>16. ASSUME NEW i \in 1..n + 1
       PROVE  u.links[t[i]].previous = At(t, i - 1) /\ u.links[t[i]].next = At(t, i + 1)
  <2>1. \A m \in 0..n + 1 : At(t, m + 1) = IF m = 0 THEN k ELSE At(s, m)
    BY <1>2, <1>4 DEF At
  <2>2. CASE i = 1
    <3>1. At(t, i - 1) = Nil
      BY <1>4, <2>2 DEF At
    <3>2. At(t, i + 1) = At(s, 1)
      BY <2>1, <2>2
    <3> QED BY <1>4, <1>14, <2>2, <3>1, <3>2
  <2>3. CASE i # 1
    <3>1. PICK m \in 1..n : i = m + 1 /\ t[i] = s[m]
      <4>1. i - 1 \in 1..n /\ i = i - 1 + 1
        BY <2>3
      <4> QED BY <1>4, <4>1
    <3>2. At(t, i + 1) = At(s, m + 1)
      <4>1. m + 1 \in 0..n + 1 /\ m + 1 # 0 /\ i + 1 = m + 1 + 1
        BY <3>1
      <4> QED BY <2>1, <4>1
    <3>3. At(t, i - 1) = IF m = 1 THEN k ELSE At(s, m - 1)
      <4>1. m - 1 \in 0..n + 1 /\ i - 1 = m - 1 + 1
        BY <3>1
      <4> QED BY <2>1, <4>1
    <3> QED BY <1>15, <3>1, <3>2, <3>3
  <2> QED BY <2>2, <2>3
<1>17. Ordered(u, t)
  BY <1>4, <1>11, <1>12, <1>13, <1>16 DEF Ordered
<1>18. Len(t) <= Capacity + 1
  BY <1>1, <1>2, <1>4
<1>19. /\ ManageSize(u) \in Lists /\ Ordered(ManageSize(u), Held!Bounded(t))
       /\ Len(Held!Bounded(t)) <= Capacity
  BY <1>17, <1>18, ManageSizeOrdered
<1> QED BY <1>4, <1>10, <1>19

\* Following the links from the head finds the keys in their order: two ways that
\* differ would differ at a first place.
LEMMA Followed ==
    ASSUME NEW c \in Lists, NEW s, Ordered(c, s),
           NEW n, n = Cardinality(c.dict), NEW h, h = c.head, NEW l, l = c.links,
           NEW f, f = CHOOSE g : g = [i \in 1..n |->
                         IF i = 1 THEN h ELSE l[g[i - 1]].next]
    PROVE  [i \in 1..n |-> f[i]] = s
<1>1. n \in Nat /\ n = Len(s) /\ s \in Seq(Keys)
  BY OrderedFacts, OrderedSize
<1> DEFINE Steps(g) == [i \in 1..n |-> IF i = 1 THEN h ELSE l[g[i - 1]].next]
<1>2. s = Steps(s)
  <2>1. s = [i \in 1..n |-> s[i]]
    BY <1>1, LenProperties
  <2>2. ASSUME NEW i \in 1..n
        PROVE  s[i] = IF i = 1 THEN h ELSE l[s[i - 1]].next
    <3>1. CASE i = 1
      BY <1>1, <3>1 DEF Ordered, At
    <3>2. CASE i # 1
      <4>1. PICK m \in 1..n : m = i - 1 /\ i = m + 1
        BY <1>1, <3>2
      <4>2. l[s[m]].next = At(s, m + 1)
        BY <1>1 DEF Ordered
      <4> QED BY <1>1, <3>2, <4>1, <4>2 DEF At
    <3> QED BY <3>1, <3>2
  <2> QED BY <2>1, <2>2
<1>3. f = Steps(f)
  <2>1. f = CHOOSE g : g = Steps(g)
    BY <1>1
  <2> HIDE DEF Steps
  <2> QED BY <1>2, <2>1
<1>4. \A i \in 1..n : f[i] = IF i = 1 THEN h ELSE l[f[i - 1]].next
  BY <1>3
<1>5. \A i \in 1..n : s[i] = IF i = 1 THEN h ELSE l[s[i - 1]].next
  BY <1>2
<1>6. \A i \in 1..n : f[i] = s[i]
  <2> DEFINE D == {i \in 1..n : f[i] # s[i]}
  <2>1. D \subseteq Nat
    OBVIOUS
  <2>2. ASSUME D # {} PROVE FALSE
    <3>1. PICK i \in D : \A m \in D : i <= m
      <4> HIDE DEF D
      <4> QED BY <2>1, <2>2, LeastOf
    <3>2. i # 1
      BY <1>4, <1>5
    <3>3. i - 1 \in 1..n /\ i - 1 \notin D
      <4>1. i \in 1..n /\ i - 1 \in 1..n /\ ~(i <= i - 1)
        BY <1>1, <3>2
      <4> QED BY <3>1, <4>1, Zenon
    <3>4. f[i] = l[f[i - 1]].next /\ s[i] = l[s[i - 1]].next
      BY <1>4, <1>5, <3>2
    <3>5. f[i - 1] = s[i - 1]
      BY <3>3
    <3>6. f[i] # s[i]
      OBVIOUS
    <3> QED BY <3>4, <3>5, <3>6, Zenon
  <2> QED BY <2>2
<1>7. s = [i \in 1..n |-> s[i]]
  BY <1>1, LenProperties
<1> QED BY <1>1, <1>6, <1>7

-----------------------------------------------------------------------------
\* The items of the cache are linked in some order, and are not too many.
Kept(c, s) == c \in Lists /\ Ordered(c, s) /\ Len(s) <= Capacity
CacheInv   == \E s : Kept(Now, s)

Recent == [i \in 1..Cardinality(dict) |-> Loop[i]]

LEMMA RecentIs ==
    ASSUME NEW s, Kept(Now, s)
    PROVE  Recent = s
<1>1. PICK c \in Lists : /\ c = Now /\ Ordered(c, s) /\ c.dict = dict
                         /\ c.head = head /\ c.links = links
  BY DEF Kept, Now
<1>2. Loop = CHOOSE g : g = [i \in 1..Cardinality(dict) |->
                  IF i = 1 THEN head ELSE links[g[i - 1]].next]
  BY DEF Loop
<1>3. [i \in 1..Cardinality(dict) |-> Loop[i]] = s
  BY <1>1, <1>2, Followed
<1> QED BY <1>3 DEF Recent

LEMMA RecentWillBe ==
    ASSUME NEW s, Kept(Now', s)
    PROVE  Recent' = s
<1>1. PICK c \in Lists : /\ c = Now' /\ Ordered(c, s) /\ c.dict = dict'
                         /\ c.head = head' /\ c.links = links'
  BY DEF Kept, Now
<1>2. Loop' = CHOOSE g : g = [i \in 1..Cardinality(dict') |->
                  IF i = 1 THEN head' ELSE links'[g[i - 1]].next]
  BY DEF Loop
<1>3. [i \in 1..Cardinality(dict') |-> Loop'[i]] = s
  BY <1>1, <1>2, Followed
<1> QED BY <1>3 DEF Recent

\* The empty cache.
LEMMA CacheInitHolds == CacheInit => CacheInv /\ Held!Init
<1> SUFFICES ASSUME CacheInit PROVE CacheInv /\ Held!Init
  OBVIOUS
<1>1. PICK s : s = <<>>
  OBVIOUS
<1>2. s \in Seq(Keys) /\ Len(s) = 0
  BY <1>1
<1>3. Now \in Lists
  BY DEF CacheInit, Now, Lists, Links, Ends, Unlinked
<1>4. Ordered(Now, s)
  BY <1>2 DEF CacheInit, Now, Ordered, Distinct, At
<1>5. Kept(Now, s)
  BY <1>2, <1>3, <1>4, CacheAssumption DEF Kept
<1>6. Recent = <<>> /\ found = <<"none">>
  BY <1>1, <1>5, RecentIs DEF CacheInit
<1> QED BY <1>5, <1>6 DEF CacheInv, Recent, Held!Init

\* After a method: the cache it leaves, in the order of t.
LEMMA CacheBecomes ==
    ASSUME NEW c, NEW t, Becomes(c), Kept(c, t)
    PROVE  Kept(Now', t) /\ CacheInv' /\ Recent' = t
<1>1. Now' = c
  BY ListFields DEF Becomes, Now, Kept
<1>2. Kept(Now', t)
  BY <1>1
<1>3. CacheInv'
  BY <1>2 DEF CacheInv
<1> QED BY <1>2, <1>3, RecentWillBe

\* An item that is held is moved to the head, if it is not there.
LEMMA UpdatedKept ==
    ASSUME NEW c, NEW s, Kept(c, s), NEW k \in c.dict
    PROVE  Kept(Updated(c, k), Held!ToFront(k, s))
<1>1. PICK j \in 1..Len(s) : k = s[j]
  BY DEF Kept, Ordered
<1>2. s \in Seq(Keys) /\ Distinct(s) /\ Len(s) \in Nat /\ c \in Lists
  BY OrderedFacts DEF Kept
<1>3. PICK t \in Seq(Keys) :
         /\ t = Held!ToFront(s[j], s) /\ Len(t) = Len(s)
         /\ \A i \in 1..Len(s) : t[i] = IF i = 1 THEN s[j]
                                        ELSE IF i <= j THEN s[i - 1] ELSE s[i]
  BY <1>2, MovedToFront
<1>4. CASE j = 1
  <2>1. Updated(c, k) = c
    BY <1>1, <1>2, <1>4 DEF Updated, Kept, Ordered, At
  <2>2. \A i \in 1..Len(s) : t[i] = s[i]
    BY <1>2, <1>3, <1>4
  <2>3. t = s
    BY <1>2, <1>3, <2>2, SeqEqual
  <2> QED BY <1>1, <1>3, <2>1, <2>3
<1>5. CASE j # 1
  <2>1. Updated(c, s[j]) \in Lists /\ Ordered(Updated(c, s[j]), t)
    BY <1>2, <1>3, <1>5, UpdatedOrdered DEF Kept
  <2> QED BY <1>1, <1>3, <2>1 DEF Kept
<1> QED BY <1>4, <1>5

LEMMA SetItemHolds ==
    ASSUME CacheInv, NEW k \in Keys, SetItem(k)
    PROVE  CacheInv' /\ Held!Set(k)
<1>1. PICK s : Kept(Now, s) /\ Recent = s
  BY RecentIs DEF CacheInv
<1>2. PICK c \in Lists : c = Now /\ c.dict = dict /\ Kept(c, s)
  BY <1>1 DEF Kept, Now
<1>3. PICK t : t = Held!Bounded(Held!ToFront(k, s))
  OBVIOUS
<1>4. found' = <<k, "set">>
  BY DEF SetItem
<1>5. CASE k \in dict
  <2>1. PICK u : u = Held!ToFront(k, s) /\ Kept(Updated(c, k), u)
    BY <1>2, <1>5, UpdatedKept
  <2>2. Updated(c, k) \in Lists /\ Ordered(Updated(c, k), u) /\ Len(u) <= Capacity + 1
    BY <2>1, OrderedFacts, CacheAssumption DEF Kept
  <2>3. Kept(ManageSize(Updated(c, k)), t)
    BY <1>3, <2>1, <2>2, ManageSizeOrdered DEF Kept
  <2>4. Becomes(ManageSize(Updated(c, k)))
    BY <1>2, <1>5 DEF SetItem
  <2> QED BY <1>1, <1>3, <1>4, <2>3, <2>4, CacheBecomes DEF Held!Set, Recent
<1>6. CASE k \notin dict
  <2>1. Kept(Inserted(WithKey(c, k), k), t)
    BY <1>2, <1>3, <1>6, InsertedOrdered DEF Kept
  <2>2. Becomes(Inserted(WithKey(c, k), k))
    BY <1>2, <1>6 DEF SetItem, WithKey
  <2> QED BY <1>1, <1>3, <1>4, <2>1, <2>2, CacheBecomes DEF Held!Set, Recent
<1> QED BY <1>5, <1>6

LEMMA GetItemHolds ==
    ASSUME CacheInv, NEW k \in Keys, GetItem(k)
    PROVE  CacheInv' /\ Held!Get(k)
<1>1. PICK s : Kept(Now, s) /\ Recent = s
  BY RecentIs DEF CacheInv
<1>2. PICK c \in Lists : c = Now /\ c.dict = dict /\ Kept(c, s)
  BY <1>1 DEF Kept, Now
<1>3. dict = Held!ToSet(s)
  <2>1. DOMAIN s = 1..Len(s)
    BY <1>2, OrderedFacts, LenProperties DEF Kept
  <2> QED BY <1>2, <2>1 DEF Kept, Ordered, Held!ToSet
<1>4. CASE k \in dict
  <2>1. PICK t : t = Held!ToFront(k, s) /\ Kept(Updated(c, k), t)
    BY <1>2, <1>4, UpdatedKept
  <2>2. Becomes(Updated(c, k)) /\ found' = <<k, "yes">>
    BY <1>2, <1>4 DEF GetItem, Used
  <2>3. CacheInv' /\ Recent' = t
    BY <2>1, <2>2, CacheBecomes
  <2> QED BY <1>1, <1>3, <1>4, <2>1, <2>2, <2>3 DEF Held!Get, Recent
<1>5. CASE k \notin dict
  <2>1. dict' = dict /\ links' = links /\ head' = head /\ tail' = tail
        /\ found' = <<k, "no">>
    BY <1>5 DEF GetItem
  <2>2. Now' = Now
    BY <2>1 DEF Now
  <2>3. CacheInv' /\ Recent' = s
    BY <1>1, <2>2, RecentWillBe DEF CacheInv
  <2> QED BY <1>1, <1>3, <1>5, <2>1, <2>3 DEF Held!Get, Recent
<1> QED BY <1>4, <1>5

LEMMA CacheStepHolds ==
    CacheInv /\ [CacheNext]_cacheVars =>
        CacheInv' /\ [Held!Next]_<<Recent, found>>
<1>1. ASSUME CacheInv, UNCHANGED cacheVars
      PROVE  CacheInv' /\ UNCHANGED <<Recent, found>>
  <2>1. PICK s : Kept(Now, s) /\ Recent = s
    BY <1>1, RecentIs DEF CacheInv
  <2>2. Now' = Now /\ found' = found
    BY <1>1 DEF cacheVars, Now
  <2> QED BY <2>1, <2>2, RecentWillBe DEF CacheInv
<1> QED BY <1>1, SetItemHolds, GetItemHolds DEF CacheNext, Held!Next

LEMMA CacheInvAgrees == CacheInv => LinksAgree /\ CacheTypeOK
<1> SUFFICES ASSUME NEW s, Kept(Now, s) PROVE LinksAgree /\ CacheTypeOK
  BY DEF CacheInv
<1>1. PICK c \in Lists :
         /\ Ordered(c, s) /\ Len(s) <= Capacity
         /\ c.dict = dict /\ c.links = links /\ c.head = head /\ c.tail = tail
  BY DEF Kept, Now
<1>2. PICK n \in Nat : /\ n = Len(s) /\ n = Cardinality(dict) /\ Distinct(s)
                       /\ \A i \in 1..n : s[i] \in Keys
                       /\ Nil \notin Keys
  BY <1>1, OrderedFacts, OrderedSize
<1>3. /\ dict = {s[i] : i \in 1..n} /\ head = At(s, 1) /\ tail = At(s, n)
      /\ \A i \in 1..n : /\ links[s[i]].previous = At(s, i - 1)
                         /\ links[s[i]].next = At(s, i + 1)
  BY <1>1, <1>2 DEF Ordered
<1>4. (n = 0 <=> dict = {}) /\ (n = 0 <=> head = Nil) /\ (n = 0 <=> tail = Nil)
  <2>1. CASE n = 0
    <3>1. 1..n = {} /\ 1 \notin 1..Len(s) /\ n \notin 1..Len(s)
      BY <1>2, <2>1
    <3>2. At(s, 1) = Nil /\ At(s, n) = Nil
      BY <3>1 DEF At
    <3> QED BY <1>3, <2>1, <3>1, <3>2
  <2>2. CASE n # 0
    <3>1. 1 \in 1..n /\ n \in 1..n
      BY <2>2
    <3>2. At(s, 1) = s[1] /\ At(s, n) = s[n]
      BY <1>2, <3>1 DEF At
    <3>3. s[1] \in dict /\ s[1] # Nil /\ s[n] # Nil
      BY <1>2, <1>3, <3>1
    <3> QED BY <1>3, <2>2, <3>2, <3>3
  <2> QED BY <2>1, <2>2
<1>5. ASSUME NEW i \in 1..n
      PROVE  /\ links[s[i]].next = Nil <=> s[i] = tail
             /\ links[s[i]].previous = Nil <=> s[i] = head
             /\ s[i] # tail => /\ links[s[i]].next \in dict
                               /\ links[links[s[i]].next].previous = s[i]
  <2>1. tail = s[n] /\ head = s[1] /\ n \in 1..n /\ 1 \in 1..n
    <3>1. n \in 1..n /\ 1 \in 1..n
      OBVIOUS
    <3> QED BY <1>2, <1>3, <3>1 DEF At
  <2>2. (s[i] = tail <=> i = n) /\ (s[i] = head <=> i = 1)
    BY <1>2, <2>1 DEF Distinct
  <2>3. links[s[i]].next = Nil <=> i = n
    BY <1>2, <1>3 DEF At
  <2>4. links[s[i]].previous = Nil <=> i = 1
    BY <1>2, <1>3 DEF At
  <2>5. ASSUME i # n
        PROVE  links[s[i]].next \in dict /\ links[links[s[i]].next].previous = s[i]
    <3>1. PICK m \in 1..n : m = i + 1 /\ i = m - 1
      BY <2>5
    <3>2. links[s[i]].next = s[m] /\ links[s[m]].previous = s[i]
      BY <1>2, <1>3, <3>1 DEF At
    <3> QED BY <1>3, <3>2
  <2> QED BY <2>2, <2>3, <2>4, <2>5
<1>6. LinksAgree
  <2>1. ((head = Nil) = (dict = {})) /\ ((tail = Nil) = (dict = {}))
    BY <1>4
  <2>2. \A k \in dict : \E i \in 1..n : k = s[i]
    BY <1>3
  <2> QED BY <1>5, <2>1, <2>2 DEF LinksAgree
<1>7. CacheTypeOK
  <2>1. dict \subseteq Keys /\ Cardinality(dict) <= Capacity
    BY <1>1, <1>2, ListFields
  <2>2. head \in dict \cup {Nil} /\ tail \in dict \cup {Nil}
    <3>1. At(s, 1) \in dict \cup {Nil} /\ At(s, n) \in dict \cup {Nil}
      BY <1>2, <1>3 DEF At
    <3> QED BY <1>3, <3>1
  <2>3. links \in [Keys -> [previous : Keys \cup {Nil}, next : Keys \cup {Nil}]]
    BY <1>1, ListFields DEF Links, Ends
  <2> QED BY <2>1, <2>2, <2>3 DEF CacheTypeOK
<1> QED BY <1>6, <1>7

\* The cache holds the most recently used keys: every method does what LRU says, a
\* loop finds the keys in the order of their use, and the links agree (LRUCache).
THEOREM CacheIsLRU == CacheSpec => KeepsRecent
<1>1. CacheInit /\ [][CacheNext]_cacheVars =>
         /\ Held!Init /\ [][Held!Next]_<<Recent, found>>
         /\ []LinksAgree
  BY CacheInitHolds, CacheStepHolds, CacheInvAgrees, PTL
<1>2. Held!Spec <=> Held!Init /\ [][Held!Next]_<<Recent, found>>
  BY DEF Held!Spec, Recent
<1> QED BY <1>1, <1>2 DEF CacheSpec, KeepsRecent

\* The parts of the cache keep their types, and it never holds too many.
THEOREM CacheTyping == CacheSpec => []CacheTypeOK
  BY CacheInitHolds, CacheStepHolds, CacheInvAgrees, PTL DEF CacheSpec

-----------------------------------------------------------------------------
(* The snapshots.                                                          *)

\* The greatest time is the one the least time before the bound.
LEMMA GreatestTime ==
    ASSUME NEW n \in Nat, NEW S, S \subseteq 0..n, S # {}
    PROVE  Max(S) \in S /\ \A y \in S : Max(S) >= y
<1> DEFINE D == {n - x : x \in S}
<1>1. D \subseteq Nat /\ D # {}
  <2>1. \A x \in S : n - x \in Nat /\ n - x \in D
    OBVIOUS
  <2> QED BY <2>1
<1>2. PICK d \in D : \A e \in D : d <= e
  <2> HIDE DEF D
  <2> QED BY <1>1, LeastOf
<1>3. PICK x \in S : d = n - x
  BY <1>2
<1>4. \A y \in S : n - y \in D
  OBVIOUS
<1>5. \A y \in S : x >= y
  BY <1>2, <1>3, <1>4
<1> QED BY <1>3, <1>5 DEF Max

\* What % leaves of a time, and that a product is not less than its factors.
LEMMA DividedBy ==
    ASSUME NEW c \in Nat, NEW L \in Nat \ {0}
    PROVE  \E p \in Nat : /\ c - (c % L) = L * p
                          /\ c % L \in 0..L - 1
<1>1. c % L \in 0..L - 1
  OBVIOUS
<1>2. PICK p : p = c \div L
  OBVIOUS
<1>3. p \in Nat /\ c = L * p + (c % L)
  BY <1>2
<1>4. L * p \in Nat
  BY <1>3
<1>5. c - (c % L) = L * p
  BY <1>1, <1>3, <1>4
<1> QED BY <1>1, <1>3, <1>5

LEMMA ProductOf ==
    ASSUME NEW L \in Nat \ {0}, NEW i \in Nat \ {0}
    PROVE  L * i \in Nat /\ L * i >= L
  OBVIOUS

\* A time counted back later, but not after an earlier time, is counted back then.
LEMMA BackBefore ==
    ASSUME NEW c \in Nat, NEW d \in Nat, c <= d, NEW L \in Nat \ {0}, NEW n \in Nat,
           NEW t \in Back(d, L, n), t <= c
    PROVE  t \in Back(c, L, n)
<1>1. PICK k \in 0..n - 1 : t = Start(d, L) - k * L
  BY DEF Back
<1>2. PICK p \in Nat : Start(c, L) = L * p /\ L * p <= c /\ c < L * p + L
  <2>1. PICK p \in Nat : c - (c % L) = L * p /\ c % L \in 0..L - 1
    BY DividedBy
  <2>2. L * p \in Nat
    OBVIOUS
  <2>3. L * p <= c /\ c < L * p + L
    BY <2>1, <2>2
  <2> QED BY <2>1, <2>3 DEF Start
<1>3. PICK q \in Nat : Start(d, L) = L * q /\ L * q <= d /\ d < L * q + L
  <2>1. PICK q \in Nat : d - (d % L) = L * q /\ d % L \in 0..L - 1
    BY DividedBy
  <2>2. L * q \in Nat
    OBVIOUS
  <2>3. L * q <= d /\ d < L * q + L
    BY <2>1, <2>2
  <2> QED BY <2>1, <2>3 DEF Start
<1>4. p <= q
  <2> SUFFICES ASSUME p - q \in Nat \ {0} PROVE FALSE
    OBVIOUS
  <2>1. L * (p - q) >= L
    BY ProductOf
  <2>2. L * (p - q) = L * p - L * q
    OBVIOUS
  <2> QED BY <1>2, <1>3, <2>1, <2>2
<1> DEFINE j == k - (q - p)
<1>5. t = L * p - j * L
  BY <1>1, <1>3
<1>6. j >= 0
  <2> SUFFICES ASSUME 0 - j \in Nat \ {0} PROVE FALSE
    OBVIOUS
  <2>1. L * (0 - j) >= L
    BY ProductOf
  <2>2. L * (0 - j) = 0 - j * L
    OBVIOUS
  <2> QED BY <1>2, <1>5, <2>1, <2>2
<1>7. j \in 0..n - 1
  BY <1>4, <1>6
<1> HIDE DEF j
<1> QED BY <1>2, <1>5, <1>7 DEF Back

LEMMA LengthFacts ==
    /\ HourLength \in Nat \ {0} /\ DayLength \in Nat \ {0}
    /\ WeekLength \in Nat \ {0} /\ MonthLength \in Nat \ {0}
    /\ HourlyBackups \in Nat /\ DailyBackups \in Nat /\ WeeklyBackups \in Nat
    /\ MaxTime \in Nat /\ MaxTime >= 1
  BY LengthsAssumption, BackupsAssumption

\* Targets do not appear: one that is not after the time now was one before.
LEMMA NoNewTargets ==
    ASSUME NEW c \in Nat, NEW d \in Nat, c <= d,
           NEW t \in Targets(d), t <= c
    PROVE  t \in Targets(c)
<1>1. CASE t \in Back(d, HourLength, HourlyBackups)
  <2>1. t \in Back(c, HourLength, HourlyBackups)
    BY <1>1, BackBefore, LengthFacts
  <2> QED BY <2>1 DEF Targets
<1>2. CASE t \in Back(d, DayLength, DailyBackups)
  <2>1. t \in Back(c, DayLength, DailyBackups)
    BY <1>2, BackBefore, LengthFacts
  <2> QED BY <2>1 DEF Targets
<1>3. CASE t \in Back(d, WeekLength, WeeklyBackups)
  <2>1. t \in Back(c, WeekLength, WeeklyBackups)
    BY <1>3, BackBefore, LengthFacts
  <2> QED BY <2>1 DEF Targets
<1>4. CASE t \in Months(d)
  BY <1>4 DEF Targets, Months
<1> QED BY <1>1, <1>2, <1>3, <1>4 DEF Targets

\* A target is a time.
LEMMA TargetsTyped ==
    ASSUME NEW c \in Nat, NEW t \in Targets(c)
    PROVE  t \in Int
<1>1. ASSUME NEW L \in Nat \ {0}, NEW n \in Nat, t \in Back(c, L, n)
      PROVE  t \in Int
  <2>1. PICK k \in 0..n - 1 : t = Start(c, L) - k * L
    BY <1>1 DEF Back
  <2>2. c % L \in Nat /\ k * L \in Int
    OBVIOUS
  <2> QED BY <2>1, <2>2 DEF Start
<1>2. t \in Months(c) => t \in Int
  BY DEF Months
<1> QED BY <1>1, <1>2, LengthFacts DEF Targets

-----------------------------------------------------------------------------
\* A snapshot in whose place an earlier one is kept, and that is not the newest.
NoTargetBetween(y, x) == \A t \in Targets(clock) : ~(y < t /\ t <= x)
Superseded(x) == /\ \E y \in taken : y < x /\ NoTargetBetween(y, x)
                 /\ \E z \in taken : x < z

\* Only those are deleted, or about to be.
OnlySuperseded == /\ \A x \in taken \ snapshots : Superseded(x)
                  /\ \A s \in Machines : \A x \in doomed[s] : Superseded(x)

SnapshotInv == /\ SnapshotTypeOK
               /\ DOMAIN doomed = Machines
               /\ doomed = [s \in Machines |-> doomed[s]]
               /\ OnlySuperseded

LEMMA SnapshotFacts ==
    ASSUME SnapshotInv
    PROVE  /\ clock \in Nat /\ clock >= 1 /\ clock <= MaxTime
           /\ snapshots \subseteq taken /\ taken \subseteq Nat
           /\ taken \subseteq 0..clock /\ snapshots \subseteq 0..clock
           /\ \A x \in taken : 1 <= x /\ x <= clock
           /\ \A s \in Machines : doomed[s] \subseteq taken \ Preserved
  BY LengthFacts DEF SnapshotInv, SnapshotTypeOK

\* A snapshot stays superseded: as time passes no target appears before it.
LEMMA StaysSuperseded ==
    ASSUME SnapshotInv, taken \subseteq taken', clock' \in Nat, clock <= clock',
           NEW x \in taken, Superseded(x)
    PROVE  Superseded(x)'
<1>1. PICK y \in taken : y < x /\ NoTargetBetween(y, x)
  BY DEF Superseded
<1>2. PICK z \in taken : x < z
  BY DEF Superseded
<1>3. NoTargetBetween(y, x)'
  <2> SUFFICES ASSUME NEW t \in Targets(clock'), y < t, t <= x PROVE FALSE
    BY DEF NoTargetBetween
  <2>1. t \in Int /\ x \in Int /\ x <= clock
    BY TargetsTyped, SnapshotFacts
  <2>2. t \in Targets(clock)
    BY <2>1, NoNewTargets, SnapshotFacts
  <2> QED BY <1>1, <2>2 DEF NoTargetBetween
<1>4. /\ \E u \in taken' : u < x /\ NoTargetBetween(u, x)'
      /\ \E v \in taken' : x < v
  BY <1>1, <1>2, <1>3
<1> QED BY <1>4 DEF Superseded

LEMMA SnapshotInitHolds == SnapshotInit => SnapshotInv
  BY LengthFacts DEF SnapshotInit, SnapshotInv, SnapshotTypeOK, OnlySuperseded

LEMMA TakeSnapshotKeeps == SnapshotInv /\ TakeSnapshot => SnapshotInv'
<1> SUFFICES ASSUME SnapshotInv, TakeSnapshot PROVE SnapshotInv'
  OBVIOUS
<1>1. /\ taken' = taken \cup {clock} /\ snapshots' = snapshots \cup {clock}
      /\ clock' = clock /\ doomed' = doomed
  BY DEF TakeSnapshot
<1>2. SnapshotTypeOK'
  BY <1>1, SnapshotFacts DEF SnapshotInv, SnapshotTypeOK
<1>3. \A x \in taken : Superseded(x) => Superseded(x)'
  BY <1>1, StaysSuperseded, SnapshotFacts
<1>4. OnlySuperseded'
  BY <1>1, <1>3, SnapshotFacts DEF SnapshotInv, OnlySuperseded
<1> QED BY <1>1, <1>2, <1>4 DEF SnapshotInv

LEMMA TimePassesKeeps == SnapshotInv /\ TimePasses => SnapshotInv'
<1> SUFFICES ASSUME SnapshotInv, TimePasses PROVE SnapshotInv'
  OBVIOUS
<1>1. /\ taken' = taken /\ snapshots' = snapshots /\ doomed' = doomed
      /\ clock' = clock + 1 /\ clock < MaxTime
  BY DEF TimePasses
<1>2. SnapshotTypeOK'
  BY <1>1, SnapshotFacts, LengthFacts DEF SnapshotInv, SnapshotTypeOK
<1>3. \A x \in taken : Superseded(x) => Superseded(x)'
  BY <1>1, StaysSuperseded, SnapshotFacts
<1>4. OnlySuperseded'
  BY <1>1, <1>3, SnapshotFacts DEF SnapshotInv, OnlySuperseded
<1> QED BY <1>1, <1>2, <1>4 DEF SnapshotInv

\* What the loop deletes is in the period of an earlier one, and not the newest.
LEMMA ExcessSuperseded ==
    ASSUME SnapshotInv, snapshots # {}, NEW x \in Excess(clock, snapshots)
    PROVE  x \in snapshots \ Preserved /\ Superseded(x)
<1>1. /\ x \in snapshots /\ x # Max(snapshots) /\ x \notin Preserved
      /\ NotFirst(Targets(clock), x, snapshots)
  BY DEF Excess, Newest, Unspared
<1>2. PICK y \in snapshots : y < x /\ SamePeriod(Targets(clock), y, x)
  BY <1>1 DEF NotFirst
<1>3. NoTargetBetween(y, x)
  <2> SUFFICES ASSUME NEW t \in Targets(clock), y < t, t <= x PROVE FALSE
    BY DEF NoTargetBetween
  <2>1. x < t
    BY <1>2 DEF SamePeriod
  <2> QED BY <1>1, <2>1, TargetsTyped, SnapshotFacts
<1>4. Max(snapshots) \in snapshots /\ Max(snapshots) >= x
  BY <1>1, GreatestTime, SnapshotFacts
<1>5. x < Max(snapshots)
  BY <1>1, <1>4, SnapshotFacts
<1> QED BY <1>1, <1>2, <1>3, <1>4, <1>5, SnapshotFacts DEF Superseded

LEMMA TrimKeeps ==
    ASSUME SnapshotInv, NEW s \in Machines, Trim(s) PROVE SnapshotInv'
<1>1. /\ clock' = clock /\ taken' = taken /\ snapshots' = snapshots
      /\ doomed' = [doomed EXCEPT ![s] = Excess(clock, snapshots)]
      /\ snapshots # {}
  BY DEF Trim
<1>2. /\ doomed'[s] = Excess(clock, snapshots) /\ DOMAIN doomed' = Machines
      /\ doomed' = [r \in Machines |-> doomed'[r]]
      /\ \A r \in Machines \ {s} : doomed'[r] = doomed[r]
  BY <1>1 DEF SnapshotInv
<1>3. \A x \in doomed'[s] : x \in snapshots \ Preserved /\ Superseded(x)
  BY <1>1, <1>2, ExcessSuperseded
<1>4. SnapshotTypeOK'
  BY <1>1, <1>2, <1>3, SnapshotFacts DEF SnapshotInv, SnapshotTypeOK
<1>5. \A x \in taken : Superseded(x) => Superseded(x)'
  BY <1>1, StaysSuperseded, SnapshotFacts
<1>6. OnlySuperseded'
  BY <1>1, <1>2, <1>3, <1>5, SnapshotFacts DEF SnapshotInv, OnlySuperseded
<1> QED BY <1>2, <1>4, <1>6 DEF SnapshotInv

LEMMA DeleteSnapshotKeeps ==
    ASSUME SnapshotInv, NEW s \in Machines, DeleteSnapshot(s) PROVE SnapshotInv'
<1>1. /\ clock' = clock /\ taken' = taken
      /\ snapshots' \in {snapshots, snapshots \ {Min(doomed[s])}}
      /\ doomed' = [doomed EXCEPT ![s] = doomed[s] \ {Min(doomed[s])}]
      /\ doomed[s] # {}
  BY DEF DeleteSnapshot
<1>2. /\ doomed'[s] \subseteq doomed[s] /\ DOMAIN doomed' = Machines
      /\ doomed' = [r \in Machines |-> doomed'[r]]
      /\ \A r \in Machines \ {s} : doomed'[r] = doomed[r]
  BY <1>1 DEF SnapshotInv
<1>3. Min(doomed[s]) \in doomed[s]
  BY <1>1, LeastOf, SnapshotFacts
<1>4. SnapshotTypeOK'
  BY <1>1, <1>2, SnapshotFacts DEF SnapshotInv, SnapshotTypeOK
<1>5. \A x \in taken : Superseded(x) => Superseded(x)'
  BY <1>1, StaysSuperseded, SnapshotFacts
<1>6. OnlySuperseded'
  <2>1. \A x \in taken \ snapshots' : Superseded(x)
    BY <1>1, <1>3 DEF SnapshotInv, OnlySuperseded
  <2>2. \A r \in Machines : \A x \in doomed'[r] : x \in taken /\ Superseded(x)
    BY <1>2, SnapshotFacts DEF SnapshotInv, OnlySuperseded
  <2> QED BY <1>1, <1>5, <2>1, <2>2 DEF OnlySuperseded
<1> QED BY <1>2, <1>4, <1>6 DEF SnapshotInv

LEMMA ServerDiesKeeps ==
    ASSUME SnapshotInv, NEW s \in Machines, ServerDies(s) PROVE SnapshotInv'
<1>1. /\ clock' = clock /\ taken' = taken /\ snapshots' = snapshots
      /\ doomed' = [doomed EXCEPT ![s] = {}]
  BY DEF ServerDies
<1>2. /\ doomed'[s] = {} /\ DOMAIN doomed' = Machines
      /\ doomed' = [r \in Machines |-> doomed'[r]]
      /\ \A r \in Machines \ {s} : doomed'[r] = doomed[r]
  BY <1>1 DEF SnapshotInv
<1>3. SnapshotTypeOK'
  BY <1>1, <1>2, SnapshotFacts DEF SnapshotInv, SnapshotTypeOK
<1>4. \A x \in taken : Superseded(x) => Superseded(x)'
  BY <1>1, StaysSuperseded, SnapshotFacts
<1>5. OnlySuperseded'
  BY <1>1, <1>2, <1>4, SnapshotFacts DEF SnapshotInv, OnlySuperseded
<1> QED BY <1>2, <1>3, <1>5 DEF SnapshotInv

LEMMA SnapshotStepHolds ==
    SnapshotInv /\ [SnapshotNext]_snapshotVars => SnapshotInv'
<1>1. SnapshotInv /\ UNCHANGED snapshotVars => SnapshotInv'
  BY DEF snapshotVars, SnapshotInv, SnapshotTypeOK, OnlySuperseded, Superseded,
         NoTargetBetween
<1> QED BY <1>1, TakeSnapshotKeeps, TimePassesKeeps, TrimKeeps, DeleteSnapshotKeeps,
           ServerDiesKeeps DEF SnapshotNext

\* The first snapshot after a target, the oldest and the newest are not superseded.
LEMMA FirstsAreKept == SnapshotInv => FirstsKept
<1> SUFFICES ASSUME SnapshotInv PROVE FirstsKept
  OBVIOUS
<1>1. \A x \in taken : ~Superseded(x) => x \in snapshots
  BY DEF SnapshotInv, OnlySuperseded
<1>2. ASSUME NEW t \in Targets(clock), {snap \in taken : snap >= t} # {}
      PROVE  Min({snap \in taken : snap >= t}) \in snapshots
  <2>1. PICK after : after = {snap \in taken : snap >= t}
    OBVIOUS
  <2>2. after \subseteq Nat /\ after # {}
    BY <1>2, <2>1, SnapshotFacts
  <2>3. PICK first \in after : first = Min(after) /\ \A y \in after : first <= y
    BY <2>2, LeastOf
  <2>4. first \in taken /\ first >= t /\ first \in Nat /\ t \in Int
    BY <2>1, <2>2, TargetsTyped, SnapshotFacts
  <2>5. ~Superseded(first)
    <3> SUFFICES ASSUME NEW y \in taken, y < first, NoTargetBetween(y, first)
                 PROVE  FALSE
      BY DEF Superseded
    <3>1. y \in Nat
      BY SnapshotFacts
    <3>2. ~(y < t)
      BY <2>4 DEF NoTargetBetween
    <3>3. y \in after
      BY <2>1, <2>4, <3>1, <3>2
    <3> QED BY <2>3, <2>4, <3>1, <3>3
  <2> QED BY <1>1, <2>1, <2>3, <2>4, <2>5
<1>3. ASSUME taken # {} PROVE Min(taken) \in snapshots
  <2>1. PICK first \in taken : first = Min(taken) /\ \A y \in taken : first <= y
    BY <1>3, LeastOf, SnapshotFacts
  <2>2. ~Superseded(first)
    BY <2>1, SnapshotFacts DEF Superseded
  <2> QED BY <1>1, <2>1, <2>2
<1>4. ASSUME taken # {} PROVE Max(taken) \in snapshots
  <2>1. PICK last \in taken : last = Max(taken) /\ \A y \in taken : last >= y
    BY <1>4, GreatestTime, SnapshotFacts
  <2>2. ~Superseded(last)
    BY <2>1, SnapshotFacts DEF Superseded
  <2> QED BY <1>1, <2>1, <2>2
<1> QED BY <1>2, <1>3, <1>4 DEF FirstsKept

\* Of two in a period that ends, the later one is deleted.
LEMMA LaterIsExcess ==
    ASSUME SnapshotInv, NEW a \in snapshots, NEW b \in snapshots, a < b,
           SamePeriod(Targets(clock), a, b),
           \E t \in Targets(clock) : b < t,
           b \notin Preserved, b # Max(snapshots)
    PROVE  b \in Excess(clock, snapshots)
<1>1. NotFirst(Targets(clock), b, snapshots)
  BY DEF NotFirst
<1> QED BY <1>1 DEF Excess, Newest, Unspared

LEMMA OneIsLeft == SnapshotInv => OneEach
<1> SUFFICES ASSUME SnapshotInv, snapshots # {},
                    NEW a \in snapshots \ (Excess(clock, snapshots) \cup Preserved
                                                  \cup {Newest(snapshots)}),
                    NEW b \in snapshots \ (Excess(clock, snapshots) \cup Preserved
                                                  \cup {Newest(snapshots)}),
                    a # b, SamePeriod(Targets(clock), a, b),
                    NEW t \in Targets(clock), ~(t <= a)
             PROVE  FALSE
  BY DEF OneEach
<1>1. /\ a # Max(snapshots) /\ b # Max(snapshots)
      /\ a \in snapshots \ Preserved /\ b \in snapshots \ Preserved
  BY DEF Newest
<1>2. a \notin Excess(clock, snapshots) /\ b \notin Excess(clock, snapshots)
  OBVIOUS
<1>3. a \in Int /\ b \in Int /\ t \in Int
  BY <1>1, TargetsTyped, SnapshotFacts
<1>4. a < t /\ b < t
  BY <1>3 DEF SamePeriod
<1>5. SamePeriod(Targets(clock), b, a)
  BY DEF SamePeriod
<1>6. CASE a < b
  BY <1>1, <1>2, <1>4, <1>6, LaterIsExcess
<1>7. CASE b < a
  BY <1>1, <1>2, <1>4, <1>5, <1>7, LaterIsExcess
<1> QED BY <1>3, <1>6, <1>7

\* Trimming keeps the first of every period, the oldest and the newest, and would
\* leave no two in a period that ends (trim_snapshots).
THEOREM TrimmingIsRight == SnapshotSpec => []TrimsRight
<1>1. SnapshotInv => TrimsRight
  BY FirstsAreKept, OneIsLeft DEF TrimsRight
<1> QED BY <1>1, SnapshotInitHolds, SnapshotStepHolds, PTL DEF SnapshotSpec

\* Time and the sets of snapshots keep their types.
THEOREM SnapshotTyping == SnapshotSpec => []SnapshotTypeOK
<1>1. SnapshotInv => SnapshotTypeOK
  BY DEF SnapshotInv
<1> QED BY <1>1, SnapshotInitHolds, SnapshotStepHolds, PTL DEF SnapshotSpec

-----------------------------------------------------------------------------
(* The batch of writes.                                                    *)

USE BatchAssumption

BatchTyped ==
    /\ block \in {"inside", "called", "exit", "left"}
    /\ called \in 0..MaxCalls
    /\ pending \in Seq(1..called)
    /\ written \subseteq 1..called
    /\ mishaps \subseteq {"unprocessed", "failed", "refused"}

\* Until a request fails, the batch stays within its size.
StaysSmall ==
    "failed" \notin mishaps =>
        /\ "refused" \notin mishaps
        /\ Len(pending) <= BatchSize
        /\ block = "inside" => Len(pending) < BatchSize

\* Every write waits or has been written.
AllAccounted ==
    mishaps = {} => /\ written \cup ToSet(pending) = 1..called
                    /\ written \cap ToSet(pending) = {}
                    /\ block = "left" => pending = <<>>

BatchInv == BatchTyped /\ StaysSmall /\ AllAccounted

LEMMA BatchInitHolds == BatchInit => BatchInv
<1> SUFFICES ASSUME BatchInit PROVE BatchInv
  OBVIOUS
<1>1. pending = <<>> /\ Len(pending) = 0 /\ ToSet(pending) = {}
  BY EmptySeq, EmptyElements DEF BatchInit
<1>2. 1..0 = {}
  OBVIOUS
<1> QED BY <1>1, <1>2, EmptySeq
        DEF BatchInit, BatchInv, BatchTyped, StaysSmall, AllAccounted

LEMMA CallWriteKeeps == BatchInv /\ CallWrite => BatchInv'
<1> SUFFICES ASSUME BatchInv, CallWrite PROVE BatchInv'
  OBVIOUS
<1>1. PICK n \in 1..MaxCalls : n = called + 1 /\ called \in Nat
  BY DEF BatchInv, BatchTyped, CallWrite
<1>2. pending \in Seq(1..n)
  <2>1. \A i \in 1..Len(pending) : pending[i] \in 1..n
    <3>1. \A i \in 1..Len(pending) : pending[i] \in 1..called
      BY ElementOfSeq DEF BatchInv, BatchTyped
    <3> QED BY <1>1, <3>1
  <2>2. pending = [i \in 1..Len(pending) |-> pending[i]] /\ Len(pending) \in Nat
    BY LenProperties DEF BatchInv, BatchTyped
  <2> QED BY <2>1, <2>2, IsASeq
<1>3. /\ pending' \in Seq(1..n) /\ Len(pending') = Len(pending) + 1
      /\ ToSet(pending') = ToSet(pending) \cup {n} /\ Len(pending) \in Nat
  BY <1>1, <1>2, AppendElements, LenProperties DEF CallWrite
<1>4. 1..n = 1..called \cup {n} /\ n \notin 1..called
  BY <1>1
<1>5. BatchTyped'
  BY <1>1, <1>3, <1>4 DEF CallWrite, BatchInv, BatchTyped
<1>6. StaysSmall'
  BY <1>3 DEF CallWrite, BatchInv, StaysSmall
<1>7. AllAccounted'
  BY <1>1, <1>3, <1>4 DEF CallWrite, BatchInv, BatchTyped, AllAccounted
<1> QED BY <1>5, <1>6, <1>7 DEF BatchInv

\* A request that was answered, or failed, leaves all as it should be.
LEMMA FlushedKeeps ==
    ASSUME BatchInv, NEW next \in {"inside", "left"}, Flushed(next)
    PROVE  BatchInv'
<1>1. ToSet(pending) \subseteq 1..called
  BY ElementsOf DEF BatchInv, BatchTyped
<1>2. pending' = <<>> /\ Len(pending') = 0 /\ ToSet(pending') = {}
  BY EmptySeq, EmptyElements DEF Flushed, NonePending
<1>3. PICK done \in SUBSET ToSet(pending) :
         /\ written' = written \cup done
         /\ mishaps' = IF done = ToSet(pending) THEN mishaps
                       ELSE mishaps \cup {"unprocessed"}
  BY DEF Flushed
<1>4. block' = next /\ called' = called
  BY DEF Flushed
<1>5. BatchTyped'
  BY <1>1, <1>2, <1>3, <1>4, EmptySeq DEF BatchInv, BatchTyped
<1>6. StaysSmall'
  BY <1>2, <1>3 DEF BatchInv, StaysSmall
<1>7. AllAccounted'
  BY <1>1, <1>2, <1>3, <1>4 DEF BatchInv, AllAccounted
<1> QED BY <1>5, <1>6, <1>7 DEF BatchInv

LEMMA FlushFailsKeeps ==
    ASSUME BatchInv, NEW next \in {"inside", "exit", "left"}, FlushFails(next)
    PROVE  BatchInv'
<1>1. ToSet(pending) \subseteq 1..called
  BY ElementsOf DEF BatchInv, BatchTyped
<1>2. BatchTyped'
  BY <1>1 DEF FlushFails, BatchInv, BatchTyped
<1>3. "failed" \in mishaps' /\ mishaps' # {}
  <2>1. CASE Len(pending) > BatchSize
    <3>1. Len(pending) \in Nat
      BY LenProperties DEF BatchInv, BatchTyped
    <3> QED BY <2>1, <3>1 DEF FlushFails, BatchInv, StaysSmall
  <2>2. CASE ~(Len(pending) > BatchSize)
    BY <2>2 DEF FlushFails
  <2> QED BY <2>1, <2>2
<1> QED BY <1>2, <1>3 DEF BatchInv, StaysSmall, AllAccounted

LEMMA BatchStepHolds == BatchInv /\ [BatchNext]_batchVars => BatchInv'
<1> SUFFICES ASSUME BatchInv, [BatchNext]_batchVars PROVE BatchInv'
  OBVIOUS
<1>1. CASE NoFlush
  <2>1. Len(pending) \in Nat
    BY LenProperties DEF BatchInv, BatchTyped
  <2> QED BY <1>1, <2>1
          DEF NoFlush, ShouldFlush, BatchInv, BatchTyped, StaysSmall, AllAccounted
<1>2. CASE LeaveBlock
  BY <1>2 DEF LeaveBlock, BatchInv, BatchTyped, StaysSmall, AllAccounted
<1>3. CASE FlushInside
  BY <1>3, FlushedKeeps, FlushFailsKeeps DEF FlushInside
<1>4. CASE ExitBlock
  <2>1. CASE pending = <<>>
    BY <1>4, <2>1 DEF ExitBlock, BatchInv, BatchTyped, StaysSmall, AllAccounted
  <2>2. CASE pending # <<>>
    BY <1>4, <2>2, FlushedKeeps, FlushFailsKeeps DEF ExitBlock
  <2> QED BY <2>1, <2>2
<1>5. CASE UNCHANGED batchVars
  BY <1>5 DEF batchVars, BatchInv, BatchTyped, StaysSmall, AllAccounted
<1> QED BY <1>1, <1>2, <1>3, <1>4, <1>5, CallWriteKeeps DEF BatchNext

\* A with block has written all that was put into it, unless something went wrong
\* with a request (BatchTable, dynamodb2/table.py).
THEOREM AllWritten == BatchSpec => []BlockWritesAll
<1>1. BatchInv => BlockWritesAll
  <2> SUFFICES ASSUME BatchInv PROVE BlockWritesAll
    OBVIOUS
  <2>1. \A i \in DOMAIN pending : pending[i] \in ToSet(pending)
    BY DEF ToSet
  <2> QED BY <2>1, EmptyElements
          DEF BatchInv, StaysSmall, AllAccounted, BlockWritesAll
<1> QED BY <1>1, BatchInitHolds, BatchStepHolds, PTL DEF BatchSpec

-----------------------------------------------------------------------------
(* The batch of reads.                                                     *)

USE GetAssumption

Items == [pc : {"fetch", "give", "last", "raised", "ended", "done"},
          page : SUBSET (rows \cap 1..total)]

GetTyped ==
    /\ rows \subseteq 1..MaxKeys /\ total \in 0..MaxKeys
    /\ keysLeft \in Seq(1..total) /\ IsInjective(keysLeft)
    /\ items \in Items
    /\ got \in Seq(rows \cap 1..total) /\ IsInjective(got)
    /\ dropped \subseteq 1..total /\ failed \subseteq 1..total

GivenUp == dropped \cup failed

\* A key of an item is with the caller, on the page, left or given up, one of these.
KeysAccounted ==
    /\ items.page \cap ToSet(keysLeft) = {}
    /\ ToSet(got) \cap items.page = {} /\ ToSet(got) \cap ToSet(keysLeft) = {}
    /\ GivenUp \cap (ToSet(got) \cup items.page \cup ToSet(keysLeft)) = {}
    /\ rows \cap 1..total
          \subseteq ToSet(got) \cup items.page \cup ToSet(keysLeft) \cup GivenUp
    /\ items.pc \in {"last", "done"} => keysLeft = <<>>
    /\ items.pc \notin {"give", "last"} => items.page = {}

GetInv == GetTyped /\ KeysAccounted

LEMMA GetInitHolds == GetInit => GetInv
<1> SUFFICES ASSUME GetInit PROVE GetInv
  OBVIOUS
<1>1. PICK n \in Nat : n = total
  BY DEF GetInit
<1>2. PICK f \in [1..n -> 1..n] : f = [i \in 1..n |-> i]
  OBVIOUS
<1>3. f \in Seq(1..n) /\ Len(f) = n
  BY IsASeq, <1>2
<1>4. keysLeft = f
  BY <1>1, <1>2 DEF GetInit
<1>5. ToSet(keysLeft) = 1..total /\ IsInjective(keysLeft)
  BY <1>1, <1>2, <1>4 DEF ToSet, IsInjective
<1>6. ToSet(got) = {} /\ got \in Seq(rows \cap 1..total) /\ IsInjective(got)
  BY EmptySeq, EmptyElements DEF GetInit, IsInjective
<1> QED BY <1>1, <1>3, <1>4, <1>5, <1>6
        DEF GetInit, GetInv, GetTyped, KeysAccounted, GivenUp, Items

\* The keys named in some order.
LEMMA SomeOrder ==
    ASSUME NEW S, IsFiniteSet(S), NEW s \in SetToAllKPermutations(S)
    PROVE  s \in Seq(S) /\ IsInjective(s)
<1>1. PICK T \in SUBSET S : s \in SetToSeqs(T)
  BY DEF SetToAllKPermutations
<1>2. PICK n \in Nat : n = Cardinality(T)
  BY <1>1, FS_Subset, FS_CardinalityType
<1>3. s \in [1..n -> T] /\ \A i, j \in 1..n : i # j => s[i] # s[j]
  BY <1>1, <1>2 DEF SetToSeqs
<1>4. s \in [1..n -> S]
  BY <1>1, <1>3
<1>5. s \in Seq(S)
  BY <1>4, SeqDef
<1> QED BY <1>3, <1>5 DEF IsInjective

\* The keys asked for and those that are left.
LEMMA TakenOffFacts ==
    ASSUME NEW S, keysLeft \in Seq(S), IsInjective(keysLeft), NEW n \in 0..Len(keysLeft)
    PROVE  LET asked == {keysLeft[i] : i \in 1..n} IN
           /\ TakenOff(n) \in Seq(S) /\ IsInjective(TakenOff(n))
           /\ ToSet(TakenOff(n)) \cup asked = ToSet(keysLeft)
           /\ ToSet(TakenOff(n)) \cap asked = {}
           /\ asked \subseteq S /\ IsFiniteSet(asked)
<1> DEFINE asked == {keysLeft[i] : i \in 1..n}
<1>1. PICK k \in Nat, m \in Nat : k = Len(keysLeft) /\ m = k - n /\ n \in Nat
  BY LenProperties
<1>2. DOMAIN keysLeft = 1..k /\ \A i \in 1..k : keysLeft[i] \in S
  BY <1>1, LenProperties, ElementOfSeq
<1>3. PICK t \in Seq(S) : /\ t = TakenOff(n) /\ Len(t) = m /\ DOMAIN t = 1..m
                          /\ \A i \in 1..m : t[i] = keysLeft[n + i]
  <2>1. TakenOff(n) = SubSeq(keysLeft, n + 1, k)
    BY <1>1 DEF TakenOff
  <2>2. PICK t \in [1..m -> S] : t = [i \in 1..m |-> keysLeft[n + i]]
    <3>1. \A i \in 1..m : n + i \in 1..k
      BY <1>1
    <3> QED BY <1>2, <3>1
  <2>3. t \in Seq(S) /\ Len(t) = m
    <3>1. t \in Seq(S) /\ DOMAIN t = 1..m
      BY <1>1, <2>2, SeqDef
    <3>2. Len(t) \in Nat /\ DOMAIN t = 1..Len(t)
      BY <3>1, LenProperties
    <3> QED BY <1>1, <3>1, <3>2
  <2>4. t = SubSeq(keysLeft, n + 1, k)
    BY <1>1, <2>2, <2>3
  <2> QED BY <2>1, <2>2, <2>3, <2>4
<1>4. ToSet(t) = {keysLeft[n + i] : i \in 1..m}
  BY <1>3 DEF ToSet
<1>5. ToSet(t) \cup asked = ToSet(keysLeft)
  <2>1. \A i \in 1..k : i \in 1..n \/ (i - n \in 1..m /\ n + (i - n) = i)
    BY <1>1
  <2>2. \A i \in 1..m : n + i \in 1..k
    BY <1>1
  <2>3. \A i \in 1..n : i \in 1..k
    BY <1>1
  <2>4. ToSet(keysLeft) = {keysLeft[i] : i \in 1..k}
    BY <1>2 DEF ToSet
  <2>5. ASSUME NEW i \in 1..k PROVE keysLeft[i] \in ToSet(t) \cup asked
    BY <1>4, <2>1
  <2> QED BY <1>4, <2>2, <2>3, <2>4, <2>5
<1>6. ToSet(t) \cap asked = {}
  <2>1. \A i \in 1..m, j \in 1..n : n + i # j /\ n + i \in 1..k /\ j \in 1..k
    BY <1>1
  <2>2. \A i \in 1..m, j \in 1..n : keysLeft[n + i] # keysLeft[j]
    BY <1>2, <2>1 DEF IsInjective
  <2> QED BY <1>4, <2>2
<1>7. IsInjective(t)
  <2>1. \A i, j \in 1..m : n + i \in 1..k /\ n + j \in 1..k /\ (n + i = n + j => i = j)
    BY <1>1
  <2>2. \A i, j \in 1..m : keysLeft[n + i] = keysLeft[n + j] => n + i = n + j
    BY <1>2, <2>1 DEF IsInjective
  <2>3. \A i, j \in 1..m : t[i] = t[j] => i = j
    <3> SUFFICES ASSUME NEW i \in 1..m, NEW j \in 1..m, t[i] = t[j] PROVE i = j
      OBVIOUS
    <3>1. keysLeft[n + i] = keysLeft[n + j]
      BY <1>3
    <3>2. n + i = n + j
      BY <2>2, <3>1
    <3> QED BY <1>1, <3>2
  <2> QED BY <1>3, <2>3 DEF IsInjective
<1>8. asked \subseteq S /\ IsFiniteSet(asked)
  <2>1. \A i \in 1..n : i \in 1..k
    BY <1>1
  <2>2. IsFiniteSet(1..n)
    BY <1>1, FS_Interval
  <2>3. [i \in 1..n |-> keysLeft[i]] \in Surjection(1..n, asked)
    BY DEF Surjection
  <2>4. IsFiniteSet(asked)
    BY <2>2, <2>3, FS_Surjection
  <2> QED BY <1>2, <2>1, <2>4
<1> QED BY <1>3, <1>5, <1>6, <1>7, <1>8

\* NumberAsked is a number of keys there are.
LEMMA AskedIs ==
    ASSUME GetInv
    PROVE  /\ NumberAsked \in 0..Len(keysLeft) /\ (keysLeft # <<>> => NumberAsked # 0)
           /\ \E rest \in Seq(1..total) :
                 /\ rest = TakenOff(NumberAsked) /\ IsInjective(rest)
                 /\ ToSet(rest) \cup Asked = ToSet(keysLeft)
                 /\ ToSet(rest) \cap Asked = {}
                 /\ Asked \subseteq 1..total /\ IsFiniteSet(Asked)
<1>1. keysLeft \in Seq(1..total) /\ IsInjective(keysLeft)
  BY DEF GetInv, GetTyped
<1>2. PICK k \in Nat : k = Len(keysLeft) /\ (keysLeft # <<>> => k # 0)
  BY <1>1, LenProperties, EmptySeq
<1>3. NumberAsked \in 0..Len(keysLeft) /\ (keysLeft # <<>> => NumberAsked # 0)
  BY <1>2 DEF NumberAsked
<1> QED BY <1>1, <1>3, TakenOffFacts DEF Asked

\* A request, as what becomes of the keys asked for: those of which there is an item
\* are returned or late, and late ones are dropped.
LEMMA GetMoreIs ==
    ASSUME GetInv, GetMore
    PROVE  \E rest \in Seq(1..total), asked \in SUBSET (1..total) :
           \E late \in SUBSET asked :
              /\ IsInjective(rest) /\ ToSet(rest) \cup asked = ToSet(keysLeft)
              /\ ToSet(rest) \cap asked = {} /\ IsFiniteSet(asked)
              /\ keysLeft' = rest /\ dropped' = dropped \cup late
              /\ items' = [pc |-> IF (asked \ late) \cap rows = {} THEN "ended"
                                  ELSE IF rest = <<>> THEN "last" ELSE "give",
                           page |-> (asked \ late) \cap rows]
<1>1. PICK rest \in Seq(1..total) :
         /\ rest = TakenOff(NumberAsked) /\ IsInjective(rest)
         /\ ToSet(rest) \cup Asked = ToSet(keysLeft) /\ ToSet(rest) \cap Asked = {}
         /\ Asked \subseteq 1..total /\ IsFiniteSet(Asked)
  BY AskedIs
<1>2. <<>> \o rest = rest
  BY <1>1, ConcatEmptySeq
<1>3. PICK unprocessed \in SetToAllKPermutations(Asked) :
         /\ keysLeft' = rest
         /\ dropped' = dropped \cup (ToSet(unprocessed) \ ToSet(rest))
         /\ items' = [pc |-> IF (Asked \ ToSet(unprocessed)) \cap rows = {} THEN "ended"
                             ELSE IF rest = <<>> THEN "last" ELSE "give",
                      page |-> (Asked \ ToSet(unprocessed)) \cap rows]
  <2>1. PICK unprocessed \in SetToAllKPermutations(Asked) :
           LET returned == (Asked \ ToSet(unprocessed)) \cap rows
               left     == IF returned = {} THEN TakenOff(NumberAsked)
                           ELSE Reinserted(TakenOff(NumberAsked), Named(unprocessed))
           IN /\ items' = [pc |-> IF returned = {} THEN "ended"
                                  ELSE IF left = <<>> THEN "last" ELSE "give",
                           page |-> returned]
              /\ keysLeft' = left
              /\ dropped' = dropped \cup (ToSet(unprocessed) \ ToSet(left))
    BY DEF GetMore
  <2>2. Reinserted(TakenOff(NumberAsked), Named(unprocessed)) = rest
    BY <1>1, <1>2 DEF Reinserted, Named
  <2> QED BY <1>1, <2>1, <2>2
<1>4. PICK late : late = ToSet(unprocessed)
  OBVIOUS
<1>5. late \subseteq Asked
  <2>1. unprocessed \in Seq(Asked)
    BY <1>1, SomeOrder
  <2> QED BY <1>4, <2>1, ElementsOf
<1>6. late \ ToSet(rest) = late
  BY <1>1, <1>5
<1> QED BY <1>1, <1>3, <1>4, <1>5, <1>6

LEMMA GetMoreKeeps == GetInv /\ GetMore => GetInv'
<1> SUFFICES ASSUME GetInv, GetMore PROVE GetInv'
  OBVIOUS
<1>1. PICK rest \in Seq(1..total), asked \in SUBSET (1..total) :
      \E late \in SUBSET asked :
         /\ IsInjective(rest) /\ ToSet(rest) \cup asked = ToSet(keysLeft)
         /\ ToSet(rest) \cap asked = {} /\ IsFiniteSet(asked)
         /\ keysLeft' = rest /\ dropped' = dropped \cup late
         /\ items' = [pc |-> IF (asked \ late) \cap rows = {} THEN "ended"
                             ELSE IF rest = <<>> THEN "last" ELSE "give",
                      page |-> (asked \ late) \cap rows]
  BY GetMoreIs
<1>2. PICK late \in SUBSET asked :
         /\ dropped' = dropped \cup late
         /\ items' = [pc |-> IF (asked \ late) \cap rows = {} THEN "ended"
                             ELSE IF rest = <<>> THEN "last" ELSE "give",
                      page |-> (asked \ late) \cap rows]
  BY <1>1
<1>3. UNCHANGED <<rows, total, got, failed>> /\ items.page = {}
  BY DEF GetMore, GetInv, KeysAccounted
<1>4. PICK returned : returned = (asked \ late) \cap rows
  OBVIOUS
<1>5. /\ items' \in Items' /\ items'.page = returned
      /\ items'.pc \in {"ended", "last", "give"}
      /\ items'.pc = "ended" => returned = {}
      /\ items'.pc = "last" => rest = <<>>
  <2>1. returned \in SUBSET (rows' \cap 1..total')
    BY <1>3, <1>4
  <2>2. CASE returned = {}
    <3>1. items' = [pc |-> "ended", page |-> returned]
      BY <1>2, <1>4, <2>2
    <3> QED BY <2>1, <2>2, <3>1 DEF Items
  <2>3. CASE returned # {} /\ rest = <<>>
    <3>1. items' = [pc |-> "last", page |-> returned]
      BY <1>2, <1>4, <2>3
    <3> QED BY <2>1, <2>3, <3>1 DEF Items
  <2>4. CASE returned # {} /\ rest # <<>>
    <3>1. items' = [pc |-> "give", page |-> returned]
      BY <1>2, <1>4, <2>4
    <3> QED BY <2>1, <2>4, <3>1 DEF Items
  <2> QED BY <2>2, <2>3, <2>4
<1>6. GetTyped'
  BY <1>1, <1>2, <1>3, <1>5 DEF GetInv, GetTyped
<1>7. KeysAccounted'
  <2>1. /\ ToSet(got) \cap ToSet(keysLeft) = {}
        /\ GivenUp \cap (ToSet(got) \cup ToSet(keysLeft)) = {}
        /\ rows \cap 1..total \subseteq ToSet(got) \cup ToSet(keysLeft) \cup GivenUp
    BY <1>3 DEF GetInv, KeysAccounted
  <2>2. GivenUp' = GivenUp \cup late
    BY <1>2, <1>3 DEF GivenUp
  <2>3. /\ returned \cap ToSet(rest) = {}
        /\ ToSet(got) \cap returned = {} /\ ToSet(got) \cap ToSet(rest) = {}
    BY <1>1, <1>4, <2>1
  <2>4. (GivenUp \cup late) \cap (ToSet(got) \cup returned \cup ToSet(rest)) = {}
    BY <1>1, <1>4, <2>1
  <2>5. rows \cap 1..total
           \subseteq ToSet(got) \cup returned \cup ToSet(rest) \cup (GivenUp \cup late)
    BY <1>1, <1>4, <2>1
  <2> QED BY <1>1, <1>3, <1>5, <2>2, <2>3, <2>4, <2>5 DEF KeysAccounted
<1> QED BY <1>6, <1>7 DEF GetInv

LEMMA GetFailsKeeps == GetInv /\ GetFails => GetInv'
<1> SUFFICES ASSUME GetInv, GetFails PROVE GetInv'
  OBVIOUS
<1>1. PICK rest \in Seq(1..total) :
         /\ rest = TakenOff(NumberAsked) /\ IsInjective(rest)
         /\ ToSet(rest) \cup Asked = ToSet(keysLeft) /\ ToSet(rest) \cap Asked = {}
         /\ Asked \subseteq 1..total
  BY AskedIs
<1>2. /\ keysLeft' = rest /\ failed' = failed \cup Asked
      /\ UNCHANGED <<rows, total, got, dropped>>
      /\ items \in Items /\ items.page = {} /\ items' = [items EXCEPT !.pc = "raised"]
  BY <1>1 DEF GetFails, GetInv, GetTyped, KeysAccounted
<1>3. items' \in Items /\ items'.page = {} /\ items'.pc = "raised"
  BY <1>2 DEF Items
<1>4. GetTyped'
  BY <1>1, <1>2, <1>3 DEF GetInv, GetTyped, Items
<1>5. KeysAccounted'
  <2>1. /\ ToSet(got) \cap ToSet(keysLeft) = {}
        /\ GivenUp \cap (ToSet(got) \cup ToSet(keysLeft)) = {}
        /\ rows \cap 1..total \subseteq ToSet(got) \cup ToSet(keysLeft) \cup GivenUp
    BY <1>2 DEF GetInv, KeysAccounted
  <2>2. GivenUp' = GivenUp \cup Asked
    BY <1>2 DEF GivenUp
  <2>3. /\ ToSet(got) \cap ToSet(rest) = {}
        /\ (GivenUp \cup Asked) \cap (ToSet(got) \cup ToSet(rest)) = {}
        /\ rows \cap 1..total
              \subseteq ToSet(got) \cup ToSet(rest) \cup (GivenUp \cup Asked)
    BY <1>1, <2>1
  <2> QED BY <1>2, <1>3, <2>2, <2>3 DEF KeysAccounted
<1> QED BY <1>4, <1>5 DEF GetInv

LEMMA CallAgainKeeps == GetInv /\ CallAgain => GetInv'
<1> SUFFICES ASSUME GetInv, CallAgain PROVE GetInv'
  OBVIOUS
<1>1. /\ items \in Items /\ items.page = {} /\ items' = [items EXCEPT !.pc = "fetch"]
      /\ UNCHANGED <<rows, total, keysLeft, got, dropped, failed>>
  BY DEF CallAgain, GetInv, GetTyped, KeysAccounted
<1>2. items' \in Items /\ items'.page = {} /\ items'.pc = "fetch"
  BY <1>1 DEF Items
<1> QED BY <1>1, <1>2 DEF GetInv, GetTyped, KeysAccounted, GivenUp, Items

LEMMA GiveItemKeeps == GetInv /\ GiveItem => GetInv'
<1> SUFFICES ASSUME GetInv, GiveItem PROVE GetInv'
  OBVIOUS
<1>1. PICK k \in items.page : /\ got' = Append(got, k)
                              /\ items' = [items EXCEPT !.page = @ \ {k}]
  BY DEF GiveItem
<1>2. items \in Items /\ k \in rows \cap 1..total /\ items.pc \in {"give", "last"}
      /\ UNCHANGED <<rows, total, keysLeft, dropped, failed>>
  BY DEF GetInv, GetTyped, Items, GiveItem
<1>3. got' \in Seq(rows \cap 1..total) /\ ToSet(got') = ToSet(got) \cup {k}
  <2>1. PICK S : S = rows \cap 1..total
    OBVIOUS
  <2>2. got \in Seq(S) /\ k \in S
    BY <1>2, <2>1 DEF GetInv, GetTyped
  <2>3. Append(got, k) \in Seq(S) /\ ToSet(Append(got, k)) = ToSet(got) \cup {k}
    BY <2>2, AppendElements
  <2> QED BY <1>1, <2>1, <2>3
<1>4. IsInjective(got')
  <2>1. k \notin ToSet(got)
    BY DEF GetInv, KeysAccounted
  <2>2. PICK n \in Nat : n = Len(got) /\ DOMAIN got = 1..n
    BY LenProperties DEF GetInv, GetTyped
  <2>3. /\ DOMAIN got' = 1..n + 1 /\ got'[n + 1] = k
        /\ \A i \in 1..n : got'[i] = got[i] /\ got[i] # k
    BY <1>1, <1>2, <2>1, <2>2, AppendProperties, LenProperties, <1>3
       DEF GetInv, GetTyped, ToSet
  <2>4. \A i \in 1..n + 1 : i = n + 1 \/ i \in 1..n
    BY <2>2
  <2> QED BY <2>2, <2>3, <2>4 DEF GetInv, GetTyped, IsInjective
<1>5. /\ items'.page = items.page \ {k} /\ items'.pc = items.pc
      /\ items' \in Items
  BY <1>1, <1>2 DEF Items
<1>6. GetTyped'
  BY <1>2, <1>3, <1>4, <1>5 DEF GetInv, GetTyped, Items
<1>7. KeysAccounted'
  BY <1>1, <1>2, <1>3, <1>5 DEF GetInv, KeysAccounted, GivenUp
<1> QED BY <1>6, <1>7 DEF GetInv

LEMMA GetStepHolds == GetInv /\ [GetNext]_getVars => GetInv'
<1> SUFFICES ASSUME GetInv, [GetNext]_getVars PROVE GetInv'
  OBVIOUS
<1>1. CASE EndOfPage
  <2>1. /\ items'.page = {} /\ items'.pc = IF items.pc = "give" THEN "fetch" ELSE "done"
        /\ items.pc \in {"give", "last"} /\ items' \in Items
    BY <1>1 DEF EndOfPage, PageAfter, GetInv, GetTyped, Items
  <2> QED BY <1>1, <2>1 DEF EndOfPage, GetInv, GetTyped, KeysAccounted, GivenUp, Items
<1>2. CASE UNCHANGED getVars
  BY <1>2 DEF getVars, GetInv, GetTyped, KeysAccounted, GivenUp, Items
<1> QED BY <1>1, <1>2, GetMoreKeeps, GetFailsKeeps, CallAgainKeeps, GiveItemKeeps
        DEF GetNext, GetStep

\* No item of a batch of reads is given twice, and once no key is left all are given
\* but for keys DynamoDB left unprocessed and those of a request that failed
\* (BatchGetResultSet, dynamodb2/results.py).
THEOREM AllGot == GetSpec => []GotAll
<1>1. GetInv => GotAll
  <2> SUFFICES ASSUME GetInv PROVE GotAll
    OBVIOUS
  <2>1. \A i, j \in DOMAIN got : i # j => got[i] # got[j]
    BY DEF GetInv, GetTyped, IsInjective
  <2>2. ToSet(got) \subseteq rows \cap 1..total
    BY ElementsOf DEF GetInv, GetTyped
  <2>3. ASSUME items.pc = "done"
        PROVE  ToSet(got) = (rows \cap 1..total) \ (dropped \cup failed)
    BY <2>2, <2>3, EmptyElements DEF GetInv, KeysAccounted, GivenUp
  <2> QED BY <2>1, <2>3 DEF GotAll
<1> QED BY <1>1, GetInitHolds, GetStepHolds, PTL DEF GetSpec

-----------------------------------------------------------------------------
(* The listings.                                                           *)

USE EntriesAssumption, PagesAssumption

Listers == [pc : {"fetch", "give", "done", "raised"},
            kind : {"keys", "uploads", "query", "select", "scan"},
            wanted : SUBSET Entries, limit : Limits \cup {NoLimit},
            left : Nat \cup {NoLimit}, marker : Entries \cup {0},
            page : SUBSET Entries, more : {"no", "yes"}]

ListingTyped ==
    /\ there \subseteq Entries /\ kept \subseteq there
    /\ writes \in 0..MaxWrites
    /\ given \in Seq(Entries)
    /\ lister \in Listers

\* What is given comes before the page, and the page no later than the marker.
GivenInOrder ==
    /\ \A i, j \in 1..Len(given) : i < j => given[i] < given[j]
    /\ \A i \in 1..Len(given) : /\ given[i] \in lister.wanted
                                /\ given[i] <= lister.marker
                                /\ \A e \in lister.page : given[i] < e
    /\ \A e \in lister.page : e \in lister.wanted /\ e <= lister.marker

\* A ResultSet counts its limit down, the others count what they give.
WithinLimit ==
    Limited =>
       IF lister.kind = "scan"
       THEN /\ lister.left \in Nat
            /\ Len(given) + Cardinality(lister.page) + lister.left = lister.limit
       ELSE Len(given) <= lister.limit

\* Up to the marker nothing that stayed there was left out.
NothingSkipped ==
    LET seen == ToSet(given) \cup lister.page IN
    /\ \A e \in kept \cap lister.wanted : e <= lister.marker => e \in seen
    /\ lister.pc = "give" /\ lister.more = "no" => kept \cap lister.wanted \subseteq seen
    /\ /\ lister.pc = "done" /\ lister.kind # "scan"
       /\ Limited => Len(given) < lister.limit
       => kept \cap lister.wanted \subseteq ToSet(given)
    /\ lister.pc = "fetch" => lister.page = {}

ListingInv == ListingTyped /\ GivenInOrder /\ WithinLimit /\ NothingSkipped

LEMMA MarkerType ==
    ASSUME lister \in Listers
    PROVE  lister.marker \in Entries \cup {0} /\ lister.marker \in Nat
<1>1. lister.marker \in Entries \cup {0}
  BY DEF Listers
<1>2. \A e \in Entries : e \in Nat
  OBVIOUS
<1>3. 0 \in Nat
  OBVIOUS
<1> QED BY <1>1, <1>2, <1>3, Zenon

LEMMA ListingInitHolds == ListingInit => ListingInv
<1> SUFFICES ASSUME ListingInit PROVE ListingInv
  OBVIOUS
<1>1. PICK k \in Kinds :
         lister = [pc |-> "fetch", kind |-> k.kind, wanted |-> k.wanted,
                   limit |-> k.limit, left |-> k.limit,
                   marker |-> 0, page |-> {}, more |-> "yes"]
  BY DEF ListingInit
<1>2. /\ k.kind \in {"keys", "uploads", "query", "select", "scan"}
      /\ k.wanted \in SUBSET Entries /\ k.limit \in Limits \cup {NoLimit}
  BY DEF Kinds
<1>3. lister \in Listers
  BY <1>1, <1>2 DEF Listers
<1>4. given = <<>> /\ Len(given) = 0 /\ given \in Seq(Entries) /\ ToSet(given) = {}
  BY EmptySeq, EmptyElements DEF ListingInit
<1>5. Cardinality({}) = 0
  BY FS_EmptySet
<1>6. ListingTyped
  BY <1>3, <1>4 DEF ListingInit, ListingTyped
<1>7. GivenInOrder
  BY <1>1, <1>4 DEF GivenInOrder
<1>8. WithinLimit
  <2>1. Limited => lister.limit \in Nat
    BY <1>1, <1>2 DEF Limited
  <2>2. lister.left = lister.limit /\ Cardinality(lister.page) = 0
    BY <1>1, <1>5
  <2> QED BY <1>4, <2>1, <2>2 DEF WithinLimit
<1>9. NothingSkipped
  <2>1. \A e \in kept : e \in Nat /\ ~(e <= 0)
    BY <1>6 DEF ListingTyped
  <2> QED BY <1>1, <2>1 DEF NothingSkipped
<1> QED BY <1>6, <1>7, <1>8, <1>9 DEF ListingInv

\* What the service looks at is all there is up to the next marker, and no more
\* than asked for.
LEMMA LookedFacts ==
    ASSUME ListingTyped, NEW n \in Nat,
           NEW looked, looked = LookedAt(lister.marker, n),
           NEW m, m = MarkerAt(looked)
    PROVE  /\ looked \subseteq there /\ IsFiniteSet(looked)
           /\ Cardinality(looked) <= n
           /\ m \in Entries \cup {0} /\ m \in Nat /\ lister.marker <= m
           /\ \A e \in looked : lister.marker < e /\ e <= m
           /\ \A e \in there : lister.marker < e /\ e <= m => e \in looked
<1>1. lister.marker \in Entries \cup {0} /\ lister.marker \in Nat /\ there \subseteq Nat
  BY MarkerType DEF ListingTyped
<1>2. PICK B : B = Beyond(lister.marker)
  OBVIOUS
<1>3. B \subseteq there /\ IsFiniteSet(B) /\ B \subseteq Nat
  <2>1. B \in SUBSET Entries
    BY <1>2 DEF Beyond, ListingTyped
  <2> QED BY <1>1, <1>2, <2>1, FS_Subset DEF Beyond
<1>4. looked = {e \in B : Cardinality({d \in B : d <= e}) <= n}
  BY <1>2 DEF LookedAt
<1>5. IsFiniteSet(looked) /\ looked \subseteq B
  BY <1>3, <1>4, FS_Subset
<1>6. /\ IsFiniteSet(looked \cup {lister.marker})
      /\ looked \cup {lister.marker} \subseteq Nat
  BY <1>1, <1>3, <1>5, FS_AddElement
<1>7. m \in looked \cup {lister.marker} /\ \A y \in looked \cup {lister.marker} : y <= m
  BY <1>6, GreatestOf DEF MarkerAt
<1>8. \A e \in looked : lister.marker < e
  BY <1>2, <1>5 DEF Beyond
<1>9. ASSUME NEW e \in there, lister.marker < e, e <= m PROVE e \in looked
  <2>1. e \in B /\ m \in looked /\ e \in Nat /\ m \in Nat
    <3>1. m # lister.marker
      BY <1>1, <1>9
    <3> QED BY <1>1, <1>2, <1>3, <1>5, <1>7, <1>9, <3>1 DEF Beyond
  <2>2. PICK D, M : D = {d \in B : d <= e} /\ M = {d \in B : d <= m}
    OBVIOUS
  <2>3. D \in SUBSET M /\ M \in SUBSET B
    <3>1. \A d \in B : d \in Nat /\ (d <= e => d <= m)
      BY <1>3, <1>9, <2>1
    <3> QED BY <2>2, <3>1
  <2>4. IsFiniteSet(M) /\ Cardinality(D) <= Cardinality(M)
    BY <1>3, <2>3, FS_Subset
  <2>5. IsFiniteSet(D) /\ Cardinality(D) \in Nat /\ Cardinality(M) \in Nat
    BY <2>3, <2>4, FS_Subset, FS_CardinalityType
  <2>6. Cardinality(M) <= n
    BY <1>4, <2>1, <2>2
  <2> QED BY <1>4, <2>1, <2>2, <2>4, <2>5, <2>6
<1>10. Cardinality(looked) <= n
  <2>1. CASE looked = {}
    BY <2>1, FS_EmptySet
  <2>2. CASE looked # {}
    <3>1. m \in looked
      <4>1. PICK e \in looked : e \in Nat
        BY <1>3, <1>5, <2>2
      <4> QED BY <1>1, <1>7, <1>8, <4>1
    <3>2. PICK M : M = {d \in B : d <= m}
      OBVIOUS
    <3>3. Cardinality(M) <= n /\ looked \in SUBSET M /\ M \in SUBSET B
      BY <1>4, <1>5, <1>7, <3>1, <3>2
    <3>4. IsFiniteSet(M) /\ Cardinality(looked) <= Cardinality(M)
      BY <1>3, <3>3, FS_Subset
    <3>5. Cardinality(M) \in Nat /\ Cardinality(looked) \in Nat
      BY <1>5, <3>4, FS_CardinalityType
    <3> QED BY <3>3, <3>4, <3>5
  <2> QED BY <2>1, <2>2
<1> QED BY <1>1, <1>3, <1>5, <1>7, <1>8, <1>9, <1>10 DEF ListingTyped

LEMMA FetchMoreKeeps == ListingInv /\ FetchMore => ListingInv'
<1> SUFFICES ASSUME ListingInv, FetchMore PROVE ListingInv'
  OBVIOUS
<1>0. /\ ListingTyped /\ GivenInOrder /\ WithinLimit /\ NothingSkipped
      /\ lister \in Listers /\ UNCHANGED <<there, writes, given, kept>>
      /\ lister.pc = "fetch"
  BY DEF ListingInv, ListingTyped, FetchMore
<1>1. PICK n \in 1..PageSize :
         LET bound  == IF lister.kind = "scan" /\ Limited
                       THEN Min({n, lister.left}) ELSE n
             looked == LookedAt(lister.marker, bound)
             hits   == looked \cap lister.wanted
         IN lister' = [lister EXCEPT
              !.pc     = IF PageEnds(hits) THEN "done" ELSE "give",
              !.page   = hits,
              !.marker = MarkerAt(looked),
              !.left   = Decreased(hits),
              !.more   = IF looked = Beyond(lister.marker) THEN "no" ELSE "yes"]
  BY DEF FetchMore
<1>2. PICK b \in Nat : /\ b = IF lister.kind = "scan" /\ Limited
                              THEN Min({n, lister.left}) ELSE n
                       /\ lister.kind = "scan" /\ Limited => b <= lister.left
  <2>1. CASE lister.kind = "scan" /\ Limited
    <3>1. lister.left \in Nat
      BY <1>0, <2>1 DEF WithinLimit
    <3>2. Min({n, lister.left}) \in {n, lister.left} /\ Min({n, lister.left}) <= lister.left
      BY <3>1, LeastOf
    <3> QED BY <2>1, <3>1, <3>2
  <2>2. CASE ~(lister.kind = "scan" /\ Limited)
    BY <2>2
  <2> QED BY <2>1, <2>2
<1>3. PICK looked, m : looked = LookedAt(lister.marker, b) /\ m = MarkerAt(looked)
  OBVIOUS
<1>4. /\ looked \subseteq there /\ IsFiniteSet(looked)
      /\ Cardinality(looked) <= b
      /\ m \in Entries \cup {0} /\ m \in Nat /\ lister.marker <= m
      /\ \A e \in looked : lister.marker < e /\ e <= m
      /\ \A e \in there : lister.marker < e /\ e <= m => e \in looked
  BY <1>0, <1>3, LookedFacts
<1>5. PICK hits \in SUBSET Entries : hits = looked \cap lister.wanted
  BY <1>0, <1>4 DEF ListingTyped
<1>6. PICK c \in Nat : c = Cardinality(hits) /\ c <= b
  <2>1. hits \in SUBSET looked
    BY <1>5
  <2>2. IsFiniteSet(hits) /\ Cardinality(hits) <= Cardinality(looked)
    BY <1>4, <2>1, FS_Subset
  <2> QED BY <1>4, <2>2, FS_CardinalityType
<1>7. PICK left \in Nat \cup {NoLimit} :
         /\ left = Decreased(hits)
         /\ lister.kind = "scan" /\ Limited => left \in Nat /\ left = lister.left - c
  <2>1. CASE lister.kind = "scan" /\ Limited
    <3>1. lister.left \in Nat
      BY <1>0, <2>1 DEF WithinLimit
    <3>2. lister.left - c \in Nat
      BY <1>2, <1>6, <2>1, <3>1
    <3> QED BY <1>6, <2>1, <3>2 DEF Decreased
  <2>2. CASE ~(lister.kind = "scan" /\ Limited)
    BY <1>0, <2>2 DEF Decreased, Listers
  <2> QED BY <2>1, <2>2
<1>8. PICK pc \in {"done", "give"}, more \in {"no", "yes"} :
         /\ pc = IF PageEnds(hits) THEN "done" ELSE "give"
         /\ more = IF looked = Beyond(lister.marker) THEN "no" ELSE "yes"
  OBVIOUS
<1>9. lister' = [lister EXCEPT !.pc = pc, !.page = hits, !.marker = m, !.left = left,
                               !.more = more]
  BY <1>1, <1>2, <1>3, <1>5, <1>7, <1>8
<1>10. /\ lister' \in Listers
       /\ lister'.pc = pc /\ lister'.page = hits /\ lister'.marker = m
       /\ lister'.left = left /\ lister'.more = more
       /\ lister'.kind = lister.kind /\ lister'.wanted = lister.wanted
       /\ lister'.limit = lister.limit
  BY <1>0, <1>4, <1>9 DEF Listers
<1>11. lister.page = {} /\ Len(given) \in Nat /\ DOMAIN given = 1..Len(given)
  BY <1>0, LenProperties DEF NothingSkipped, ListingTyped
<1>12. ListingTyped'
  BY <1>0, <1>10 DEF ListingTyped
<1>13. GivenInOrder'
  <2>1. lister.marker \in Nat
    BY <1>0, MarkerType
  <2>2. \A i \in 1..Len(given) : given[i] \in Nat /\ given[i] <= lister.marker
    BY <1>0, ElementOfSeq DEF GivenInOrder, ListingTyped
  <2>3. \A i \in 1..Len(given) : given[i] <= m
    BY <1>4, <2>1, <2>2
  <2>4. \A i \in 1..Len(given), e \in hits : given[i] < e
    <3>1. \A e \in hits : e \in Nat /\ lister.marker < e
      BY <1>4, <1>5
    <3> QED BY <2>1, <2>2, <3>1
  <2>5. \A e \in hits : e \in lister.wanted /\ e <= m
    BY <1>4, <1>5
  <2> QED BY <1>0, <1>10, <2>3, <2>4, <2>5 DEF GivenInOrder
<1>14. WithinLimit'
  <2>1. CASE lister.kind = "scan" /\ Limited
    <3>1. Cardinality(lister.page) = 0
      BY <1>11, FS_EmptySet
    <3>2. Len(given) + 0 + lister.left = lister.limit /\ lister.left \in Nat
      BY <1>0, <2>1, <3>1 DEF WithinLimit
    <3>3. Len(given) + c + left = lister.limit
      BY <1>7, <1>11, <2>1, <3>2
    <3> QED BY <1>0, <1>6, <1>7, <1>10, <2>1, <3>3 DEF WithinLimit, Limited
  <2>2. CASE ~(lister.kind = "scan" /\ Limited)
    BY <1>0, <1>10, <2>2 DEF WithinLimit, Limited
  <2> QED BY <2>1, <2>2
<1>15. NothingSkipped'
  <2>0. lister.marker \in Nat
    BY <1>0, MarkerType
  <2>1. \A e \in kept \cap lister.wanted : e <= lister.marker => e \in ToSet(given)
    BY <1>0, <1>11 DEF NothingSkipped
  <2>2. \A e \in kept : e \in there /\ e \in Nat
    BY <1>0 DEF ListingTyped
  <2>3. \A e \in kept \cap lister.wanted : e <= m => e \in ToSet(given) \cup hits
    BY <1>4, <1>5, <2>0, <2>1, <2>2
  <2>4. more = "no" => kept \cap lister.wanted \subseteq ToSet(given) \cup hits
    <3>1. more = "no" => looked = {e \in there : e > lister.marker}
      BY <1>8 DEF Beyond
    <3> QED BY <1>5, <2>0, <2>1, <2>2, <3>1
  <2>5. pc = "done" => lister.kind = "scan"
    BY <1>8 DEF PageEnds
  <2> QED BY <1>0, <1>10, <2>3, <2>4, <2>5 DEF NothingSkipped
<1> QED BY <1>12, <1>13, <1>14, <1>15 DEF ListingInv

LEMMA GiveKeeps == ListingInv /\ Give => ListingInv'
<1> SUFFICES ASSUME ListingInv, Give PROVE ListingInv'
  OBVIOUS
<1>0. /\ ListingTyped /\ GivenInOrder /\ WithinLimit /\ NothingSkipped
      /\ lister \in Listers /\ UNCHANGED <<there, writes, kept>>
      /\ lister.pc = "give" /\ ~EnoughGiven
  BY DEF ListingInv, ListingTyped, Give
<1>1. PICK P : P = lister.page
  OBVIOUS
<1>2. P \subseteq Entries /\ P \subseteq Nat /\ P # {} /\ IsFiniteSet(P)
  <2>1. P \in SUBSET Entries
    BY <1>0, <1>1 DEF Listers
  <2> QED BY <1>1, <2>1, FS_Subset DEF Give
<1>3. PICK e \in P : /\ e = Min(P) /\ e \in Entries /\ e \in Nat
                     /\ \A d \in P : e <= d
  BY <1>2, LeastOf
<1>4. given' = Append(given, e) /\ lister' = [lister EXCEPT !.page = P \ {e}]
  BY <1>1, <1>3 DEF Give
<1>5. /\ lister' \in Listers /\ lister'.page = P \ {e}
      /\ lister'.pc = lister.pc /\ lister'.marker = lister.marker
      /\ lister'.left = lister.left /\ lister'.more = lister.more
      /\ lister'.kind = lister.kind /\ lister'.wanted = lister.wanted
      /\ lister'.limit = lister.limit
  BY <1>0, <1>2, <1>4 DEF Listers
<1>6. PICK n \in Nat : n = Len(given) /\ DOMAIN given = 1..n
  BY <1>0, LenProperties DEF ListingTyped
<1>7. /\ given' \in Seq(Entries) /\ Len(given') = n + 1
      /\ ToSet(given') = ToSet(given) \cup {e}
  BY <1>0, <1>3, <1>4, <1>6, AppendElements DEF ListingTyped
<1>8. given'[n + 1] = e /\ \A i \in 1..n : given'[i] = given[i]
  BY <1>0, <1>3, <1>4, <1>6, AppendProperties DEF ListingTyped
<1>9. ListingTyped'
  BY <1>0, <1>5, <1>7 DEF ListingTyped
<1>10. GivenInOrder'
  <2>1. \A i \in 1..n : given[i] < e
    BY <1>0, <1>1, <1>3, <1>6 DEF GivenInOrder
  <2>2. \A i \in 1..n + 1 : i \in 1..n \/ i = n + 1
    BY <1>6
  <2>3. ASSUME NEW i \in 1..n + 1, NEW j \in 1..n + 1, i < j
        PROVE  given'[i] < given'[j]
    <3>1. i \in 1..n
      BY <1>6, <2>3
    <3> QED BY <1>0, <1>6, <1>8, <2>1, <2>2, <2>3, <3>1 DEF GivenInOrder
  <2>4. \A d \in P \ {e} : e < d
    BY <1>2, <1>3
  <2>5. e \in lister.wanted /\ e <= lister.marker
    BY <1>0, <1>1, <1>3 DEF GivenInOrder
  <2>6. ASSUME NEW i \in 1..n + 1
        PROVE  /\ given'[i] \in lister.wanted /\ given'[i] <= lister.marker
               /\ \A d \in P \ {e} : given'[i] < d
    BY <1>0, <1>1, <1>6, <1>8, <2>2, <2>4, <2>5 DEF GivenInOrder
  <2> QED BY <1>0, <1>1, <1>5, <1>7, <2>3, <2>6 DEF GivenInOrder
<1>11. WithinLimit'
  <2>1. PICK c \in Nat : c = Cardinality(P)
    BY <1>2, FS_CardinalityType
  <2>2. Cardinality(P \ {e}) = c - 1
    BY <1>2, <1>3, <2>1, FS_RemoveElement
  <2>3. CASE Limited /\ lister.kind = "scan"
    <3>1. lister.left \in Nat /\ n + c + lister.left = lister.limit
      BY <1>0, <1>1, <1>6, <2>1, <2>3 DEF WithinLimit
    <3>2. n + 1 + (c - 1) + lister.left = lister.limit
      BY <1>6, <2>1, <3>1
    <3> QED BY <1>5, <1>7, <2>2, <2>3, <3>1, <3>2 DEF WithinLimit, Limited
  <2>4. CASE Limited /\ lister.kind # "scan"
    <3>1. lister.limit \in Nat
      BY <1>0, <2>4 DEF Listers, Limited
    <3>2. n + 1 <= lister.limit
      BY <1>0, <1>6, <2>4, <3>1 DEF EnoughGiven
    <3> QED BY <1>5, <1>7, <2>4, <3>2 DEF WithinLimit, Limited
  <2>5. CASE ~Limited
    BY <1>5, <2>5 DEF WithinLimit, Limited
  <2> QED BY <2>3, <2>4, <2>5
<1>12. NothingSkipped'
  <2>1. ToSet(given') \cup (P \ {e}) = ToSet(given) \cup P
    BY <1>3, <1>7
  <2> QED BY <1>0, <1>1, <1>5, <2>1 DEF NothingSkipped
<1> QED BY <1>9, <1>10, <1>11, <1>12 DEF ListingInv

LEMMA ListingStepHolds == ListingInv /\ [ListingNext]_listingVars => ListingInv'
<1> SUFFICES ASSUME ListingInv, [ListingNext]_listingVars PROVE ListingInv'
  OBVIOUS
<1>0. /\ ListingTyped /\ GivenInOrder /\ WithinLimit /\ NothingSkipped
      /\ lister \in Listers
  BY DEF ListingInv, ListingTyped
<1>1. ASSUME NEW pc \in {"fetch", "done", "raised"},
             lister' = [lister EXCEPT !.pc = pc],
             UNCHANGED <<there, writes, given, kept>>,
             pc = "fetch" => lister.page = {},
             pc = "done" => \/ EnoughGiven
                            \/ /\ lister.pc = "give" /\ lister.page = {}
                               /\ lister.more = "no"
      PROVE  ListingInv'
  <2>1. /\ lister' \in Listers /\ lister'.pc = pc /\ lister'.page = lister.page
        /\ lister'.marker = lister.marker /\ lister'.left = lister.left
        /\ lister'.more = lister.more /\ lister'.kind = lister.kind
        /\ lister'.wanted = lister.wanted /\ lister'.limit = lister.limit
    BY <1>0, <1>1 DEF Listers
  <2>2. ListingTyped' /\ GivenInOrder' /\ WithinLimit'
    BY <1>0, <1>1, <2>1 DEF ListingTyped, GivenInOrder, WithinLimit, Limited
  <2>3. EnoughGiven => ~(Limited => Len(given) < lister.limit)
    <3>1. Len(given) \in Nat
      BY <1>0, LenProperties DEF ListingTyped
    <3>2. Limited => lister.limit \in Nat
      BY <1>0 DEF Limited, Listers
    <3> QED BY <3>1, <3>2 DEF EnoughGiven
  <2>4. NothingSkipped'
    BY <1>0, <1>1, <2>1, <2>3 DEF NothingSkipped, Limited
  <2> QED BY <2>2, <2>4 DEF ListingInv
<1>2. CASE Refused
  BY <1>1, <1>2 DEF Refused
<1>3. CASE PageDone
  <2>1. PICK pc \in {"fetch", "done"} :
           pc = IF \/ lister.page # {} \/ lister.more = "no"
                   \/ lister.kind = "select" /\ EnoughGiven
                THEN "done" ELSE "fetch"
    OBVIOUS
  <2> QED BY <1>1, <1>3, <2>1 DEF PageDone
<1>4. CASE OthersWrite
  <2>1. /\ there' \subseteq Entries /\ kept' \subseteq there' /\ kept' \subseteq kept
        /\ writes' \in 0..MaxWrites /\ UNCHANGED <<lister, given>>
    BY <1>0, <1>4 DEF OthersWrite, ListingTyped
  <2>2. ListingTyped' /\ GivenInOrder' /\ WithinLimit'
    BY <1>0, <2>1 DEF ListingTyped, GivenInOrder, WithinLimit, Limited
  <2>3. NothingSkipped'
    BY <1>0, <2>1 DEF NothingSkipped, Limited
  <2> QED BY <2>2, <2>3 DEF ListingInv
<1>5. CASE UNCHANGED listingVars
  BY <1>0, <1>5 DEF listingVars, ListingInv, ListingTyped, GivenInOrder, WithinLimit,
                    NothingSkipped, Limited
<1> QED BY <1>2, <1>3, <1>4, <1>5, FetchMoreKeeps, GiveKeeps
        DEF ListingNext, ListerStep

\* A listing gives all that was there all the time, in order and once, and no more
\* than its limit (bucketlistresultset.py, queryresultset.py, results.py).
THEOREM AllListed == ListingSpec => []ListedAll
<1>1. ListingInv => ListedAll
  <2> SUFFICES ASSUME ListingInv PROVE ListedAll
    OBVIOUS
  <2>1. DOMAIN given = 1..Len(given) /\ Len(given) \in Nat
    BY LenProperties DEF ListingInv, ListingTyped
  <2>2. Limited => Len(given) <= lister.limit
    <3>1. CASE Limited /\ lister.kind = "scan"
      <4>1. IsFiniteSet(lister.page)
        <5>1. lister.page \in SUBSET Entries
          BY DEF ListingInv, ListingTyped, Listers
        <5> QED BY <5>1, FS_Subset
      <4>2. Cardinality(lister.page) \in Nat
        BY <4>1, FS_CardinalityType
      <4> QED BY <2>1, <3>1, <4>2 DEF ListingInv, WithinLimit
    <3> QED BY <3>1 DEF ListingInv, WithinLimit
  <2>3. ToSet(given) = {given[i] : i \in DOMAIN given}
    BY DEF ToSet
  <2> QED BY <2>1, <2>2, <2>3 DEF ListingInv, GivenInOrder, NothingSkipped, ListedAll
<1> QED BY <1>1, ListingInitHolds, ListingStepHolds, PTL DEF ListingSpec

\* The parts of a batch of writes keep their types.
THEOREM BatchTyping == BatchSpec => []BatchTypeOK
<1>1. BatchInv => BatchTypeOK
  <2> SUFFICES ASSUME BatchInv PROVE BatchTypeOK
    OBVIOUS
  <2>1. pending \in Seq(1..MaxCalls)
    <3>1. \A i \in 1..Len(pending) : pending[i] \in 1..called
      BY ElementOfSeq DEF BatchInv, BatchTyped
    <3>2. \A n \in 1..called : n \in 1..MaxCalls
      BY DEF BatchInv, BatchTyped
    <3>3. pending \in [1..Len(pending) -> 1..MaxCalls] /\ Len(pending) \in Nat
      BY <3>1, <3>2, LenProperties DEF BatchInv, BatchTyped
    <3> QED BY <3>3, SeqDef
  <2> QED BY <2>1 DEF BatchInv, BatchTyped, StaysSmall, BatchTypeOK
<1> QED BY <1>1, BatchInitHolds, BatchStepHolds, PTL DEF BatchSpec

\* So do those of a batch of reads.
THEOREM GetTyping == GetSpec => []GetTypeOK
<1>1. GetInv => GetTypeOK
  <2> SUFFICES ASSUME GetInv PROVE GetTypeOK
    OBVIOUS
  <2>1. got \in Seq(rows)
    <3>1. \A i \in 1..Len(got) : got[i] \in rows
      BY ElementOfSeq DEF GetInv, GetTyped
    <3>2. got \in [1..Len(got) -> rows] /\ Len(got) \in Nat
      BY <3>1, LenProperties DEF GetInv, GetTyped
    <3> QED BY <3>2, SeqDef
  <2> QED BY <2>1 DEF GetInv, GetTyped, GetTypeOK, Items
<1> QED BY <1>1, GetInitHolds, GetStepHolds, PTL DEF GetSpec

\* And those of a listing.
THEOREM ListingTyping == ListingSpec => []ListingTypeOK
<1>1. ListingInv => ListingTypeOK
  BY DEF ListingInv, ListingTyped, ListingTypeOK, Listers
<1> QED BY <1>1, ListingInitHolds, ListingStepHolds, PTL DEF ListingSpec

-----------------------------------------------------------------------------
(* Batches of reads come to their end.                                     *)

\* Two parts of a set without a common element.
LEMMA PartsFit ==
    ASSUME NEW S, IsFiniteSet(S), NEW A \in SUBSET S, NEW B \in SUBSET S, A \cap B = {}
    PROVE  /\ Cardinality(A) \in Nat /\ Cardinality(B) \in Nat /\ Cardinality(S) \in Nat
           /\ Cardinality(A) + Cardinality(B) <= Cardinality(S)
<1>1. IsFiniteSet(A) /\ IsFiniteSet(B)
  BY FS_Subset
<1>2. Cardinality(A) \in Nat /\ Cardinality(B) \in Nat /\ Cardinality(S) \in Nat
  BY <1>1, FS_CardinalityType
<1>3. Cardinality(A \cup B) = Cardinality(A) + Cardinality(B)
  <2>1. Cardinality(A \cup B)
           = Cardinality(A) + Cardinality(B) - Cardinality(A \cap B)
    BY <1>1, FS_Union, Zenon
  <2>2. Cardinality(A \cap B) = 0
    BY FS_EmptySet
  <2> QED BY <1>2, <2>1, <2>2
<1>4. Cardinality(A \cup B) <= Cardinality(S)
  <2>1. A \cup B \in SUBSET S
    OBVIOUS
  <2> QED BY <2>1, FS_Subset
<1> QED BY <1>2, <1>3, <1>4

\* The steps a batch of reads has left, at most, or has before a request fails: one
\* for keys that are left takes some of them off, or is the last.
GetLeft ==
    LET keys == Cardinality(ToSet(keysLeft)) IN
    IF items.pc = "fetch" THEN 3 * keys + 2
    ELSE IF items.pc \in {"give", "last"} THEN 3 * keys + Cardinality(items.page) + 3
    ELSE 0

GetComesCloser == GetLeft' < GetLeft

GetSized == /\ total \in Nat /\ items \in Items /\ IsFiniteSet(items.page)
            /\ items.pc \in {"fetch", "give", "last", "raised", "ended", "done"}
            /\ IsFiniteSet(ToSet(keysLeft)) /\ Cardinality(ToSet(keysLeft)) \in Nat
            /\ Cardinality(items.page) \in Nat

GetNumbered == /\ GetLeft \in Nat
               /\ GetLeft = 0 <=> items.pc \in {"raised", "ended", "done"}

LEMMA GetSizes == GetInv => GetSized
<1> SUFFICES ASSUME GetInv PROVE GetSized
  OBVIOUS
<1>1. /\ total \in Nat /\ items.page \in SUBSET (1..total) /\ items \in Items
      /\ items.pc \in {"fetch", "give", "last", "raised", "ended", "done"}
  BY DEF GetInv, GetTyped, Items
<1>2. ToSet(keysLeft) \in SUBSET (1..total)
  BY ElementsOf DEF GetInv, GetTyped
<1>3. IsFiniteSet(1..total)
  <2>1. 1 \in Int /\ total \in Int
    BY <1>1
  <2> QED BY <2>1, FS_Interval, Zenon
<1>4. IsFiniteSet(ToSet(keysLeft)) /\ IsFiniteSet(items.page)
  BY <1>1, <1>2, <1>3, FS_Subset
<1> QED BY <1>1, <1>4, FS_CardinalityType DEF GetSized

LEMMA GetSizesNext == GetInv' => GetSized'
  BY GetSizes, PTL

LEMMA GetIsNumbered == GetSized => GetNumbered
<1> SUFFICES ASSUME GetSized PROVE GetNumbered
  OBVIOUS
<1>1. PICK k \in Nat, n \in Nat : /\ k = Cardinality(ToSet(keysLeft))
                                  /\ n = Cardinality(items.page)
  BY DEF GetSized
<1> QED BY <1>1 DEF GetSized, GetLeft, GetNumbered

LEMMA GetMoreCloser == GetInv /\ GetMore => GetComesCloser
<1> SUFFICES ASSUME GetInv, GetMore PROVE GetComesCloser
  OBVIOUS
<1>1. PICK rest \in Seq(1..total), asked \in SUBSET (1..total) :
      \E late \in SUBSET asked :
         /\ ToSet(rest) \cup asked = ToSet(keysLeft) /\ ToSet(rest) \cap asked = {}
         /\ keysLeft' = rest
         /\ items' = [pc |-> IF (asked \ late) \cap rows = {} THEN "ended"
                             ELSE IF rest = <<>> THEN "last" ELSE "give",
                      page |-> (asked \ late) \cap rows]
  BY GetMoreIs
<1>2. PICK late \in SUBSET asked :
         items' = [pc |-> IF (asked \ late) \cap rows = {} THEN "ended"
                          ELSE IF rest = <<>> THEN "last" ELSE "give",
                   page |-> (asked \ late) \cap rows]
  BY <1>1
<1>3. PICK returned : returned = (asked \ late) \cap rows
  OBVIOUS
<1>4. items.pc = "fetch" /\ GetSized
  BY GetSizes DEF GetMore
<1>5. PICK k \in Nat : k = Cardinality(ToSet(keysLeft)) /\ GetLeft = 3 * k + 2
  BY <1>4 DEF GetSized, GetLeft
<1>6. CASE returned = {}
  <2>1. items'.pc = "ended"
    BY <1>2, <1>3, <1>6
  <2> QED BY <1>5, <2>1 DEF GetLeft, GetComesCloser
<1>7. CASE returned # {}
  <2>1. items'.pc \in {"last", "give"} /\ items'.page = returned /\ keysLeft' = rest
    BY <1>1, <1>2, <1>3, <1>7
  <2>2. /\ ToSet(rest) \in SUBSET ToSet(keysLeft) /\ returned \in SUBSET ToSet(keysLeft)
        /\ ToSet(rest) \cap returned = {}
    BY <1>1, <1>3
  <2>3. PICK l \in Nat, r \in Nat : /\ l = Cardinality(ToSet(rest))
                                    /\ r = Cardinality(returned) /\ l + r <= k
    BY <1>4, <1>5, <2>2, PartsFit DEF GetSized
  <2>4. r > 0
    <3>1. IsFiniteSet(returned)
      BY <1>4, <2>2, FS_Subset DEF GetSized
    <3> QED BY <1>7, <2>3, <3>1, FS_EmptySet
  <2>5. GetLeft' = 3 * l + r + 3
    BY <2>1, <2>3 DEF GetLeft
  <2>6. 3 * l + r + 3 < 3 * k + 2
    <3>1. l + r <= k /\ r > 0
      BY <2>3, <2>4
    <3>2. 3 * l + 3 * r <= 3 * k
      BY <3>1
    <3> QED BY <3>1, <3>2
  <2> QED BY <1>5, <2>5, <2>6 DEF GetComesCloser
<1> QED BY <1>6, <1>7

LEMMA GetStepCloser == GetInv /\ GetStep => GetComesCloser
<1> SUFFICES ASSUME GetInv, GetStep PROVE GetComesCloser
  OBVIOUS
<1>1. GetSized
  BY GetSizes
<1>2. PICK k \in Nat, n \in Nat : /\ k = Cardinality(ToSet(keysLeft))
                                  /\ n = Cardinality(items.page)
  BY <1>1 DEF GetSized
<1>3. CASE GiveItem
  <2>1. PICK x \in items.page : items' = [items EXCEPT !.page = items.page \ {x}]
    BY <1>3 DEF GiveItem
  <2>2. /\ items.pc \in {"give", "last"} /\ items'.pc = items.pc
        /\ items'.page = items.page \ {x} /\ keysLeft' = keysLeft
    <3>1. PICK p : p = items.page \ {x} /\ items' = [items EXCEPT !.page = p]
      BY <2>1
    <3>2. items'.pc = items.pc /\ items'.page = p
      BY <1>1, <3>1 DEF GetSized, Items
    <3> QED BY <1>3, <3>1, <3>2 DEF GiveItem
  <2>3. Cardinality(items'.page) = n - 1
    BY <1>1, <1>2, <2>1, <2>2, FS_RemoveElement DEF GetSized
  <2>4. GetLeft = 3 * k + n + 3 /\ GetLeft' = 3 * k + (n - 1) + 3
    BY <1>2, <2>2, <2>3 DEF GetLeft
  <2> QED BY <2>4 DEF GetComesCloser
<1>4. CASE EndOfPage
  <2>1. /\ items.pc \in {"give", "last"} /\ items'.pc \in {"fetch", "done"}
        /\ keysLeft' = keysLeft
    BY <1>1, <1>4 DEF EndOfPage, PageAfter, GetSized, Items
  <2>2. GetLeft = 3 * k + n + 3 /\ GetLeft' \in {3 * k + 2, 0}
    BY <1>2, <2>1 DEF GetLeft
  <2> QED BY <2>2 DEF GetComesCloser
<1>5. CASE GetFails
  <2>1. items.pc = "fetch" /\ items'.pc = "raised"
    <3>1. items' = [items EXCEPT !.pc = "raised"]
      BY <1>5 DEF GetFails
    <3> QED BY <1>1, <1>5, <3>1 DEF GetFails, GetSized, Items
  <2>2. GetLeft = 3 * k + 2 /\ GetLeft' = 0
    BY <1>2, <2>1 DEF GetLeft
  <2> QED BY <2>2 DEF GetComesCloser
<1> QED BY <1>3, <1>4, <1>5, GetMoreCloser DEF GetStep

\* A batch of reads ends, or a request fails, within as many steps of its own as
\* GetLeft says when it starts, or when the caller goes on after a failure, whatever
\* DynamoDB leaves unprocessed (fetch_more and next of BatchGetResultSet,
\* dynamodb2/results.py).
THEOREM GetBounded ==
    GetSpec => /\ GetLeft = 3 * total + 2
               /\ [][GetStep => GetComesCloser]_getVars
               /\ []GetNumbered
<1>1. GetInit => GetLeft = 3 * total + 2
  <2> SUFFICES ASSUME GetInit PROVE GetLeft = 3 * total + 2
    OBVIOUS
  <2>1. total \in Nat /\ items.pc = "fetch"
    BY DEF GetInit
  <2>2. ToSet(keysLeft) = 1..total
    BY DEF GetInit, ToSet
  <2>3. Cardinality(1..total) = total
    BY <2>1, FS_Interval
  <2> QED BY <2>1, <2>2, <2>3 DEF GetLeft
<1>2. GetInv /\ [GetNext]_getVars => [GetStep => GetComesCloser]_getVars
  BY GetStepCloser
<1>3. GetInv => GetNumbered
  BY GetSizes, GetIsNumbered
<1> QED BY <1>1, <1>2, <1>3, GetInitHolds, GetStepHolds, PTL DEF GetSpec

-----------------------------------------------------------------------------
(* Listings come to their end.                                             *)

\* What may lie after the marker, and the steps a listing has left, at most: a
\* page that is not the last moves the marker past all the service looked at.
Ahead == Cardinality({e \in Entries : e > lister.marker})

ListingLeft ==
    CASE lister.pc = "fetch" -> 3 * Ahead + 2
      [] lister.pc = "give"  ->
            Cardinality(lister.page) + (IF lister.more = "no" THEN 1 ELSE 3 * Ahead + 3)
      [] OTHER -> 0

\* The lister comes closer, and what others write takes it no further away.
ListingComesCloser == IF ListerStep THEN ListingLeft' < ListingLeft
                                    ELSE ListingLeft' = ListingLeft

ListingSized == /\ lister \in Listers
                /\ lister.pc \in {"fetch", "give", "done", "raised"}
                /\ lister.more \in {"no", "yes"}
                /\ IsFiniteSet(lister.page) /\ Cardinality(lister.page) \in Nat
                /\ Ahead \in Nat

ListingNumbered ==
    ListingLeft \in Nat /\ (ListingLeft = 0 <=> lister.pc \in {"done", "raised"})

LEMMA ListingSizes == ListingInv => ListingSized
<1> SUFFICES ASSUME ListingInv PROVE ListingSized
  OBVIOUS
<1>1. /\ lister \in Listers /\ lister.page \in SUBSET Entries
      /\ lister.pc \in {"fetch", "give", "done", "raised"}
      /\ lister.more \in {"no", "yes"}
  BY DEF ListingInv, ListingTyped, Listers
<1>2. {e \in Entries : e > lister.marker} \in SUBSET Entries
  OBVIOUS
<1>3. IsFiniteSet(lister.page) /\ IsFiniteSet({e \in Entries : e > lister.marker})
  BY <1>1, <1>2, FS_Subset
<1> QED BY <1>1, <1>3, FS_CardinalityType DEF ListingSized, Ahead

LEMMA ListingIsNumbered == ListingSized => ListingNumbered
<1> SUFFICES ASSUME ListingSized PROVE ListingNumbered
  OBVIOUS
<1>1. PICK a \in Nat, n \in Nat : a = Ahead /\ n = Cardinality(lister.page)
  BY DEF ListingSized
<1> QED BY <1>1 DEF ListingSized, ListingLeft, ListingNumbered

\* If there is anything after the marker, the service looks at the first of it.
LEMMA LooksAtSome ==
    ASSUME ListingTyped, NEW n \in Nat, n > 0, LookedAt(lister.marker, n) = {}
    PROVE  Beyond(lister.marker) = {}
<1> SUFFICES ASSUME Beyond(lister.marker) # {} PROVE FALSE
  OBVIOUS
<1>1. PICK B \in SUBSET Entries : B = Beyond(lister.marker)
  BY DEF Beyond, ListingTyped
<1>2. B \subseteq Nat /\ B # {}
  BY <1>1
<1>3. PICK e \in B : \A y \in B : e <= y
  BY <1>2, LeastOf
<1>4. {d \in B : d <= e} = {e}
  <2>1. \A d \in B : d <= e => d = e
    BY <1>2, <1>3
  <2>2. e \in Nat /\ e <= e
    BY <1>2
  <2> QED BY <2>1, <2>2
<1>5. Cardinality({d \in B : d <= e}) = 1
  BY <1>4, FS_Singleton
<1> QED BY <1>1, <1>5 DEF LookedAt

\* A request for n entries looks at b of them.
Looks(n, b) ==
    /\ b = IF lister.kind = "scan" /\ Limited THEN Min({n, lister.left}) ELSE n
    /\ b > 0
    /\ LET looked == LookedAt(lister.marker, b)
           hits   == looked \cap lister.wanted
       IN lister' = [lister EXCEPT
            !.pc     = IF PageEnds(hits) THEN "done" ELSE "give",
            !.page   = hits,
            !.marker = MarkerAt(looked),
            !.left   = Decreased(hits),
            !.more   = IF looked = Beyond(lister.marker) THEN "no" ELSE "yes"]

LEMMA FetchMoreCloser == ListingInv /\ FetchMore => ListingLeft' < ListingLeft
<1> SUFFICES ASSUME ListingInv, FetchMore PROVE ListingLeft' < ListingLeft
  OBVIOUS
<1>0. /\ ListingTyped /\ lister \in Listers /\ lister.pc = "fetch" /\ ListingSized
      /\ WithinLimit
  BY ListingSizes DEF ListingInv, ListingTyped, FetchMore
<1>1. PICK n \in 1..PageSize : \E b : Looks(n, b)
  BY DEF FetchMore, Looks
<1>2. PICK b : Looks(n, b)
  BY <1>1
<1>3. b \in Nat
  <2>1. CASE lister.kind = "scan" /\ Limited
    <3>1. lister.left \in Nat
      BY <1>0, <2>1 DEF WithinLimit
    <3> QED BY <1>2, <2>1, <3>1, LeastOf DEF Looks
  <2> QED BY <1>2, <2>1 DEF Looks
<1>4. PICK looked, m : looked = LookedAt(lister.marker, b) /\ m = MarkerAt(looked)
  OBVIOUS
<1>5. /\ looked \subseteq there /\ m \in Nat /\ lister.marker <= m
      /\ \A e \in looked : lister.marker < e /\ e <= m
  BY <1>0, <1>3, <1>4, LookedFacts
<1>6. PICK hits : hits = looked \cap lister.wanted
  OBVIOUS
<1>7. /\ lister'.pc = IF PageEnds(hits) THEN "done" ELSE "give"
      /\ lister'.page = hits /\ lister'.marker = m
      /\ lister'.more = IF looked = Beyond(lister.marker) THEN "no" ELSE "yes"
  BY <1>0, <1>2, <1>4, <1>6 DEF Looks, Listers
<1>8. PICK A, C : /\ A = {e \in Entries : e > lister.marker}
                  /\ C = {e \in Entries : e > m}
  OBVIOUS
<1>9. IsFiniteSet(A) /\ C \in SUBSET A /\ looked \in SUBSET A /\ C \cap looked = {}
  <2>1. lister.marker \in Nat /\ \A e \in Entries : e \in Nat
    BY <1>0, MarkerType
  <2>2. A \in SUBSET Entries
    BY <1>8
  <2>3. there \subseteq Entries
    BY <1>0 DEF ListingTyped
  <2>4. \A e \in Entries : e > m => e > lister.marker
    BY <1>5, <2>1
  <2>5. \A e \in looked : e \in Entries /\ e > lister.marker /\ ~(e > m)
    BY <1>5, <2>1, <2>3
  <2> QED BY <1>8, <2>2, <2>4, <2>5, FS_Subset
<1>10. PICK a \in Nat, c \in Nat, l \in Nat :
         a = Cardinality(A) /\ c = Cardinality(C) /\ l = Cardinality(looked) /\ c + l <= a
  BY <1>9, PartsFit
<1>11. PICK h \in Nat : h = Cardinality(hits) /\ h <= l
  <2>1. IsFiniteSet(looked) /\ hits \in SUBSET looked
    BY <1>6, <1>9, FS_Subset
  <2> QED BY <1>10, <2>1, FS_Subset, FS_CardinalityType
<1>12. ListingLeft = 3 * a + 2 /\ Ahead' = c
  BY <1>0, <1>7, <1>8, <1>10 DEF ListingLeft, Ahead
<1>13. CASE PageEnds(hits)
  <2>1. ListingLeft' = 0
    BY <1>7, <1>13 DEF ListingLeft
  <2> QED BY <1>10, <1>12, <2>1
<1>14. CASE ~PageEnds(hits) /\ looked = Beyond(lister.marker)
  <2>1. ListingLeft' = h + 1
    BY <1>7, <1>11, <1>14 DEF ListingLeft
  <2> QED BY <1>10, <1>11, <1>12, <2>1
<1>15. CASE ~PageEnds(hits) /\ looked # Beyond(lister.marker)
  <2>1. ListingLeft' = h + (3 * c + 3)
    BY <1>7, <1>11, <1>12, <1>15 DEF ListingLeft
  <2>2. looked # {}
    BY <1>0, <1>2, <1>3, <1>4, <1>15, LooksAtSome DEF Looks
  <2>3. l > 0
    <3>1. IsFiniteSet(looked)
      BY <1>9, FS_Subset
    <3> QED BY <1>10, <2>2, <3>1, FS_EmptySet
  <2> QED BY <1>10, <1>11, <1>12, <2>1, <2>3
<1> QED BY <1>13, <1>14, <1>15

LEMMA ListerCloser == ListingInv /\ ListerStep => ListingLeft' < ListingLeft
<1> SUFFICES ASSUME ListingInv, ListerStep PROVE ListingLeft' < ListingLeft
  OBVIOUS
<1>1. ListingSized
  BY ListingSizes
<1>2. PICK a \in Nat, n \in Nat : a = Ahead /\ n = Cardinality(lister.page)
  BY <1>1 DEF ListingSized
<1>3. CASE Refused
  <2>1. lister'.pc = "raised" /\ lister.pc = "fetch"
    BY <1>1, <1>3 DEF Refused, ListingSized, Listers
  <2> QED BY <1>2, <2>1 DEF ListingLeft
<1>4. CASE Give
  <2>1. PICK e \in lister.page : e = Min(lister.page)
    <3>1. lister.page \subseteq Nat /\ lister.page # {}
      BY <1>1, <1>4 DEF Give, ListingSized, Listers
    <3> QED BY <3>1, LeastOf
  <2>2. /\ lister'.page = lister.page \ {e} /\ lister'.pc = "give" /\ lister.pc = "give"
        /\ lister'.more = lister.more /\ lister'.marker = lister.marker
    BY <1>1, <1>4, <2>1 DEF Give, ListingSized, Listers
  <2>3. Cardinality(lister'.page) = n - 1
    <3>1. PICK P : P = lister.page /\ IsFiniteSet(P) /\ e \in P
      BY <1>1, <2>1 DEF ListingSized
    <3>2. Cardinality(P \ {e}) = Cardinality(P) - 1
      BY <3>1, FS_RemoveElement
    <3> QED BY <1>2, <2>2, <3>1, <3>2
  <2>4. Ahead' = a
    BY <1>2, <2>2 DEF Ahead
  <2> QED BY <1>2, <2>2, <2>3, <2>4 DEF ListingLeft
<1>5. CASE PageDone
  <2>1. /\ lister.pc = "give" /\ lister'.marker = lister.marker
        /\ lister'.pc = "done" \/ (lister'.pc = "fetch" /\ lister.more # "no")
    BY <1>1, <1>5 DEF PageDone, ListingSized, Listers
  <2>2. Ahead' = a
    BY <1>2, <2>1 DEF Ahead
  <2> QED BY <1>2, <2>1, <2>2 DEF ListingLeft
<1> QED BY <1>3, <1>4, <1>5, FetchMoreCloser DEF ListerStep

\* A listing ends within as many steps of its own as ListingLeft says when it
\* starts, however small the pages, and however much others write meanwhile, more
\* than there were entries at first included (bucketlistresultset.py,
\* queryresultset.py, results.py).
THEOREM ListingBounded ==
    ListingSpec => /\ ListingLeft = 3 * Cardinality(Entries) + 2
                   /\ [][ListingComesCloser]_listingVars
                   /\ []ListingNumbered
<1>1. ListingInit => ListingLeft = 3 * Cardinality(Entries) + 2
  <2> SUFFICES ASSUME ListingInit PROVE ListingLeft = 3 * Cardinality(Entries) + 2
    OBVIOUS
  <2>1. lister.pc = "fetch" /\ lister.marker = 0
    BY DEF ListingInit
  <2>2. {e \in Entries : e > 0} = Entries
    <3>1. \A e \in Entries : e \in Nat /\ e > 0
      BY EntriesAssumption
    <3> QED BY <3>1
  <2> QED BY <2>1, <2>2 DEF ListingLeft, Ahead
<1>2. ListingInv /\ [ListingNext]_listingVars => [ListingComesCloser]_listingVars
  <2> SUFFICES ASSUME ListingInv, ListingNext PROVE ListingComesCloser
    OBVIOUS
  <2>1. CASE ListerStep
    BY <2>1, ListerCloser DEF ListingComesCloser
  <2>2. CASE ~ListerStep
    <3>1. lister' = lister
      BY <2>2 DEF ListingNext, OthersWrite
    <3> QED BY <2>2, <3>1 DEF ListingComesCloser, ListingLeft, Ahead
  <2> QED BY <2>1, <2>2
<1>3. ListingInv => ListingNumbered
  BY ListingSizes, ListingIsNumbered
<1> QED BY <1>1, <1>2, <1>3, ListingInitHolds, ListingStepHolds, PTL DEF ListingSpec

-----------------------------------------------------------------------------
(* The helpers together.                                                   *)

\* One helper is at work, by steps of its own; the others stay.
LEMMA OneHelperSteps ==
    [Next]_vars => /\ [TaskNext]_taskVars /\ [ScheduleNext]_scheduleVars
                   /\ [SequenceNext]_sequenceVars /\ [ListingNext]_listingVars
                   /\ [BatchNext]_batchVars /\ [GetNext]_getVars
                   /\ [SnapshotNext]_snapshotVars /\ [CacheNext]_cacheVars
<1> SUFFICES ASSUME [Next]_vars
             PROVE  /\ [TaskNext]_taskVars /\ [ScheduleNext]_scheduleVars
                    /\ [SequenceNext]_sequenceVars /\ [ListingNext]_listingVars
                    /\ [BatchNext]_batchVars /\ [GetNext]_getVars
                    /\ [SnapshotNext]_snapshotVars /\ [CacheNext]_cacheVars
  OBVIOUS
<1>1. CASE TaskPart
  BY <1>1, Zenon DEF TaskPart
<1>2. CASE SchedulePart
  BY <1>2, Zenon DEF SchedulePart
<1>3. CASE SequencePart
  BY <1>3, Zenon DEF SequencePart
<1>4. CASE ListingPart
  BY <1>4, Zenon DEF ListingPart
<1>5. CASE BatchPart
  BY <1>5, Zenon DEF BatchPart
<1>6. CASE GetPart
  BY <1>6, Zenon DEF GetPart
<1>7. CASE SnapshotPart
  BY <1>7, Zenon DEF SnapshotPart
<1>8. CASE CachePart
  BY <1>8, Zenon DEF CachePart
<1>9. CASE UNCHANGED vars
  BY <1>9 DEF vars
<1> QED BY <1>1, <1>2, <1>3, <1>4, <1>5, <1>6, <1>7, <1>8, <1>9 DEF Next

\* The run that checks the helpers together checks each as it is: its
\* behaviours, seen from one helper, are behaviours of that helper.
THEOREM EachHelper ==
    Spec => /\ TaskSpec /\ ScheduleSpec /\ SequenceSpec /\ ListingSpec
            /\ BatchSpec /\ GetSpec /\ SnapshotSpec /\ CacheSpec
<1>1. Init => /\ TaskInit /\ ScheduleInit /\ SequenceInit /\ ListingInit
              /\ BatchInit /\ GetInit /\ SnapshotInit /\ CacheInit
  BY Zenon DEF Init
<1> QED
  BY <1>1, OneHelperSteps, PTL
  DEF Spec, TaskSpec, ScheduleSpec, SequenceSpec, ListingSpec, BatchSpec, GetSpec,
      SnapshotSpec, CacheSpec

\* Types of all helpers, whichever is at work.
THEOREM HelpersTyping == Spec => []TypeOK
<1>1. /\ TaskTypeOK /\ ScheduleTypeOK /\ SequenceTypeOK /\ ListingTypeOK
      /\ BatchTypeOK /\ GetTypeOK /\ SnapshotTypeOK /\ CacheTypeOK
      => TypeOK
  BY DEF TypeOK
<1> QED
  BY <1>1, EachHelper, TaskTyping, ScheduleTyping, SequenceTyping, ListingTyping,
     BatchTyping, GetTyping, SnapshotTyping, CacheTyping, PTL

\* What the helpers promise, each of its own, holds of all.
THEOREM HelpersAreRight ==
    Spec => /\ [](TaskKept /\ ListedAll /\ BlockWritesAll /\ GotAll /\ TrimsRight)
            /\ CountsUp /\ KeepsTime /\ KeepsRecent
  BY EachHelper, TaskIsKept, NoIncrementLost, AllListed, AllWritten, AllGot, TaskOnTime,
     TrimmingIsRight, CacheIsLRU, PTL
=============================================================================
