--------------------------- MODULE GlacierProofs ---------------------------
(***************************************************************************)
(* That Glacier gets, and gives, every part of an archive, for any threads *)
(* and sizes.                                                              *)
(*                                                                         *)
(* Of the writer: what was given is the parts whose hashes were entered    *)
(* and then the buffer, as long as no part failed.                         *)
(*                                                                         *)
(* Of the concurrent transfer: a part is at one place at a time, in the    *)
(* worker queue, with a thread, in the result queue or among the hashes;   *)
(* so the results that were counted are of as many parts.  That no thread  *)
(* waits in vain rests on the order of the worker queue: a sentinel for    *)
(* each thread that has begun, after the parts.                            *)
(*                                                                         *)
(* And of the transfers together: only the one chosen does anything, so    *)
(* what holds of each holds of MCTransfers.                                *)
(***************************************************************************)
EXTENDS MCTransfers, ResumableProofs, SequenceTheorems, FiniteSetTheorems,
        WellFoundedInduction, TLAPS

LEMMA LeastOf ==
    ASSUME NEW S, S \subseteq Nat, S # {}
    PROVE  Min(S) \in S /\ \A x \in S : Min(S) <= x
<1>1. \E x \in S : \A y \in S : ~(<<y, x>> \in OpToRel(<, Nat))
  BY NatLessThanWellFounded, WFMin
<1>2. \E x \in S : \A y \in S : ~(y < x)
  BY <1>1 DEF OpToRel
<1>3. \E x \in S : \A y \in S : x <= y
  BY <1>2
<1> QED BY <1>3 DEF Min

-----------------------------------------------------------------------------
(* What FlattenSeq is: it is defined by a recursive function, so a fact on *)
(* all sequences is shown of the least index where it would fail.          *)

\* The sequences before the i-th, one after another.
Flattens(f, s) == /\ f[0] = <<>>
                  /\ \A i \in 1..Len(s) : f[i] = f[i - 1] \o s[i]

LEMMA FlattensExists ==
    ASSUME NEW S, NEW s \in Seq(Seq(S))
    PROVE  \E f \in [0..Len(s) -> Seq(S)] : Flattens(f, s)
<1> DEFINE Upto(n) == \E f \in [0..n -> Seq(S)] :
                         f[0] = <<>> /\ \A i \in 1..n : f[i] = f[i - 1] \o s[i]
           Bad     == {n \in 0..Len(s) : ~Upto(n)}
<1>0. Len(s) \in Nat /\ \A i \in 1..Len(s) : s[i] \in Seq(S)
  BY LenProperties, ElementOfSeq
<1>1. Upto(0)
  <2> DEFINE f == [i \in 0..0 |-> <<>>]
  <2>1. f \in [0..0 -> Seq(S)] /\ f[0] = <<>>
    BY EmptySeq
  <2>2. \A i \in 1..0 : f[i] = f[i - 1] \o s[i]
    OBVIOUS
  <2> HIDE DEF f
  <2> QED BY <2>1, <2>2
<1>2. ASSUME NEW n \in 0..Len(s) - 1, Upto(n) PROVE Upto(n + 1)
  <2>1. PICK f \in [0..n -> Seq(S)] :
                f[0] = <<>> /\ \A i \in 1..n : f[i] = f[i - 1] \o s[i]
    BY <1>2
  <2> DEFINE g == [i \in 0..n + 1 |-> IF i = n + 1 THEN f[n] \o s[n + 1] ELSE f[i]]
  <2>2. n + 1 \in 1..Len(s) /\ n \in 0..n /\ n \in Nat
    BY <1>0
  <2>3. f[n] \o s[n + 1] \in Seq(S)
    BY <1>0, <2>2, ConcatProperties
  <2>4. \A i \in 0..n + 1 : i = n + 1 \/ i \in 0..n
    BY <2>2
  <2>5. g \in [0..n + 1 -> Seq(S)]
    BY <2>3, <2>4
  <2>6. g[0] = <<>>
    BY <2>1, <2>2
  <2>7. ASSUME NEW i \in 1..n + 1 PROVE g[i] = g[i - 1] \o s[i]
    <3>1. i \in 0..n + 1 /\ i - 1 \in 0..n + 1 /\ i - 1 # n + 1
      BY <2>2
    <3>2. CASE i = n + 1
      BY <3>1, <3>2
    <3>3. CASE i # n + 1
      <4>1. i \in 1..n
        BY <2>2, <3>3
      <4> QED BY <2>1, <3>1, <3>3, <4>1
    <3> QED BY <3>2, <3>3
  <2> HIDE DEF g
  <2> QED BY <2>5, <2>6, <2>7
<1> HIDE DEF Upto
<1>3. Bad = {}
  <2> SUFFICES ASSUME Bad # {} PROVE FALSE
    OBVIOUS
  <2>1. Bad \subseteq Nat /\ Bad # {}
    BY <1>0
  <2>2. PICK n \in Bad : \A x \in Bad : n <= x
    BY <2>1, LeastOf
  <2>3. n # 0
    BY <1>1, <2>2
  <2>4. n - 1 \in 0..Len(s) - 1 /\ n - 1 + 1 = n /\ n - 1 \in 0..Len(s) /\ ~(n <= n - 1)
    BY <1>0, <2>2, <2>3
  <2>5. Upto(n - 1)
    BY <2>2, <2>4
  <2>6. Upto(n - 1 + 1)
    BY <1>2, <2>4, <2>5
  <2> QED BY <2>2, <2>4, <2>6
<1>4. Upto(Len(s))
  <2>1. Len(s) \in 0..Len(s)
    BY <1>0
  <2> QED BY <1>3, <2>1
<1> QED BY <1>4 DEF Flattens, Upto

LEMMA FlattenIs ==
    ASSUME NEW S, NEW s \in Seq(Seq(S)), NEW f \in [0..Len(s) -> Seq(S)], Flattens(f, s)
    PROVE  FlattenSeq(s) = f[Len(s)]
<1>0. Len(s) \in Nat /\ \A i \in 1..Len(s) : s[i] \in Seq(S)
  BY LenProperties, ElementOfSeq
<1>1. CASE Len(s) = 0
  BY <1>1, EmptySeq DEF FlattenSeq, Flattens
<1>2. CASE Len(s) # 0
  <2> DEFINE Flat(g) == g = [i \in 1..Len(s) |-> IF i = 1 THEN s[i] ELSE g[i - 1] \o s[i]]
             h == [i \in 1..Len(s) |-> f[i]]
             g == CHOOSE g : Flat(g)
             Bad == {i \in 1..Len(s) : g[i] # f[i]}
  <2>1. FlattenSeq(s) = g[Len(s)]
    BY <1>2 DEF FlattenSeq
  <2>2. f[1] = s[1]
    <3>1. 1 \in 1..Len(s) /\ 1 - 1 = 0
      BY <1>0, <1>2
    <3>2. f[1] = <<>> \o s[1] /\ s[1] \in Seq(S)
      BY <1>0, <3>1 DEF Flattens
    <3> QED BY <3>2, ConcatEmptySeq
  <2>3. Flat(h)
    <3>1. ASSUME NEW i \in 1..Len(s)
          PROVE  f[i] = IF i = 1 THEN s[i] ELSE h[i - 1] \o s[i]
      <4>1. CASE i = 1
        BY <2>2, <4>1
      <4>2. CASE i # 1
        <5>1. i - 1 \in 1..Len(s)
          BY <1>0, <4>2
        <5> QED BY <4>2, <5>1 DEF Flattens
      <4> QED BY <4>1, <4>2
    <3> QED BY <3>1
  <2>4. Flat(g)
    <3> HIDE DEF Flat, h
    <3> QED BY <2>3
  <2>5. Bad = {}
    <3> SUFFICES ASSUME Bad # {} PROVE FALSE
      OBVIOUS
    <3> HIDE DEF g
    <3>1. Bad \subseteq Nat /\ Bad # {}
      BY <1>0
    <3>2. PICK n \in Bad : \A x \in Bad : n <= x
      BY <3>1, LeastOf
    <3>3. n # 1
      BY <2>2, <2>4, <3>2
    <3>4. n \in 1..Len(s) /\ n - 1 \in 1..Len(s) /\ ~(n <= n - 1)
      BY <1>0, <3>2, <3>3
    <3>5. g[n - 1] = f[n - 1]
      BY <3>2, <3>4
    <3>6. g[n] = g[n - 1] \o s[n]
      BY <2>4, <3>2, <3>3
    <3> QED BY <3>2, <3>5, <3>6 DEF Flattens
  <2> HIDE DEF g
  <2>6. Len(s) \in 1..Len(s)
    BY <1>0, <1>2
  <2> QED BY <2>1, <2>5, <2>6
<1> QED BY <1>1, <1>2

\* What is before an element is the same for sequences that are the same up to it.
Agree(s, t, m) == /\ Len(s) \in Nat /\ Len(t) \in Nat /\ m <= Len(s) /\ m <= Len(t)
                  /\ \A i \in 1..m : s[i] = t[i]

LEMMA FlattensSame ==
    ASSUME NEW s, NEW t, NEW f, NEW g, Flattens(f, s), Flattens(g, t),
           NEW m \in Nat, Agree(s, t, m)
    PROVE  f[m] = g[m]
<1> DEFINE Bad == {i \in 0..m : f[i] # g[i]}
<1> SUFFICES ASSUME Bad # {} PROVE FALSE
  OBVIOUS
<1>1. Bad \subseteq Nat /\ Bad # {}
  OBVIOUS
<1>2. PICK n \in Bad : \A x \in Bad : n <= x
  BY <1>1, LeastOf
<1>3. n # 0
  BY <1>2 DEF Flattens
<1>4. /\ n \in 1..m /\ n \in 1..Len(s) /\ n \in 1..Len(t) /\ n - 1 \in 0..m
      /\ ~(n <= n - 1)
  BY <1>2, <1>3 DEF Agree
<1>5. f[n - 1] = g[n - 1]
  BY <1>2, <1>4
<1>6. f[n] = f[n - 1] \o s[n] /\ g[n] = g[n - 1] \o t[n] /\ s[n] = t[n]
  BY <1>4 DEF Flattens, Agree
<1> QED BY <1>2, <1>5, <1>6

LEMMA FlattenAppend ==
    ASSUME NEW S, NEW s \in Seq(Seq(S)), NEW x \in Seq(S)
    PROVE  /\ FlattenSeq(s) \in Seq(S)
           /\ FlattenSeq(Append(s, x)) = FlattenSeq(s) \o x
<1>1. PICK n \in Nat : n = Len(s)
  BY LenProperties
<1>2. PICK t \in Seq(Seq(S)) : t = Append(s, x)
  BY AppendProperties
<1>3. Len(t) = n + 1 /\ t[n + 1] = x /\ \A i \in 1..n : s[i] = t[i]
  <2>1. /\ Len(Append(s, x)) = Len(s) + 1
        /\ \A i \in 1..Len(s) : Append(s, x)[i] = s[i]
        /\ Append(s, x)[Len(s) + 1] = x
    BY AppendProperties
  <2> QED BY <1>1, <1>2, <2>1
<1>4. PICK f \in [0..n -> Seq(S)] : Flattens(f, s) /\ FlattenSeq(s) = f[n]
  BY <1>1, FlattensExists, FlattenIs
<1>5. PICK g \in [0..n + 1 -> Seq(S)] : Flattens(g, t) /\ FlattenSeq(t) = g[n + 1]
  BY <1>3, FlattensExists, FlattenIs, ZenonT(60)
<1>6. n \in 0..n /\ n + 1 \in 1..n + 1 /\ n <= n + 1 /\ n + 1 - 1 = n
  OBVIOUS
<1>7. f[n] = g[n]
  <2>1. Agree(s, t, n)
    BY <1>1, <1>3 DEF Agree
  <2> QED BY <1>1, <1>4, <1>5, <2>1, FlattensSame
<1>8. g[n + 1] = g[n] \o x
  <2>1. PICK k \in Nat : k = n + 1
    OBVIOUS
  <2>2. k \in 1..Len(t) /\ t[k] = x /\ k - 1 = n
    BY <1>3, <2>1
  <2>3. g[k] = g[k - 1] \o t[k]
    BY <1>5, <2>2 DEF Flattens
  <2> QED BY <2>1, <2>2, <2>3
<1> QED BY <1>2, <1>4, <1>5, <1>6, <1>7, <1>8

\* Parts that are not empty, and have no more than the first of them have, are no more.
LEMMA FlattenPrefix ==
    ASSUME NEW S, NEW s \in Seq(Seq(S)), NEW t \in Seq(Seq(S)), Len(s) <= Len(t),
           \A i \in 1..Len(s) : s[i] = t[i], \A i \in 1..Len(t) : Len(t[i]) # 0,
           FlattenSeq(s) = FlattenSeq(t)
    PROVE  Len(s) = Len(t)
<1>1. PICK m \in Nat, n \in Nat : m = Len(s) /\ n = Len(t) /\ m <= n
  BY LenProperties
<1>2. PICK f \in [0..m -> Seq(S)] : Flattens(f, s) /\ FlattenSeq(s) = f[m]
  BY <1>1, FlattensExists, FlattenIs
<1>3. PICK g \in [0..n -> Seq(S)] : Flattens(g, t) /\ FlattenSeq(t) = g[n]
  BY <1>1, FlattensExists, FlattenIs
<1>4. f[m] = g[m]
  <2>1. Agree(s, t, m)
    BY <1>1 DEF Agree
  <2> QED BY <1>1, <1>2, <1>3, <2>1, FlattensSame
<1>5. PICK L \in [0..n -> Nat] : \A i \in 0..n : L[i] = Len(g[i])
  <2>1. \A i \in 0..n : Len(g[i]) \in Nat
    BY <1>3, LenProperties
  <2>2. [i \in 0..n |-> Len(g[i])] \in [0..n -> Nat]
    BY <2>1
  <2> QED BY <2>2
<1>6. ASSUME NEW i \in 1..n PROVE L[i - 1] < L[i]
  <2>1. i - 1 \in 0..n /\ i \in 0..n
    OBVIOUS
  <2>2. g[i] = g[i - 1] \o t[i] /\ t[i] \in Seq(S) /\ Len(t[i]) # 0
    BY <1>1, <1>3, ElementOfSeq DEF Flattens
  <2>3. PICK k \in Nat : k = Len(t[i]) /\ k # 0
    BY <2>2, LenProperties
  <2>4. Len(g[i]) = Len(g[i - 1]) + Len(t[i])
    BY <1>3, <2>1, <2>2, ConcatProperties
  <2>5. L[i] = L[i - 1] + k
    BY <1>5, <2>1, <2>3, <2>4
  <2> QED BY <1>5, <2>1, <2>3, <2>5, SMTT(60)
<1>7. L[n] = L[m] /\ m \in 0..n /\ n \in 0..n
  <2>1. m \in 0..n /\ n \in 0..n
    BY <1>1
  <2>2. g[n] = g[m]
    BY <1>2, <1>3, <1>4
  <2> QED BY <1>5, <2>1, <2>2
<1> DEFINE Bad == {i \in 0..n : m < i /\ L[i] <= L[m]}
<1>8. Bad = {}
  <2> SUFFICES ASSUME Bad # {} PROVE FALSE
    OBVIOUS
  <2>1. PICK i \in Bad : \A x \in Bad : i <= x
    <3>1. Bad \subseteq Nat
      BY <1>1
    <3> QED BY <3>1, LeastOf
  <2>2. i \in 1..n /\ i - 1 \in 0..n /\ ~(i <= i - 1) /\ (i - 1 = m \/ m < i - 1)
    BY <1>1, <2>1
  <2>3. L[i - 1] < L[i] /\ L[i] <= L[m]
    BY <1>6, <2>1, <2>2
  <2>4. i - 1 # m /\ L[i - 1] <= L[m]
    <3>1. PICK a \in Nat, b \in Nat, c \in Nat : a = L[i - 1] /\ b = L[i] /\ c = L[m]
      BY <1>7, <2>1, <2>2
    <3>2. a < b /\ b <= c
      BY <2>3, <3>1
    <3>3. a <= c /\ a # c
      BY <3>2
    <3> QED BY <3>1, <3>3
  <2> QED BY <2>1, <2>2, <2>4
<1>9. ~(m < n)
  <2>1. L[n] <= L[m]
    <3>1. PICK a \in Nat : a = L[n]
      BY <1>7
    <3> QED BY <1>7, <3>1
  <2> QED BY <1>7, <1>8, <2>1
<1> QED BY <1>1, <1>9

-----------------------------------------------------------------------------
(* The writer.                                                             *)

ByteStrings == Nat \X Nat
WriterPlaces == {"idle", "write", "flush", "complete", "closed", "raised", "resume"}

WriterTyped ==
    /\ source \in [rev : 0..MaxRevision, len : 1..MaxData, at : 0..MaxData]
    /\ source.at <= source.len
    /\ writer \in [pc : WriterPlaces, next : Nat \ {0}]
    /\ buffer \in Seq(ByteStrings) /\ given \in Seq(ByteStrings)
    /\ hashes \in Seq(Seq(ByteStrings)) /\ writer.next <= Len(hashes) + 1
    /\ sent \in Seq(Seq(ByteStrings)) /\ writer.next <= Len(sent) + 1
    /\ \A i \in 1..Len(sent) : Len(sent[i]) \in 1..PartSize
    /\ size \in Nat /\ size + Len(buffer) <= Len(given)
    /\ ignored \in BOOLEAN

\* Where the last part may be a short one.
AtEnd == /\ buffer = <<>>
         /\ \/ writer.pc \in {"flush", "complete"}
            \/ writer.pc = "resume" /\ source.at = source.len

\* What was given is what was sent and what is in the buffer, as long as no part
\* failed.
WriterAgrees ==
    ~ignored /\ writer.pc \notin {"raised", "closed"} =>
        /\ writer.next = Len(hashes) + 1
        /\ given = FlattenSeq(hashes) \o buffer
        /\ \A i \in 1..Len(hashes) : /\ sent[i] = hashes[i]
                                     /\ Len(hashes[i]) = PartSize
                                        \/ (i = Len(hashes) /\ AtEnd)
        /\ writer.pc \in {"resume", "complete"} => buffer = <<>>

Archived ==
    archive # NoArchive => writer.pc \in {"closed", "raised"} /\ ArchiveIsGiven

WriterInv == WriterTyped /\ WriterAgrees /\ Archived

LEMMA FlattenEmpty == FlattenSeq(<<>>) = <<>>
  BY EmptySeq DEF FlattenSeq

LEMMA WriterInitHolds == WriterInit => WriterInv
<1> SUFFICES ASSUME WriterInit PROVE WriterInv
  OBVIOUS
<1>1. \A S : <<>> \in Seq(S) /\ Len(<<>>) = 0
  BY EmptySeq
<1>2. WriterTyped
  <2>1. 0 \in 0..MaxRevision /\ 0 \in 0..MaxData
    BY WriterAssumption
  <2>2. /\ source \in [rev : 0..MaxRevision, len : 1..MaxData, at : 0..MaxData]
        /\ source.at <= source.len
    BY <2>1 DEF WriterInit
  <2>3. writer \in [pc : WriterPlaces, next : Nat \ {0}] /\ writer.next = 1
    BY DEF WriterInit, WriterPlaces
  <2>4. /\ <<>> \in Seq(ByteStrings) /\ <<>> \in Seq(Seq(ByteStrings)) /\ Len(<<>>) = 0
        /\ \A i \in 1..0 : Len(sent[i]) \in 1..PartSize
    BY <1>1
  <2>5. size + Len(buffer) <= Len(given) /\ size \in Nat
    BY <2>4 DEF WriterInit
  <2>6. \A i \in 1..Len(sent) : Len(sent[i]) \in 1..PartSize
    BY <2>4 DEF WriterInit
  <2>7. writer.next <= Len(hashes) + 1 /\ writer.next <= Len(sent) + 1
    BY <2>3, <2>4 DEF WriterInit
  <2> QED BY <2>2, <2>3, <2>4, <2>5, <2>6, <2>7 DEF WriterInit, WriterTyped
<1>3. <<>> = FlattenSeq(<<>>) \o <<>>
  BY <1>1, FlattenEmpty, ConcatEmptySeq
<1>4. WriterAgrees
  BY <1>1, <1>3 DEF WriterInit, WriterAgrees
<1>5. Archived
  BY DEF WriterInit, Archived
<1> QED BY <1>2, <1>4, <1>5 DEF WriterInv

\* The next n bytes of the caller's.
LEMMA DataType ==
    ASSUME source.rev \in Nat, source.at \in Nat, NEW n \in Nat
    PROVE  /\ Data(source.at + 1, source.at + n) \in Seq(ByteStrings)
           /\ Len(Data(source.at + 1, source.at + n)) = n
<1>1. PICK d : d = Data(source.at + 1, source.at + n)
  OBVIOUS
<1>2. source.at + n + 1 - (source.at + 1) = n
  OBVIOUS
<1>3. d = [i \in 1..n |-> <<source.rev, source.at + 1 + i - 1>>]
  BY <1>1, <1>2 DEF Data
<1>4. \A i \in 1..n : <<source.rev, source.at + 1 + i - 1>> \in ByteStrings
  BY DEF ByteStrings
<1>5. d \in [1..n -> ByteStrings] /\ DOMAIN d = 1..n
  BY <1>3, <1>4
<1>6. d \in Seq(ByteStrings)
  BY <1>5, SeqDef
<1>7. Len(d) = n
  BY <1>5, <1>6, LenProperties
<1> QED BY <1>1, <1>6, <1>7

HasPut(t, s, n, i, x) == /\ Len(t) = IF i = n + 1 THEN n + 1 ELSE n
                         /\ t[i] = x
                         /\ \A j \in 1..n : j # i => t[j] = s[j]

LEMMA PutAtType ==
    ASSUME NEW S, NEW s \in Seq(S), NEW n \in Nat, n = Len(s), NEW i \in 1..n + 1, NEW x \in S
    PROVE  PutAt(s, i, x) \in Seq(S) /\ HasPut(PutAt(s, i, x), s, n, i, x)
<1>1. CASE i = n + 1
  <2>1. PutAt(s, i, x) = Append(s, x)
    BY <1>1 DEF PutAt
  <2>2. /\ Append(s, x) \in Seq(S) /\ Len(Append(s, x)) = Len(s) + 1
        /\ \A j \in 1..Len(s) : Append(s, x)[j] = s[j]
        /\ Append(s, x)[Len(s) + 1] = x
    BY AppendProperties
  <2> QED BY <1>1, <2>1, <2>2 DEF HasPut
<1>2. CASE i # n + 1
  <2>1. i \in 1..Len(s) /\ ~(i > Len(s))
    BY <1>2
  <2>2. PutAt(s, i, x) = [s EXCEPT ![i] = x]
    BY <2>1 DEF PutAt
  <2>3. /\ [s EXCEPT ![i] = x] \in Seq(S)
        /\ Len([s EXCEPT ![i] = x]) = Len(s)
        /\ \A j \in 1..Len(s) : [s EXCEPT ![i] = x][j] = IF j = i THEN x ELSE s[j]
    BY <2>1, ExceptSeq
  <2> QED BY <1>2, <2>1, <2>2, <2>3 DEF HasPut
<1> QED BY <1>1, <1>2

\* The hash of a part is entered, and Glacier has it or not.
LEMMA PartGoes ==
    ASSUME WriterTyped, NEW part \in Seq(ByteStrings), Len(part) \in 1..PartSize,
           hashes' = PutAt(hashes, writer.next, part),
           sent' \in {sent, PutAt(sent, writer.next, part)}
    PROVE  /\ hashes' \in Seq(Seq(ByteStrings)) /\ writer.next <= Len(hashes')
           /\ sent' \in Seq(Seq(ByteStrings)) /\ Len(sent) <= Len(sent')
           /\ sent' = PutAt(sent, writer.next, part) => writer.next <= Len(sent')
           /\ \A i \in 1..Len(sent') : Len(sent'[i]) \in 1..PartSize
<1>1. PICK i \in Nat, m \in Nat, n \in Nat :
           i = writer.next /\ m = Len(hashes) /\ n = Len(sent)
  BY LenProperties DEF WriterTyped
<1>2. i \in 1..m + 1 /\ i \in 1..n + 1
  BY <1>1 DEF WriterTyped
<1>3. /\ hashes' \in Seq(Seq(ByteStrings)) /\ Len(hashes') = IF i = m + 1 THEN m + 1 ELSE m
  <2>1. HasPut(hashes', hashes, m, i, part) /\ hashes' \in Seq(Seq(ByteStrings))
    <3>1. PICK S : S = Seq(ByteStrings)
      OBVIOUS
    <3> QED BY <1>1, <1>2, <3>1, PutAtType DEF WriterTyped
  <2> QED BY <2>1 DEF HasPut
<1>4. PICK t : t = PutAt(sent, i, part)
  OBVIOUS
<1>5. /\ t \in Seq(Seq(ByteStrings)) /\ Len(t) = IF i = n + 1 THEN n + 1 ELSE n
      /\ t[i] = part /\ \A j \in 1..n : j # i => t[j] = sent[j]
  <2>1. HasPut(t, sent, n, i, part) /\ t \in Seq(Seq(ByteStrings))
    <3>1. PICK S : S = Seq(ByteStrings)
      OBVIOUS
    <3> QED BY <1>1, <1>2, <1>4, <3>1, PutAtType DEF WriterTyped
  <2> QED BY <2>1 DEF HasPut
<1>6. \A j \in 1..Len(t) : Len(t[j]) \in 1..PartSize
  <2> SUFFICES ASSUME NEW j \in 1..Len(t) PROVE Len(t[j]) \in 1..PartSize
    OBVIOUS
  <2>1. CASE j = i
    BY <1>5, <2>1
  <2>2. CASE j # i
    <3>1. j \in 1..n
      BY <1>2, <1>5, <2>2
    <3> QED BY <1>1, <1>5, <2>2, <3>1 DEF WriterTyped
  <2> QED BY <2>1, <2>2
<1>7. i <= Len(hashes') /\ i <= Len(t) /\ n <= Len(t)
  BY <1>2, <1>3, <1>5
<1>8. CASE sent' = sent
  <2>1. n <= n
    OBVIOUS
  <2> QED BY <1>1, <1>3, <1>4, <1>7, <1>8, <2>1 DEF WriterTyped
<1>9. CASE sent' = t
  BY <1>1, <1>3, <1>4, <1>5, <1>6, <1>7, <1>9
<1> QED BY <1>1, <1>4, <1>8, <1>9

\* The next part, which Glacier has now.
LEMMA PartEntered ==
    ASSUME WriterTyped, NEW part \in Seq(ByteStrings), writer.next = Len(hashes) + 1,
           \A i \in 1..Len(hashes) : sent[i] = hashes[i],
           hashes' = PutAt(hashes, writer.next, part),
           \/ sent' = PutAt(sent, writer.next, part)
           \/ sent' = sent /\ Skips(writer.next, part)
    PROVE  /\ Len(hashes') = Len(hashes) + 1
           /\ FlattenSeq(hashes') = FlattenSeq(hashes) \o part
           /\ \A i \in 1..Len(hashes') : sent'[i] = hashes'[i]
           /\ \A i \in 1..Len(hashes) : hashes'[i] = hashes[i]
           /\ hashes'[writer.next] = part
<1>1. PICK m \in Nat, n \in Nat : m = Len(hashes) /\ n = Len(sent)
  BY LenProperties DEF WriterTyped
<1>2. writer.next = m + 1 /\ m + 1 \in 1..m + 1 /\ m + 1 \in 1..n + 1
  BY <1>1 DEF WriterTyped
<1>3. /\ Len(hashes') = m + 1 /\ hashes'[m + 1] = part
      /\ \A j \in 1..m : j # m + 1 => hashes'[j] = hashes[j]
  <2>1. HasPut(hashes', hashes, m, m + 1, part)
    <3>1. PICK S : S = Seq(ByteStrings)
      OBVIOUS
    <3> QED BY <1>1, <1>2, <3>1, PutAtType DEF WriterTyped
  <2> QED BY <2>1 DEF HasPut
<1>4. \A j \in 1..m : hashes'[j] = hashes[j] /\ j \in 1..n /\ j # m + 1
  BY <1>2, <1>3
<1>5. hashes' = Append(hashes, part)
  BY <1>1, <1>2 DEF PutAt
<1>6. FlattenSeq(hashes') = FlattenSeq(hashes) \o part
  BY <1>5, FlattenAppend DEF WriterTyped
<1>7. sent'[m + 1] = part /\ \A j \in 1..m : sent'[j] = sent[j]
  <2>1. CASE sent' = sent /\ Skips(writer.next, part)
    BY <1>2, <2>1 DEF Skips
  <2>2. CASE sent' = PutAt(sent, writer.next, part)
    <3>1. HasPut(sent', sent, n, m + 1, part)
      <4>1. PICK S : S = Seq(ByteStrings)
        OBVIOUS
      <4> QED BY <1>1, <1>2, <2>2, <4>1, PutAtType DEF WriterTyped
    <3> QED BY <1>4, <3>1 DEF HasPut
  <2> QED BY <2>1, <2>2
<1>8. \A j \in 1..m + 1 : sent'[j] = hashes'[j]
  <2>1. \A j \in 1..m + 1 : j = m + 1 \/ j \in 1..m
    OBVIOUS
  <2> QED BY <1>1, <1>3, <1>4, <1>7, <2>1
<1> QED BY <1>1, <1>2, <1>3, <1>4, <1>6, <1>8

\* A place the writer goes to.
LEMMA ToType ==
    ASSUME WriterTyped, NEW pc \in WriterPlaces, To(pc)
    PROVE  /\ writer' \in [pc : WriterPlaces, next : Nat \ {0}]
           /\ writer'.pc = pc /\ writer'.next = writer.next
  BY DEF WriterTyped, To

\* Only the writer's place changes.
LEMMA GoesTyped ==
    ASSUME WriterTyped, NEW pc \in WriterPlaces, To(pc), ignored' \in BOOLEAN,
           UNCHANGED <<source, buffer, hashes, size, sent, given>>
    PROVE  WriterTyped'
<1>1. writer' \in [pc : WriterPlaces, next : Nat \ {0}] /\ writer'.next = writer.next
  BY ToType
<1> QED BY <1>1 DEF WriterTyped

LEMMA WriteKeeps == WriterInv /\ Write => WriterInv'
<1> SUFFICES ASSUME WriterInv, Write PROVE WriterInv'
  OBVIOUS
<1>1. PICK n \in 1..source.len - source.at :
           /\ source' = [source EXCEPT !.at = @ + n]
           /\ buffer' = buffer \o Data(source.at + 1, source.at + n)
           /\ given' = given \o Data(source.at + 1, source.at + n)
  BY Zenon DEF Write
<1>2. /\ source.rev \in Nat /\ source.at \in Nat /\ source.len \in Nat
      /\ source.at <= source.len /\ source.len <= MaxData /\ n \in Nat
  BY WriterAssumption DEF WriterInv, WriterTyped
<1>3. PICK new \in Seq(ByteStrings) : new = Data(source.at + 1, source.at + n) /\ Len(new) = n
  BY <1>2, DataType
<1>4. /\ writer' \in [pc : WriterPlaces, next : Nat \ {0}]
      /\ writer'.pc = "write" /\ writer'.next = writer.next /\ writer.pc = "idle"
      /\ UNCHANGED <<hashes, size, sent, archive, ignored>>
  BY ToType DEF Write, WriterInv, WriterPlaces
<1>5. /\ buffer' = buffer \o new /\ given' = given \o new
      /\ buffer' \in Seq(ByteStrings) /\ given' \in Seq(ByteStrings)
      /\ Len(buffer') = Len(buffer) + n /\ Len(given') = Len(given) + n
      /\ Len(buffer) \in Nat /\ Len(given) \in Nat
  <2>1. buffer' = buffer \o new /\ given' = given \o new
    BY <1>1, <1>3
  <2>2. buffer \in Seq(ByteStrings) /\ given \in Seq(ByteStrings)
    BY DEF WriterInv, WriterTyped
  <2>3. Len(buffer) \in Nat /\ Len(given) \in Nat
    BY <2>2, LenProperties
  <2>4. buffer \o new \in Seq(ByteStrings) /\ Len(buffer \o new) = Len(buffer) + Len(new)
    BY <1>3, <2>2, ConcatProperties
  <2>5. given \o new \in Seq(ByteStrings) /\ Len(given \o new) = Len(given) + Len(new)
    BY <1>3, <2>2, ConcatProperties
  <2> QED BY <1>3, <2>1, <2>3, <2>4, <2>5
<1>6. /\ source' \in [rev : 0..MaxRevision, len : 1..MaxData, at : 0..MaxData]
      /\ source'.at <= source'.len
  <2>1. source.at + n \in 0..MaxData /\ source.at + n <= source.len
    BY <1>1, <1>2, WriterAssumption, SMTT(60)
  <2> QED BY <1>1, <2>1 DEF WriterInv, WriterTyped
<1>7. size' + Len(buffer') <= Len(given')
  <2>1. size + Len(buffer) <= Len(given) /\ size \in Nat
    BY DEF WriterInv, WriterTyped
  <2> QED BY <1>4, <1>5, <2>1
<1>8. WriterTyped'
  BY <1>4, <1>5, <1>6, <1>7 DEF WriterInv, WriterTyped
<1>9. WriterAgrees'
  <2> SUFFICES ASSUME ~ignored PROVE WriterAgrees'
    BY <1>4 DEF WriterAgrees
  <2>1. /\ writer.next = Len(hashes) + 1 /\ given = FlattenSeq(hashes) \o buffer
        /\ \A i \in 1..Len(hashes) : sent[i] = hashes[i] /\ Len(hashes[i]) = PartSize
    BY <1>4 DEF WriterInv, WriterAgrees, AtEnd
  <2>2. FlattenSeq(hashes) \in Seq(ByteStrings) /\ buffer \in Seq(ByteStrings)
    BY FlattenAppend, EmptySeq DEF WriterInv, WriterTyped
  <2>3. given' = FlattenSeq(hashes) \o buffer'
    <3>1. PICK f \in Seq(ByteStrings) : f = FlattenSeq(hashes)
      BY <2>2
    <3>2. (f \o buffer) \o new = f \o (buffer \o new)
      BY <1>3, <2>2, <3>1, ConcatAssociative
    <3> QED BY <1>5, <2>1, <3>1, <3>2, Zenon
  <2> QED BY <1>4, <2>1, <2>3 DEF WriterAgrees
<1>10. Archived'
  BY <1>4 DEF WriterInv, Archived
<1> QED BY <1>8, <1>9, <1>10 DEF WriterInv

LEMMA WrittenKeeps == WriterInv /\ Written => WriterInv'
<1> SUFFICES ASSUME WriterInv, Written PROVE WriterInv'
  OBVIOUS
<1>1. /\ UNCHANGED <<source, buffer, hashes, size, sent, archive, given, ignored>>
      /\ \/ writer.pc = "write" /\ writer'.pc = "idle"
         \/ writer.pc = "flush" /\ writer'.pc = "complete" /\ buffer = <<>>
      /\ writer'.next = writer.next /\ WriterTyped'
  <2>1. CASE writer.pc = "write"
    BY <2>1, ToType, GoesTyped DEF Written, WriterInv, WriterTyped, WriterPlaces
  <2>2. CASE writer.pc # "write"
    <3>1. writer.pc = "flush" /\ ~(Len(buffer) > 0) /\ To("complete")
      BY <2>2 DEF Written, ToSend
    <3>2. buffer = <<>>
      BY <3>1, EmptySeq DEF WriterInv, WriterTyped
    <3> QED BY <3>1, <3>2, ToType, GoesTyped DEF Written, WriterInv, WriterTyped, WriterPlaces
  <2> QED BY <2>1, <2>2
<1>2. WriterAgrees' /\ Archived'
  BY <1>1 DEF WriterInv, WriterAgrees, AtEnd, Archived
<1> QED BY <1>1, <1>2 DEF WriterInv

LEMMA CloseKeeps == WriterInv /\ Close => WriterInv'
<1> SUFFICES ASSUME WriterInv, Close PROVE WriterInv'
  OBVIOUS
<1>1. /\ UNCHANGED <<source, buffer, hashes, size, sent, archive, given, ignored>>
      /\ writer.pc = "idle" /\ writer'.pc = "flush" /\ writer'.next = writer.next
      /\ WriterTyped'
  BY ToType, GoesTyped DEF Close, WriterInv, WriterTyped, WriterPlaces
<1>2. WriterAgrees' /\ Archived'
  BY <1>1 DEF WriterInv, WriterAgrees, AtEnd, Archived
<1> QED BY <1>1, <1>2 DEF WriterInv

LEMMA ResumedAllKeeps == WriterInv /\ ResumedAll => WriterInv'
<1> SUFFICES ASSUME WriterInv, ResumedAll PROVE WriterInv'
  OBVIOUS
<1>1. /\ UNCHANGED <<source, buffer, hashes, size, sent, archive, given, ignored>>
      /\ writer.pc = "resume" /\ writer'.pc = "complete" /\ writer'.next = writer.next
      /\ WriterTyped'
  BY ToType, GoesTyped DEF ResumedAll, WriterInv, WriterTyped, WriterPlaces
<1>2. WriterAgrees' /\ Archived'
  BY <1>1 DEF WriterInv, WriterAgrees, AtEnd, Archived
<1> QED BY <1>1, <1>2 DEF WriterInv

LEMMA IgnoreKeeps == WriterInv /\ Ignore => WriterInv'
<1> SUFFICES ASSUME WriterInv, Ignore PROVE WriterInv'
  OBVIOUS
<1>1. WriterTyped'
  BY GoesTyped DEF Ignore, WriterInv, WriterPlaces
<1>2. WriterAgrees' /\ Archived'
  BY DEF Ignore, WriterAgrees, Archived
<1> QED BY <1>1, <1>2 DEF WriterInv

LEMMA RestartKeeps == WriterInv /\ Restart => WriterInv'
<1> SUFFICES ASSUME WriterInv, Restart PROVE WriterInv'
  OBVIOUS
<1>1. /\ writer' = [pc |-> "resume", next |-> 1]
      /\ buffer' = <<>> /\ hashes' = <<>> /\ size' = 0 /\ given' = <<>> /\ ignored' = FALSE
      /\ UNCHANGED <<sent, archive>> /\ archive = NoArchive
  BY DEF Restart, StartOver
<1>2. /\ <<>> \in Seq(ByteStrings) /\ <<>> \in Seq(Seq(ByteStrings)) /\ Len(<<>>) = 0
      /\ <<>> = FlattenSeq(<<>>) \o <<>>
  BY FlattenEmpty, EmptySeq, ConcatEmptySeq
<1>3. /\ source' \in [rev : 0..MaxRevision, len : 1..MaxData, at : 0..MaxData]
      /\ source'.at <= source'.len
  <2>1. CASE source' = [source EXCEPT !.at = 0]
    <3>1. /\ source \in [rev : 0..MaxRevision, len : 1..MaxData, at : 0..MaxData]
          /\ 0 \in 0..MaxData
      BY WriterAssumption DEF WriterInv, WriterTyped
    <3>2. 0 <= source.len
      BY <3>1
    <3> QED BY <2>1, <3>1, <3>2
  <2>2. CASE source' \in [rev : {source.rev + 1} \cap 0..MaxRevision,
                         len : 1..MaxData, at : {0}]
    BY <2>2, WriterAssumption
  <2> QED BY <2>1, <2>2 DEF Restart
<1>4. /\ writer' \in [pc : WriterPlaces, next : Nat \ {0}] /\ writer'.pc = "resume"
      /\ writer'.next = 1
  BY <1>1 DEF WriterPlaces
<1>5. Len(sent) \in Nat
  BY LenProperties DEF WriterInv, WriterTyped
<1>6. writer'.next <= Len(hashes') + 1 /\ writer'.next <= Len(sent') + 1
  BY <1>1, <1>2, <1>4, <1>5
<1>7. size' \in Nat /\ size' + Len(buffer') <= Len(given')
  BY <1>1, <1>2
<1>8. WriterTyped'
  BY <1>1, <1>2, <1>3, <1>4, <1>6, <1>7 DEF WriterInv, WriterTyped
<1>9. WriterAgrees' /\ Archived'
  BY <1>1, <1>2, <1>4 DEF WriterAgrees, Archived
<1> QED BY <1>8, <1>9 DEF WriterInv

LEMMA CompleteKeeps == WriterInv /\ CompleteUpload => WriterInv'
<1> SUFFICES ASSUME WriterInv, CompleteUpload PROVE WriterInv'
  OBVIOUS
<1>1. /\ UNCHANGED <<source, buffer, hashes, size, sent, given, ignored>>
      /\ writer.pc = "complete" /\ writer'.pc \in {"closed", "raised"} /\ WriterTyped'
  BY ToType, GoesTyped DEF CompleteUpload, WriterInv, WriterTyped, WriterPlaces
<1>2. WriterAgrees'
  BY <1>1 DEF WriterAgrees
<1>3. Archived'
  <2> SUFFICES ASSUME archive' # NoArchive, ~ignored
               PROVE  /\ archive' = given
                      /\ \A i \in 1..Len(sent) - 1 : Len(sent[i]) = PartSize
    BY <1>1 DEF Archived, ArchiveIsGiven
  <2>1. archive' = FlattenSeq(sent) /\ FlattenSeq(hashes) = FlattenSeq(sent)
    BY DEF CompleteUpload, Matches
  <2>2. /\ writer.next = Len(hashes) + 1 /\ given = FlattenSeq(hashes) \o buffer
        /\ \A i \in 1..Len(hashes) : sent[i] = hashes[i]
        /\ \A i \in 1..Len(hashes) : Len(hashes[i]) = PartSize \/ i = Len(hashes)
        /\ buffer = <<>>
    BY <1>1 DEF WriterInv, WriterAgrees
  <2>3. FlattenSeq(hashes) \in Seq(ByteStrings)
    BY FlattenAppend, EmptySeq DEF WriterInv, WriterTyped
  <2>4. archive' = given
    BY <2>1, <2>2, <2>3, ConcatEmptySeq
  <2>5. PICK m \in Nat, n \in Nat : m = Len(hashes) /\ n = Len(sent)
    BY LenProperties DEF WriterInv, WriterTyped
  <2>6. m <= n /\ \A i \in 1..Len(sent) : Len(sent[i]) # 0
    BY <2>2, <2>5, WriterAssumption DEF WriterInv, WriterTyped
  <2>7. m = n
    <3>1. PICK S : S = ByteStrings
      OBVIOUS
    <3>2. hashes \in Seq(Seq(S)) /\ sent \in Seq(Seq(S))
      BY <3>1 DEF WriterInv, WriterTyped
    <3>3. Len(hashes) <= Len(sent) /\ \A i \in 1..Len(hashes) : hashes[i] = sent[i]
      BY <2>2, <2>5, <2>6
    <3> QED BY <2>1, <2>5, <2>6, <3>2, <3>3, FlattenPrefix
  <2>8. \A i \in 1..n - 1 : i \in 1..m /\ i # m
    BY <2>7
  <2>9. ASSUME NEW i \in 1..n - 1 PROVE Len(sent[i]) = PartSize
    <3>1. sent[i] = hashes[i] /\ Len(hashes[i]) = PartSize
      BY <2>2, <2>5, <2>8
    <3> QED BY <3>1
  <2> QED BY <2>4, <2>5, <2>9
<1> QED BY <1>1, <1>2, <1>3 DEF WriterInv

\* A sequence cut in two.
LEMMA CutInTwo ==
    ASSUME NEW S, NEW s \in Seq(S), NEW m \in Nat, m = Len(s), NEW n \in 1..m
    PROVE  /\ SubSeq(s, 1, n) \in Seq(S) /\ Len(SubSeq(s, 1, n)) = n
           /\ SubSeq(s, n + 1, m) \in Seq(S) /\ Len(SubSeq(s, n + 1, m)) = m - n
           /\ s = SubSeq(s, 1, n) \o SubSeq(s, n + 1, m)
<1>1. \A i \in 1..m : s[i] \in S
  BY ElementOfSeq
<1>2. \A i \in 1..n : s[i] \in S
  BY <1>1
<1>3. \A i \in n + 1..m : s[i] \in S
  BY <1>1
<1>4. SubSeq(s, 1, n) \in Seq(S) /\ Len(SubSeq(s, 1, n)) = n
  BY <1>2, SubSeqProperties
<1>5. SubSeq(s, n + 1, m) \in Seq(S) /\ Len(SubSeq(s, n + 1, m)) = m - n
  BY <1>3, SubSeqProperties
<1>6. SubSeq(s, 1, n) \o SubSeq(s, n + 1, m) = SubSeq(s, 1, m)
  <2>1. 1 \in 1..Len(s) + 1 /\ n \in 1 - 1..Len(s) /\ m \in n..Len(s)
    BY LenProperties
  <2> QED BY <2>1, ConcatAdjacentSubSeq
<1> QED BY <1>4, <1>5, <1>6, SubSeqFull

\* A part that fails is in the hashes, and what was given no longer all sent.
LEMMA SendPartKeeps == WriterInv /\ SendPart => WriterInv'
<1> SUFFICES ASSUME WriterInv, SendPart PROVE WriterInv'
  OBVIOUS
<1>1. PICK b \in Nat, k \in Nat :
           b = Len(buffer) /\ k = Len(given) /\ size \in Nat /\ size + b <= k
  BY LenProperties DEF WriterInv, WriterTyped
<1>2. /\ writer.pc \in {"write", "flush"} /\ b > 0 /\ buffer # <<>>
      /\ writer.pc = "write" => b > PartSize
  BY <1>1, EmptySeq, WriterAssumption DEF SendPart, ToSend
<1>3. PICK n \in 1..b : /\ n = Smaller(PartSize, Len(buffer)) /\ n <= PartSize
                        /\ n = PartSize \/ (n = b /\ writer.pc = "flush")
  BY <1>1, <1>2, WriterAssumption DEF Smaller
<1>4. PICK part, rest : part = SubSeq(buffer, 1, n) /\ rest = SubSeq(buffer, n + 1, b)
  OBVIOUS
<1>5. /\ part \in Seq(ByteStrings) /\ Len(part) = n /\ Len(part) \in 1..PartSize
      /\ rest \in Seq(ByteStrings) /\ Len(rest) = b - n /\ buffer = part \o rest
  <2>1. PICK S : S = ByteStrings /\ buffer \in Seq(S)
    BY DEF WriterInv, WriterTyped
  <2>2. /\ part \in Seq(S) /\ Len(part) = n /\ rest \in Seq(S) /\ Len(rest) = b - n
        /\ buffer = part \o rest
    BY <1>1, <1>4, <2>1, CutInTwo
  <2> QED BY <1>3, <2>1, <2>2
<1>6. /\ buffer' = rest /\ hashes' = PutAt(hashes, writer.next, part)
      /\ UNCHANGED <<source, archive, given, ignored>>
      /\ \/ /\ sent' = PutAt(sent, writer.next, part)
            /\ size' = size + n
            /\ writer' = [writer EXCEPT !.next = @ + 1]
         \/ /\ sent' \in {sent, PutAt(sent, writer.next, part)}
            /\ To("raised")
            /\ UNCHANGED size
  BY <1>1, <1>3, <1>4 DEF SendPart
<1>7. archive = NoArchive
  BY <1>2 DEF WriterInv, Archived
<1>8. /\ hashes' \in Seq(Seq(ByteStrings)) /\ writer.next <= Len(hashes')
      /\ sent' \in Seq(Seq(ByteStrings)) /\ Len(sent) <= Len(sent')
      /\ sent' = PutAt(sent, writer.next, part) => writer.next <= Len(sent')
      /\ \A i \in 1..Len(sent') : Len(sent'[i]) \in 1..PartSize
  BY <1>5, <1>6, PartGoes DEF WriterInv
<1>9. CASE /\ sent' \in {sent, PutAt(sent, writer.next, part)}
           /\ To("raised")
           /\ UNCHANGED size
  <2>1. /\ writer' \in [pc : WriterPlaces, next : Nat \ {0}] /\ writer'.pc = "raised"
        /\ writer'.next = writer.next
    BY <1>9, ToType DEF WriterInv, WriterPlaces
  <2>2. writer'.next <= Len(hashes') + 1 /\ writer'.next <= Len(sent') + 1
    <3>1. PICK a \in Nat, c \in Nat, d \in Nat, e \in Nat :
               a = writer.next /\ c = Len(hashes') /\ d = Len(sent') /\ e = Len(sent)
      BY <1>8, LenProperties DEF WriterInv, WriterTyped
    <3> QED BY <1>8, <2>1, <3>1, SMTT(60) DEF WriterInv, WriterTyped
  <2>3. size' \in Nat /\ size' + Len(buffer') <= Len(given')
    BY <1>1, <1>3, <1>5, <1>6, <1>9
  <2>4. WriterTyped'
    BY <1>5, <1>6, <1>8, <2>1, <2>2, <2>3 DEF WriterInv, WriterTyped
  <2>5. WriterAgrees' /\ Archived'
    BY <1>6, <1>7, <2>1 DEF WriterAgrees, Archived
  <2> QED BY <2>4, <2>5 DEF WriterInv
<1>10. CASE /\ sent' = PutAt(sent, writer.next, part)
            /\ size' = size + n
            /\ writer' = [writer EXCEPT !.next = @ + 1]
  <2>1. /\ writer' \in [pc : WriterPlaces, next : Nat \ {0}] /\ writer'.pc = writer.pc
        /\ writer'.next = writer.next + 1 /\ writer.next \in Nat
    <3>1. writer \in [pc : WriterPlaces, next : Nat \ {0}]
      BY DEF WriterInv, WriterTyped
    <3>2. writer.next \in Nat /\ writer.next + 1 \in Nat \ {0}
      BY <3>1
    <3> QED BY <1>10, <3>1, <3>2
  <2>2. writer'.next <= Len(hashes') + 1 /\ writer'.next <= Len(sent') + 1
    <3>1. PICK a \in Nat, c \in Nat, d \in Nat :
               a = writer.next /\ c = Len(hashes') /\ d = Len(sent')
      BY <1>8, <2>1, LenProperties
    <3> QED BY <1>8, <1>10, <2>1, <3>1
  <2>3. size' \in Nat /\ size' + Len(buffer') <= Len(given')
    BY <1>1, <1>3, <1>5, <1>6, <1>10
  <2>4. WriterTyped'
    BY <1>5, <1>6, <1>8, <2>1, <2>2, <2>3 DEF WriterInv, WriterTyped
  <2>5. WriterAgrees'
    <3> SUFFICES ASSUME ~ignored PROVE WriterAgrees'
      BY <1>6 DEF WriterAgrees
    <3>1. /\ writer.next = Len(hashes) + 1 /\ given = FlattenSeq(hashes) \o buffer
          /\ \A i \in 1..Len(hashes) : sent[i] = hashes[i] /\ Len(hashes[i]) = PartSize
      BY <1>2 DEF WriterInv, WriterAgrees, AtEnd
    <3>2. /\ Len(hashes') = Len(hashes) + 1
          /\ FlattenSeq(hashes') = FlattenSeq(hashes) \o part
          /\ \A i \in 1..Len(hashes') : sent'[i] = hashes'[i]
          /\ \A i \in 1..Len(hashes) : hashes'[i] = hashes[i]
          /\ hashes'[writer.next] = part
      BY <1>5, <1>6, <1>10, <3>1, PartEntered DEF WriterInv
    <3>3. FlattenSeq(hashes) \in Seq(ByteStrings)
      BY FlattenAppend, EmptySeq DEF WriterInv, WriterTyped
    <3>4. given' = FlattenSeq(hashes') \o buffer'
      <4>1. PICK f \in Seq(ByteStrings) : f = FlattenSeq(hashes)
        BY <3>3
      <4>2. (f \o part) \o rest = f \o (part \o rest)
        BY <1>5, <4>1, ConcatAssociative, SMTT(60)
      <4> QED BY <1>5, <1>6, <3>1, <3>2, <4>1, <4>2, Zenon
    <3>5. n = PartSize \/ AtEnd'
      <4>1. n = b => rest = <<>>
        BY <1>5, EmptySeq
      <4> QED BY <1>3, <1>6, <2>1, <4>1 DEF AtEnd
    <3>6. \A i \in 1..Len(hashes') : Len(hashes'[i]) = PartSize \/ (i = Len(hashes') /\ AtEnd')
      <4>1. PICK m \in Nat : m = Len(hashes)
        BY LenProperties DEF WriterInv, WriterTyped
      <4>2. \A i \in 1..m + 1 : i \in 1..m \/ i = m + 1
        OBVIOUS
      <4> QED BY <1>5, <3>1, <3>2, <3>5, <4>1, <4>2
    <3>7. writer'.next = Len(hashes') + 1
      BY <2>1, <3>1, <3>2
    <3> QED BY <1>2, <2>1, <3>2, <3>4, <3>6, <3>7 DEF WriterAgrees
  <2>6. Archived'
    BY <1>6, <1>7 DEF Archived
  <2> QED BY <2>4, <2>5, <2>6 DEF WriterInv
<1> QED BY <1>6, <1>9, <1>10

LEMMA ResumePartKeeps == WriterInv /\ ResumePart => WriterInv'
<1> SUFFICES ASSUME WriterInv, ResumePart PROVE WriterInv'
  OBVIOUS
<1>1. PICK at \in Nat, len \in Nat : at = source.at /\ len = source.len /\ len <= MaxData
                                    /\ source.rev \in Nat
  BY WriterAssumption DEF WriterInv, WriterTyped
<1>2. PICK n \in Nat : /\ n = Smaller(PartSize, len - at) /\ n \in 1..PartSize
                       /\ at + n <= len /\ (n = PartSize \/ at + n = len) /\ at < len
  BY <1>1, WriterAssumption DEF ResumePart, Smaller
<1>3. PICK part \in Seq(ByteStrings) : part = Data(source.at + 1, source.at + n) /\ Len(part) = n
  BY <1>1, DataType
<1>4. /\ writer.pc = "resume" /\ source' = [source EXCEPT !.at = @ + n]
      /\ given' = given \o part
      /\ hashes' = PutAt(hashes, writer.next, part)
      /\ UNCHANGED <<buffer, archive, ignored>>
      /\ \/ /\ sent' = IF Skips(writer.next, part) THEN sent
                       ELSE PutAt(sent, writer.next, part)
            /\ size' = size + n
            /\ writer' = [writer EXCEPT !.next = @ + 1]
         \/ /\ sent' \in {sent, PutAt(sent, writer.next, part)}
            /\ To("raised")
            /\ UNCHANGED size
  BY <1>1, <1>2, <1>3 DEF ResumePart
<1>5. /\ hashes' \in Seq(Seq(ByteStrings)) /\ writer.next <= Len(hashes')
      /\ sent' \in Seq(Seq(ByteStrings)) /\ Len(sent) <= Len(sent')
      /\ sent' = PutAt(sent, writer.next, part) => writer.next <= Len(sent')
      /\ \A i \in 1..Len(sent') : Len(sent'[i]) \in 1..PartSize
  <2>1. sent' \in {sent, PutAt(sent, writer.next, part)} /\ Len(part) \in 1..PartSize
    BY <1>2, <1>3, <1>4
  <2> QED BY <1>4, <2>1, PartGoes DEF WriterInv
<1>6. /\ source' \in [rev : 0..MaxRevision, len : 1..MaxData, at : 0..MaxData]
      /\ source'.at <= source'.len /\ source'.at = at + n /\ source'.len = len
  <2>1. at + n \in 0..MaxData
    BY <1>1, <1>2, WriterAssumption
  <2> QED BY <1>1, <1>2, <1>4, <2>1 DEF WriterInv, WriterTyped
<1>7. PICK b \in Nat, k \in Nat : /\ b = Len(buffer) /\ k = Len(given) /\ size \in Nat
                                  /\ size + b <= k
  BY LenProperties DEF WriterInv, WriterTyped
<1>8. given' \in Seq(ByteStrings) /\ Len(given') = k + n
  <2>1. given \in Seq(ByteStrings)
    BY DEF WriterInv, WriterTyped
  <2>2. given \o part \in Seq(ByteStrings) /\ Len(given \o part) = Len(given) + Len(part)
    BY <1>3, <2>1, ConcatProperties
  <2> QED BY <1>3, <1>4, <1>7, <2>2
<1>9. archive = NoArchive
  BY <1>4 DEF WriterInv, Archived
<1>10. CASE /\ sent' \in {sent, PutAt(sent, writer.next, part)}
            /\ To("raised")
            /\ UNCHANGED size
  <2>1. /\ writer' \in [pc : WriterPlaces, next : Nat \ {0}] /\ writer'.pc = "raised"
        /\ writer'.next = writer.next
    BY <1>10, ToType DEF WriterInv, WriterPlaces
  <2>2. writer'.next <= Len(hashes') + 1 /\ writer'.next <= Len(sent') + 1
    <3>1. PICK a \in Nat, c \in Nat, d \in Nat, e \in Nat :
               a = writer.next /\ c = Len(hashes') /\ d = Len(sent') /\ e = Len(sent)
      BY <1>5, LenProperties DEF WriterInv, WriterTyped
    <3> QED BY <1>5, <2>1, <3>1, SMTT(60) DEF WriterInv, WriterTyped
  <2>3. size' \in Nat /\ size' + Len(buffer') <= Len(given')
    BY <1>4, <1>7, <1>8, <1>10
  <2>4. WriterTyped'
    BY <1>4, <1>5, <1>6, <1>8, <2>1, <2>2, <2>3 DEF WriterInv, WriterTyped
  <2>5. WriterAgrees' /\ Archived'
    BY <1>4, <1>9, <2>1 DEF WriterAgrees, Archived
  <2> QED BY <2>4, <2>5 DEF WriterInv
<1>11. CASE /\ sent' = IF Skips(writer.next, part) THEN sent
                       ELSE PutAt(sent, writer.next, part)
            /\ size' = size + n
            /\ writer' = [writer EXCEPT !.next = @ + 1]
  <2>1. /\ writer' \in [pc : WriterPlaces, next : Nat \ {0}] /\ writer'.pc = "resume"
        /\ writer'.next = writer.next + 1 /\ writer.next \in Nat
    <3>1. writer \in [pc : WriterPlaces, next : Nat \ {0}]
      BY DEF WriterInv, WriterTyped
    <3>2. writer.next \in Nat /\ writer.next + 1 \in Nat \ {0}
      BY <3>1
    <3> QED BY <1>4, <1>11, <3>1, <3>2
  <2>2. writer'.next <= Len(hashes') + 1 /\ writer'.next <= Len(sent') + 1
    <3>1. PICK a \in Nat, c \in Nat, d \in Nat :
               a = writer.next /\ c = Len(hashes') /\ d = Len(sent')
      BY <1>5, <2>1, LenProperties
    <3>2. a <= d
      <4>1. CASE Skips(writer.next, part)
        BY <1>11, <3>1, <4>1 DEF Skips
      <4>2. CASE ~Skips(writer.next, part)
        BY <1>5, <1>11, <3>1, <4>2
      <4> QED BY <4>1, <4>2
    <3> QED BY <1>5, <2>1, <3>1, <3>2
  <2>3. size' \in Nat /\ size' + Len(buffer') <= Len(given')
    BY <1>2, <1>4, <1>7, <1>8, <1>11, SMTT(60)
  <2>4. WriterTyped'
    BY <1>4, <1>5, <1>6, <1>8, <2>1, <2>2, <2>3 DEF WriterInv, WriterTyped
  <2>5. WriterAgrees'
    <3> SUFFICES ASSUME ~ignored PROVE WriterAgrees'
      BY <1>4 DEF WriterAgrees
    <3>1. /\ writer.next = Len(hashes) + 1 /\ given = FlattenSeq(hashes) \o buffer
          /\ \A i \in 1..Len(hashes) : sent[i] = hashes[i] /\ Len(hashes[i]) = PartSize
          /\ buffer = <<>>
      BY <1>1, <1>2, <1>4, SMTT(60) DEF WriterInv, WriterAgrees, AtEnd
    <3>2. /\ Len(hashes') = Len(hashes) + 1
          /\ FlattenSeq(hashes') = FlattenSeq(hashes) \o part
          /\ \A i \in 1..Len(hashes') : sent'[i] = hashes'[i]
          /\ \A i \in 1..Len(hashes) : hashes'[i] = hashes[i]
          /\ hashes'[writer.next] = part
      <4>1. \/ sent' = PutAt(sent, writer.next, part)
            \/ sent' = sent /\ Skips(writer.next, part)
        BY <1>11
      <4> QED BY <1>4, <3>1, <4>1, PartEntered DEF WriterInv
    <3>3. FlattenSeq(hashes) \in Seq(ByteStrings) /\ FlattenSeq(hashes') \in Seq(ByteStrings)
      BY <1>5, FlattenAppend, EmptySeq DEF WriterInv, WriterTyped
    <3>4. given' = FlattenSeq(hashes') \o buffer'
      <4>1. given = FlattenSeq(hashes)
        BY <3>1, <3>3, ConcatEmptySeq
      <4>2. given' = FlattenSeq(hashes')
        BY <1>4, <3>2, <4>1
      <4> QED BY <1>4, <3>1, <3>3, <4>2, ConcatEmptySeq
    <3>5. n = PartSize \/ AtEnd'
      BY <1>2, <1>4, <1>6, <2>1, <3>1 DEF AtEnd
    <3>6. \A i \in 1..Len(hashes') : Len(hashes'[i]) = PartSize \/ (i = Len(hashes') /\ AtEnd')
      <4>1. PICK m \in Nat : m = Len(hashes)
        BY LenProperties DEF WriterInv, WriterTyped
      <4>2. \A i \in 1..m + 1 : i \in 1..m \/ i = m + 1
        OBVIOUS
      <4>3. \A i \in 1..m : Len(hashes'[i]) = PartSize
        BY <3>1, <3>2, <4>1
      <4>4. Len(hashes') = m + 1 /\ Len(hashes'[m + 1]) = n
        BY <1>3, <3>1, <3>2, <4>1
      <4> QED BY <3>5, <4>2, <4>3, <4>4
    <3>7. writer'.next = Len(hashes') + 1
      BY <2>1, <3>1, <3>2
    <3> QED BY <1>4, <2>1, <3>1, <3>2, <3>4, <3>6, <3>7 DEF WriterAgrees
  <2>6. Archived'
    BY <1>4, <1>9 DEF Archived
  <2> QED BY <2>4, <2>5, <2>6 DEF WriterInv
<1> QED BY <1>4, <1>10, <1>11

LEMMA WriterInvHolds == WriterSpec => []WriterInv
<1>1. WriterInv /\ [WriterNext]_writerVars => WriterInv'
  <2> SUFFICES ASSUME WriterInv, [WriterNext]_writerVars PROVE WriterInv'
    OBVIOUS
  <2>1. CASE WriterNext
    BY <2>1, WriteKeeps, SendPartKeeps, WrittenKeeps, CloseKeeps, CompleteKeeps,
       IgnoreKeeps, RestartKeeps, ResumePartKeeps, ResumedAllKeeps DEF WriterNext
  <2>2. CASE UNCHANGED writerVars
    BY <2>2 DEF writerVars, WriterInv, WriterTyped, WriterAgrees, AtEnd, Archived,
                ArchiveIsGiven
  <2> QED BY <2>1, <2>2
<1> QED BY <1>1, WriterInitHolds, PTL DEF WriterSpec

\* The archive is what the Writer was given, all of it and in order, in parts that
\* are whole but for the last, for data of any length, in pieces of any size, with
\* parts of any size: after failed parts and resumed uploads of a file that has
\* changed since, unless the caller went on after an exception.
THEOREM Archives == WriterSpec => []ArchiveIsGiven
<1>1. WriterInv => ArchiveIsGiven
  BY DEF WriterInv, Archived, ArchiveIsGiven
<1> QED BY <1>1, WriterInvHolds, PTL

\* Parts are neither empty nor too large, and the size told to Glacier is not
\* greater than what was given.
THEOREM WriterTyping == WriterSpec => []WriterTypeOK
<1>1. ASSUME WriterInv PROVE WriterTypeOK
  <2>1. DOMAIN sent = 1..Len(sent) /\ Len(given) \in Nat /\ Len(buffer) \in Nat
        /\ Len(hashes) \in Nat
    BY <1>1, LenProperties DEF WriterInv, WriterTyped
  <2> QED BY <1>1, <2>1 DEF WriterInv, WriterTyped, WriterPlaces, WriterTypeOK
<1> QED BY <1>1, WriterInvHolds, PTL

-----------------------------------------------------------------------------
(* The concurrent transfer: sizes and queues.                              *)

USE WorkersAssumption, SizesAssumption

\* An archive has a number of parts, as no size is beyond that of so many of the
\* largest.
LEMMA TotalPartsType ==
    ASSUME NEW length \in ArchiveSizes
    PROVE  TotalParts(length) \in Nat
<1>1. /\ length \in Nat /\ Megabyte \in Nat /\ Megabyte > 0
      /\ MaximumParts \in Nat /\ MaximumParts > 0
      /\ DefaultSize \in Nat /\ DefaultSize > 0
  OBVIOUS
<1>2. \A n \in Nat, d \in Nat : d > 0 => n \div d \in Nat
  OBVIOUS
<1>3. \A n \in Nat, k \in Nat, d \in Nat : d > 0 /\ n <= k * d => n \div d <= k
  OBVIOUS
<1>4. PICK K \in Nat : K = Megabyte * 4096 /\ length <= K * MaximumParts
  <2>1. length <= 4096 * Megabyte * MaximumParts
    BY LargestAssumption
  <2> QED BY <1>1, <2>1
<1>5. PICK least \in Nat : least = RoundedDown(length) /\ least <= K
  BY <1>1, <1>2, <1>3, <1>4 DEF RoundedDown
<1>6. K \in PartSizes
  BY <1>4 DEF PartSizes
<1>7. \A bytes \in PartSizes : bytes \in Nat /\ bytes > 0
  BY <1>1 DEF PartSizes
<1>8. MinimumPartSize(length) \in Nat /\ MinimumPartSize(length) > 0
  <2>1. PICK S : S = {bytes \in PartSizes : bytes >= RoundedDown(length)}
    OBVIOUS
  <2>2. S \subseteq PartSizes /\ S \subseteq Nat /\ K \in S
    BY <1>5, <1>6, <1>7, <2>1
  <2>3. Min(S) \in PartSizes
    BY <2>2, LeastOf
  <2> QED BY <1>1, <1>7, <2>1, <2>3 DEF MinimumPartSize
<1>9. \A part \in Nat : part > 0 => Ceiling(length, part) \in Nat
  BY <1>1, <1>2 DEF Ceiling
<1> QED BY <1>1, <1>8, <1>9 DEF TotalParts

\* Nothing but the sentinel occurs twice.
OnceIn(s) == \A i, j \in DOMAIN s : s[i] = s[j] => i = j \/ s[i] = End

LEMMA EmptyQueue == ToSet(<<>>) = {} /\ OnceIn(<<>>)
  BY DEF ToSet, OnceIn

LEMMA HeadOff ==
    ASSUME NEW S, NEW s \in Seq(S), s # <<>>
    PROVE  /\ Head(s) \in S /\ Tail(s) \in Seq(S)
           /\ ToSet(s) = {Head(s)} \cup ToSet(Tail(s))
           /\ OnceIn(s) => /\ OnceIn(Tail(s))
                           /\ Head(s) # End => Head(s) \notin ToSet(Tail(s))
<1>1. PICK n \in Nat : Len(s) = n + 1
  <2>1. Len(s) \in Nat /\ Len(s) # 0
    BY LenProperties, EmptySeq
  <2>2. Len(s) - 1 \in Nat
    BY <2>1
  <2> QED BY <2>1, <2>2
<1>2. PICK t \in Seq(S) : t = Tail(s)
  BY HeadTailProperties
<1>3. /\ Head(s) \in S /\ Head(s) = s[1] /\ Len(t) = n
      /\ \A i \in 1..n : t[i] = s[i + 1]
  BY <1>1, <1>2, HeadTailProperties
<1>4. DOMAIN s = 1..n + 1 /\ DOMAIN t = 1..n
  BY <1>1, <1>3, LenProperties
<1>5. \A i \in 1..n + 1 : i = 1 \/ (i - 1 \in 1..n /\ i - 1 + 1 = i)
  OBVIOUS
<1>6. \A i \in 1..n : i + 1 \in 1..n + 1 /\ i + 1 # 1
  OBVIOUS
<1>7. 1 \in 1..n + 1
  OBVIOUS
<1>8. ToSet(s) = {Head(s)} \cup ToSet(t)
  <2>1. ToSet(s) = {s[i] : i \in 1..n + 1} /\ ToSet(t) = {t[i] : i \in 1..n}
    BY <1>4 DEF ToSet
  <2>2. ASSUME NEW i \in 1..n + 1, i # 1 PROVE s[i] \in ToSet(t)
    <3>1. PICK j \in 1..n : j + 1 = i
      BY <1>5, <2>2
    <3>2. t[j] = s[i]
      BY <1>3, <3>1
    <3> QED BY <2>1, <3>2
  <2>3. ASSUME NEW j \in 1..n PROVE t[j] \in ToSet(s)
    <3>1. t[j] = s[j + 1] /\ j + 1 \in 1..n + 1
      BY <1>3, <1>6
    <3> QED BY <2>1, <3>1
  <2>4. Head(s) \in ToSet(s)
    BY <1>3, <1>7, <2>1
  <2>5. ToSet(s) \subseteq {Head(s)} \cup ToSet(t)
    BY <1>3, <2>1, <2>2
  <2>6. ToSet(t) \subseteq ToSet(s)
    BY <2>1, <2>3
  <2> QED BY <2>4, <2>5, <2>6
<1>9. ASSUME OnceIn(s) PROVE OnceIn(t)
  <2> SUFFICES ASSUME NEW i \in 1..n, NEW j \in 1..n, t[i] = t[j]
               PROVE  i = j \/ t[i] = End
    BY <1>4 DEF OnceIn
  <2>1. i + 1 = j + 1 \/ s[i + 1] = End
    BY <1>3, <1>4, <1>6, <1>9 DEF OnceIn
  <2> QED BY <1>3, <2>1
<1>10. ASSUME OnceIn(s), Head(s) # End, Head(s) \in ToSet(t) PROVE FALSE
  <2>1. PICK i \in 1..n : s[i + 1] = s[1]
    BY <1>3, <1>4, <1>10 DEF ToSet
  <2>2. i + 1 = 1 \/ s[i + 1] = End
    BY <1>4, <1>6, <1>7, <1>10, <2>1 DEF OnceIn
  <2> QED BY <1>3, <1>6, <1>10, <2>1, <2>2
<1> QED BY <1>2, <1>3, <1>8, <1>9, <1>10

LEMMA AddedOn ==
    ASSUME NEW S, NEW s \in Seq(S), NEW x \in S
    PROVE  /\ Append(s, x) \in Seq(S)
           /\ ToSet(Append(s, x)) = ToSet(s) \cup {x}
           /\ OnceIn(s) /\ (x = End \/ x \notin ToSet(s)) => OnceIn(Append(s, x))
<1>1. PICK n \in Nat : Len(s) = n
  BY LenProperties
<1>2. PICK t \in Seq(S) : t = Append(s, x)
  BY AppendProperties
<1>3. Len(t) = n + 1 /\ t[n + 1] = x /\ \A i \in 1..n : t[i] = s[i]
  <2>1. /\ Len(Append(s, x)) = Len(s) + 1
        /\ \A i \in 1..Len(s) : Append(s, x)[i] = s[i]
        /\ Append(s, x)[Len(s) + 1] = x
    BY AppendProperties
  <2> QED BY <1>1, <1>2, <2>1
<1>4. DOMAIN t = 1..n + 1 /\ DOMAIN s = 1..n
  BY <1>1, <1>3, LenProperties
<1>5. \A i \in 1..n + 1 : i = n + 1 \/ i \in 1..n
  OBVIOUS
<1>6. n + 1 \in 1..n + 1 /\ \A i \in 1..n : i \in 1..n + 1
  OBVIOUS
<1>7. ToSet(t) = ToSet(s) \cup {x}
  <2>1. \A i \in 1..n + 1 : t[i] \in ToSet(s) \cup {x}
    BY <1>3, <1>4, <1>5 DEF ToSet
  <2> QED BY <1>3, <1>4, <1>6, <2>1 DEF ToSet
<1>8. ASSUME OnceIn(s), x = End \/ x \notin ToSet(s) PROVE OnceIn(t)
  <2>1. \A i \in 1..n : s[i] \in ToSet(s)
    BY <1>4 DEF ToSet
  <2> QED BY <1>3, <1>4, <1>5, <1>8, <2>1 DEF OnceIn
<1> QED BY <1>2, <1>7, <1>8

-----------------------------------------------------------------------------
(* The concurrent transfer.                                                *)

Callers == [pc : {"initiate", "spawn", "wait", "join", "finish", "abort", "done",
                  "raised"},
            got : Nat, next : {"none", "finish", "abort"}]
Threads == [pc : {"off", "run", "busy", "left"}, part : Parts \cup {End},
            tries : 0..WRetries]

TransferTyped ==
    /\ way \in {"up", "down"} /\ total \in Nat
    /\ caller \in Callers
    /\ hashed \subseteq Parts
    /\ work \in Seq(Parts \cup {End}) /\ results \in Seq(Parts \cup {End})
    /\ worker \in [Workers -> Threads]
    /\ go \in BOOLEAN
    /\ remote \in [state : {"none", "open", "complete", "aborted"},
                   parts : SUBSET Parts]

\* A part is at one place at most.
OnePlace ==
    /\ OnceIn(work) /\ OnceIn(results)
    /\ hashed \cap (ToSet(work) \cup ToSet(results)) = {}
    /\ ToSet(work) \cap ToSet(results) \subseteq {End}
    /\ \A w \in Workers : worker[w].pc = "busy" =>
          /\ worker[w].part # End
          /\ worker[w].part \notin ToSet(work) \cup ToSet(results) \cup hashed
          /\ \A v \in Workers : v # w /\ worker[v].pc = "busy"
                                => worker[v].part # worker[w].part

\* Results that were counted are of parts that are there.
GotIsHashed ==
    /\ caller.got = Cardinality(hashed)
    /\ hashed \subseteq remote.parts
    /\ way = "up" => ToSet(results) \subseteq remote.parts \cup {End}

\* When the caller is where.
CallerKnows ==
    /\ caller.pc = "initiate" => /\ work = <<>> /\ results = <<>> /\ hashed = {}
                                 /\ \A w \in Workers : worker[w].pc = "off"
    /\ caller.pc = "join" => caller.next \in {"finish", "abort"}
    /\ \/ caller.pc = "join" /\ caller.next = "finish"
       \/ caller.pc = "finish"
       => caller.got = total
    /\ caller.pc \in {"finish", "abort"} => AllHaveLeft
    /\ remote.state = "complete" => remote.parts = Parts /\ hashed = Parts
    /\ remote.state \in {"complete", "aborted"}
       => AllHaveLeft /\ caller.pc \in {"done", "raised"}
    /\ caller.pc = "done" => remote.state = "complete"

TransferInv == TransferTyped /\ OnePlace /\ GotIsHashed /\ CallerKnows

LEMMA TransferInitHolds == TransferInit => TransferInv
<1> SUFFICES ASSUME TransferInit PROVE TransferInv
  OBVIOUS
<1>1. total \in Nat
  BY TotalPartsType DEF TransferInit
<1>2. TransferTyped
  BY <1>1, EmptySeq DEF TransferInit, TransferTyped, Callers, Threads
<1>3. \A w \in Workers : worker[w].pc = "off"
  BY DEF TransferInit
<1>4. OnePlace
  BY <1>3, EmptyQueue DEF TransferInit, OnePlace
<1>5. GotIsHashed
  BY FS_EmptySet, EmptyQueue DEF TransferInit, GotIsHashed
<1>6. CallerKnows
  BY <1>3 DEF TransferInit, CallerKnows
<1> QED BY <1>2, <1>4, <1>5, <1>6 DEF TransferInv

\* The queue that is filled first: all parts, then the sentinels.
LEMMA FilledQueue ==
    ASSUME total \in Nat
    PROVE  LET q == [i \in Parts |-> i] \o Sentinels IN
           q \in Seq(Parts \cup {End}) /\ OnceIn(q)
<1>1. PICK m \in Nat, n \in Nat : m = total /\ n = Cardinality(Workers)
  BY FS_CardinalityType
<1>2. PICK S : S = Parts \cup {End}
  OBVIOUS
<1>3. PICK a, b : a = [i \in Parts |-> i] /\ b = Sentinels
  OBVIOUS
<1>4. a \in [1..m -> S] /\ b \in [1..n -> S]
  BY <1>1, <1>2, <1>3 DEF Parts, Sentinels
<1>5. a \in Seq(S) /\ b \in Seq(S) /\ DOMAIN a = 1..m /\ DOMAIN b = 1..n
  BY <1>4, SeqDef
<1>6. Len(a) = m /\ Len(b) = n
  BY <1>1, <1>5, LenProperties
<1>7. PICK q \in Seq(S) : q = a \o b
  BY <1>5, ConcatProperties
<1>8. Len(q) = m + n /\ \A i \in 1..m + n : q[i] = IF i <= m THEN a[i] ELSE b[i - m]
  <2>1. /\ Len(a \o b) = Len(a) + Len(b)
        /\ \A i \in 1..Len(a) + Len(b) : (a \o b)[i] = IF i <= Len(a) THEN a[i]
                                                        ELSE b[i - Len(a)]
    BY <1>5, ConcatProperties, Zenon
  <2> QED BY <1>6, <1>7, <2>1, Zenon
<1>9. DOMAIN q = 1..m + n
  BY <1>8, LenProperties
<1>10. \A i \in 1..m + n : q[i] = IF i <= m THEN i ELSE End
  <2> SUFFICES ASSUME NEW i \in 1..m + n PROVE q[i] = IF i <= m THEN i ELSE End
    OBVIOUS
  <2>1. CASE i <= m
    <3>1. i \in Parts
      BY <1>1, <2>1 DEF Parts
    <3> QED BY <1>3, <1>8, <2>1, <3>1
  <2>2. CASE ~(i <= m)
    <3>1. i - m \in 1..n
      BY <2>2
    <3> QED BY <1>1, <1>3, <1>8, <2>2, <3>1 DEF Sentinels
  <2> QED BY <2>1, <2>2
<1>11. OnceIn(q)
  BY <1>9, <1>10 DEF OnceIn
<1> QED BY <1>2, <1>3, <1>7, <1>11

\* The caller goes on; threads and queues are as before.
LEMMA CallerMoves ==
    ASSUME TransferInv, UNCHANGED <<way, total, hashed, work, results, worker>>,
           caller' \in Callers, caller'.got = caller.got,
           go' \in BOOLEAN,
           remote' \in [state : {"none", "open", "complete", "aborted"},
                        parts : SUBSET Parts],
           remote'.parts = remote.parts
    PROVE  TransferTyped' /\ OnePlace' /\ GotIsHashed'
<1>1. Parts' = Parts
  BY DEF Parts
<1> QED BY <1>1 DEF TransferInv, TransferTyped, Threads, OnePlace, GotIsHashed, OnceIn

LEMMA CallerToType ==
    ASSUME TransferTyped,
           NEW pc \in {"initiate", "spawn", "wait", "join", "finish", "abort", "done",
                       "raised"},
           CallerTo(pc)
    PROVE  /\ caller' \in Callers /\ caller'.pc = pc
           /\ caller'.got = caller.got /\ caller'.next = caller.next
  BY DEF TransferTyped, Callers, CallerTo

LEMMA BecomesType ==
    ASSUME TransferTyped, NEW state \in {"none", "open", "complete", "aborted"},
           Becomes(state)
    PROVE  /\ remote' \in [state : {"none", "open", "complete", "aborted"},
                           parts : SUBSET Parts]
           /\ remote'.parts = remote.parts /\ remote'.state = state
  BY DEF TransferTyped, Becomes

LEMMA InitiateKeeps == TransferInv /\ Initiate => TransferInv'
<1> SUFFICES ASSUME TransferInv, Initiate PROVE TransferInv'
  OBVIOUS
<1>1. CASE /\ CallerTo("spawn")
           /\ work' = [i \in Parts |-> i] \o Sentinels
           /\ Becomes("open")
  <2>1. PICK q \in Seq(Parts \cup {End}) : q = [i \in Parts |-> i] \o Sentinels /\ OnceIn(q)
    BY FilledQueue DEF TransferInv, TransferTyped
  <2>2. /\ caller' \in Callers /\ caller'.pc = "spawn" /\ caller'.got = caller.got
        /\ remote' \in [state : {"none", "open", "complete", "aborted"},
                        parts : SUBSET Parts]
        /\ remote'.parts = remote.parts /\ remote'.state = "open"
    BY <1>1, CallerToType, BecomesType DEF TransferInv
  <2>3. /\ results = <<>> /\ hashed = {} /\ \A w \in Workers : worker[w].pc = "off"
        /\ UNCHANGED <<way, total, hashed, results, worker, go>> /\ Parts' = Parts
        /\ work' = q
    BY <1>1, <2>1 DEF TransferInv, CallerKnows, Initiate, Parts
  <2>4. TransferTyped'
    BY <2>2, <2>3 DEF TransferInv, TransferTyped, Threads
  <2>5. OnePlace'
    BY <2>1, <2>3, EmptyQueue DEF TransferInv, OnePlace
  <2>6. GotIsHashed'
    BY <2>2, <2>3 DEF TransferInv, GotIsHashed
  <2>7. CallerKnows'
    BY <2>2 DEF CallerKnows
  <2> QED BY <2>4, <2>5, <2>6, <2>7 DEF TransferInv
<1>2. CASE CallerTo("raised") /\ UNCHANGED <<work, remote>>
  <2>1. /\ caller' \in Callers /\ caller'.pc = "raised" /\ caller'.got = caller.got
    BY <1>2, CallerToType DEF TransferInv
  <2>2. TransferTyped' /\ OnePlace' /\ GotIsHashed'
    BY <1>2, <2>1, CallerMoves DEF Initiate, TransferInv, TransferTyped
  <2>3. CallerKnows'
    BY <1>2, <2>1 DEF Initiate, TransferInv, CallerKnows
  <2> QED BY <2>2, <2>3 DEF TransferInv
<1> QED BY <1>1, <1>2 DEF Initiate

LEMMA SpawnKeeps == TransferInv /\ Spawn => TransferInv'
<1> SUFFICES ASSUME TransferInv, Spawn PROVE TransferInv'
  OBVIOUS
<1>1. /\ UNCHANGED <<way, total, hashed, work, results, go, remote>> /\ Parts' = Parts
      /\ remote.state \notin {"complete", "aborted"}
  BY DEF Spawn, TransferInv, CallerKnows, Parts
<1>2. ASSUME NEW pc \in {"wait", "raised"}, CallerTo(pc), UNCHANGED worker
      PROVE  TransferInv'
  <2>1. caller' \in Callers /\ caller'.pc = pc /\ caller'.got = caller.got
    BY <1>2, CallerToType DEF TransferInv
  <2>2. TransferTyped' /\ OnePlace' /\ GotIsHashed'
    BY <1>1, <1>2, <2>1, CallerMoves DEF TransferInv, TransferTyped
  <2>3. CallerKnows'
    BY <1>1, <2>1 DEF CallerKnows
  <2> QED BY <2>2, <2>3 DEF TransferInv
<1>3. ASSUME NEW w \in Workers, worker[w].pc = "off",
             worker' = [worker EXCEPT ![w].pc = "run"], UNCHANGED caller
      PROVE  TransferInv'
  <2>1. TransferTyped'
    BY <1>1, <1>3, ZenonT(60) DEF TransferInv, TransferTyped, Threads
  <2>2. \A v \in Workers : worker'[v].pc = "busy" => worker'[v] = worker[v]
    BY <1>3 DEF TransferInv, TransferTyped, Threads
  <2>3. OnePlace'
    BY <1>1, <2>2 DEF TransferInv, OnePlace
  <2>4. GotIsHashed' /\ CallerKnows'
    BY <1>1, <1>3 DEF Spawn, TransferInv, GotIsHashed, CallerKnows
  <2> QED BY <2>1, <2>3, <2>4 DEF TransferInv
<1> QED BY <1>2, <1>3 DEF Spawn

LEMMA CollectKeeps == TransferInv /\ Collect => TransferInv'
<1> SUFFICES ASSUME TransferInv, Collect PROVE TransferInv'
  OBVIOUS
<1> DEFINE r == Head(results)
<1>1. /\ r \in Parts \cup {End} /\ results' \in Seq(Parts \cup {End})
      /\ ToSet(results) = {r} \cup ToSet(results')
      /\ OnceIn(results') /\ (r # End => r \notin ToSet(results'))
  BY HeadOff DEF Collect, TransferInv, TransferTyped, OnePlace
<1>2. /\ UNCHANGED <<way, total, work, worker>> /\ Parts' = Parts
      /\ remote.state \notin {"complete", "aborted"} /\ caller.pc = "wait"
      /\ caller \in Callers
  BY DEF Collect, TransferInv, TransferTyped, CallerKnows, Parts
<1>3. ASSUME caller' \in Callers, caller'.got = caller.got, go' \in BOOLEAN,
             caller'.pc = "raised" \/ (caller'.pc = "join" /\ caller'.next = "abort"),
             UNCHANGED <<hashed, remote>>
      PROVE  TransferInv'
  <2>1. TransferTyped'
    BY <1>1, <1>2, <1>3 DEF TransferInv, TransferTyped, Threads
  <2>2. OnePlace'
    BY <1>1, <1>2, <1>3 DEF TransferInv, OnePlace
  <2>3. GotIsHashed'
    BY <1>1, <1>2, <1>3 DEF TransferInv, GotIsHashed
  <2>4. CallerKnows'
    BY <1>2, <1>3 DEF CallerKnows
  <2> QED BY <2>1, <2>2, <2>3, <2>4 DEF TransferInv
<1>4. CASE /\ caller' = [caller EXCEPT !.pc = "join", !.next = "abort"] /\ go' = FALSE
           /\ UNCHANGED <<hashed, remote>>
  <2>1. /\ caller' \in Callers /\ caller'.got = caller.got
        /\ caller'.pc = "join" /\ caller'.next = "abort"
    BY <1>2, <1>4 DEF Callers
  <2> QED BY <1>3, <1>4, <2>1
<1>5. CASE CallerTo("raised") /\ UNCHANGED <<hashed, go, remote>>
  <2>1. caller' \in Callers /\ caller'.got = caller.got /\ caller'.pc = "raised"
    BY <1>5, CallerToType DEF TransferInv
  <2> QED BY <1>3, <1>5, <2>1 DEF TransferInv, TransferTyped
<1>6. CASE /\ ~Failure(r)
           /\ caller' = [caller EXCEPT !.got = @ + 1]
           /\ hashed' = hashed \cup {r}
           /\ remote' = IF way = "up" THEN remote ELSE [remote EXCEPT !.parts = @ \cup {r}]
           /\ UNCHANGED go
  <2>1. /\ r # End /\ r \in Parts /\ r \in ToSet(results) /\ r \notin hashed
        /\ r \notin ToSet(work)
    BY <1>1, <1>6 DEF Failure, TransferInv, OnePlace
  <2>2. /\ caller' \in Callers /\ caller'.got = caller.got + 1 /\ caller'.pc = "wait"
    BY <1>2, <1>6 DEF Callers
  <2>3. /\ remote' \in [state : {"none", "open", "complete", "aborted"},
                        parts : SUBSET Parts]
        /\ remote'.state = remote.state
        /\ remote'.parts = IF way = "up" THEN remote.parts ELSE remote.parts \cup {r}
    BY <1>6, <2>1 DEF TransferInv, TransferTyped
  <2>4. TransferTyped'
    BY <1>1, <1>2, <1>6, <2>1, <2>2, <2>3 DEF TransferInv, TransferTyped, Threads
  <2>5. OnePlace'
    BY <1>1, <1>2, <1>6, <2>1 DEF TransferInv, OnePlace
  <2>6. Cardinality(hashed') = Cardinality(hashed) + 1
    <3>1. IsFiniteSet(hashed)
      <4>1. IsFiniteSet(Parts)
        BY FS_Interval DEF TransferInv, TransferTyped, Parts
      <4> QED BY <4>1, FS_Subset DEF TransferInv, TransferTyped
    <3> QED BY <1>6, <2>1, <3>1, FS_AddElement
  <2>7. GotIsHashed'
    BY <1>1, <1>2, <1>6, <2>1, <2>2, <2>3, <2>6 DEF TransferInv, GotIsHashed
  <2>8. CallerKnows'
    BY <1>2, <2>2, <2>3 DEF CallerKnows
  <2> QED BY <2>4, <2>5, <2>7, <2>8 DEF TransferInv
<1> QED BY <1>4, <1>5, <1>6 DEF Collect

LEMMA CollectedKeeps == TransferInv /\ Collected => TransferInv'
<1> SUFFICES ASSUME TransferInv, Collected PROVE TransferInv'
  OBVIOUS
<1>1. /\ UNCHANGED <<way, total, hashed, work, results, worker, remote>>
      /\ remote.state \notin {"complete", "aborted"} /\ caller.pc = "wait"
      /\ caller \in Callers /\ caller.got = total /\ go' \in BOOLEAN
  BY DEF Collected, TransferInv, TransferTyped, CallerKnows
<1>2. /\ caller' \in Callers /\ caller'.got = caller.got
      /\ \/ caller'.pc = "raised"
         \/ caller'.pc = "join" /\ caller'.next \in {"finish", "abort"}
  BY <1>1 DEF Collected, CallerTo, Callers
<1>3. TransferTyped' /\ OnePlace' /\ GotIsHashed'
  BY <1>1, <1>2, CallerMoves DEF TransferInv, TransferTyped
<1>4. CallerKnows'
  BY <1>1, <1>2 DEF CallerKnows
<1> QED BY <1>3, <1>4 DEF TransferInv

LEMMA JoinedKeeps == TransferInv /\ Joined => TransferInv'
<1> SUFFICES ASSUME TransferInv, Joined PROVE TransferInv'
  OBVIOUS
<1>1. /\ UNCHANGED <<way, total, hashed, work, results, worker, go, remote>>
      /\ remote.state \notin {"complete", "aborted"} /\ caller.pc = "join"
      /\ caller.next \in {"finish", "abort"} /\ AllHaveLeft'
      /\ caller.next = "finish" => caller.got = total
  BY DEF Joined, TransferInv, CallerKnows, AllHaveLeft
<1>2. /\ caller' \in Callers /\ caller'.got = caller.got /\ caller'.pc = caller.next
  BY <1>1, CallerToType DEF Joined, TransferInv
<1>3. TransferTyped' /\ OnePlace' /\ GotIsHashed'
  BY <1>1, <1>2, CallerMoves DEF TransferInv, TransferTyped
<1>4. CallerKnows'
  BY <1>1, <1>2 DEF CallerKnows
<1> QED BY <1>3, <1>4 DEF TransferInv

\* As many parts as there are, are all parts.
LEMMA AllCounted ==
    ASSUME TransferInv, caller.got = total
    PROVE  hashed = Parts /\ remote.parts = Parts
<1>1. IsFiniteSet(Parts) /\ Cardinality(Parts) = total
  BY FS_Interval, SMTT(60) DEF Parts, TransferInv, TransferTyped
<1>2. hashed \subseteq Parts /\ Cardinality(hashed) = Cardinality(Parts)
  BY <1>1 DEF TransferInv, TransferTyped, GotIsHashed
<1>3. hashed = Parts
  BY <1>1, <1>2, FS_Subset
<1> QED BY <1>3 DEF TransferInv, TransferTyped, GotIsHashed

LEMMA FinishKeeps == TransferInv /\ Finish => TransferInv'
<1> SUFFICES ASSUME TransferInv, Finish PROVE TransferInv'
  OBVIOUS
<1>1. /\ UNCHANGED <<way, total, hashed, work, results, worker, go>> /\ Parts' = Parts
      /\ remote.state \notin {"complete", "aborted"} /\ caller.pc = "finish"
      /\ caller.got = total /\ AllHaveLeft'
  BY DEF Finish, TransferInv, CallerKnows, AllHaveLeft, Parts
<1>2. hashed = Parts /\ remote.parts = Parts
  BY <1>1, AllCounted
<1>3. ASSUME NEW pc \in {"done", "raised"}, CallerTo(pc),
             Becomes("complete") \/ (UNCHANGED remote /\ pc = "raised")
      PROVE  TransferInv'
  <2>1. /\ caller' \in Callers /\ caller'.got = caller.got /\ caller'.pc = pc
    BY <1>3, CallerToType DEF TransferInv
  <2>2. /\ remote' \in [state : {"none", "open", "complete", "aborted"},
                        parts : SUBSET Parts]
        /\ remote'.parts = remote.parts
        /\ remote'.state = "complete" \/ (remote' = remote /\ pc = "raised")
    BY <1>3, BecomesType DEF TransferInv, TransferTyped
  <2>3. TransferTyped' /\ OnePlace' /\ GotIsHashed'
    BY <1>1, <2>1, <2>2, CallerMoves DEF TransferInv, TransferTyped
  <2>4. CallerKnows'
    BY <1>1, <1>2, <2>1, <2>2 DEF CallerKnows
  <2> QED BY <2>3, <2>4 DEF TransferInv
<1> QED BY <1>3 DEF Finish

LEMMA AbortKeeps == TransferInv /\ AbortUpload => TransferInv'
<1> SUFFICES ASSUME TransferInv, AbortUpload PROVE TransferInv'
  OBVIOUS
<1>1. /\ UNCHANGED <<way, total, hashed, work, results, worker, go>> /\ Parts' = Parts
      /\ remote.state \notin {"complete", "aborted"} /\ caller.pc = "abort"
      /\ AllHaveLeft'
  BY DEF AbortUpload, TransferInv, CallerKnows, AllHaveLeft, Parts
<1>2. /\ caller' \in Callers /\ caller'.got = caller.got /\ caller'.pc = "raised"
  BY CallerToType DEF AbortUpload, TransferInv
<1>3. /\ remote' \in [state : {"none", "open", "complete", "aborted"},
                      parts : SUBSET Parts]
      /\ remote'.parts = remote.parts
      /\ remote'.state = "aborted" \/ remote' = remote
  BY BecomesType DEF AbortUpload, TransferInv, TransferTyped
<1>4. TransferTyped' /\ OnePlace' /\ GotIsHashed'
  BY <1>1, <1>2, <1>3, CallerMoves DEF TransferInv, TransferTyped
<1>5. CallerKnows'
  BY <1>1, <1>2, <1>3 DEF CallerKnows
<1> QED BY <1>4, <1>5 DEF TransferInv

\* A thread goes on without a part.
LEMMA TakeKeeps == ASSUME NEW w \in Workers, TransferInv, Take(w) PROVE TransferInv'
<1>1. /\ UNCHANGED <<way, total, caller, hashed, results, go, remote>> /\ Parts' = Parts
      /\ worker[w].pc = "run" /\ ~AllHaveLeft
  BY DEF Take, Parts, AllHaveLeft
<1>2. /\ caller.pc \notin {"initiate", "finish", "abort"}
      /\ remote.state \notin {"complete", "aborted"}
  BY <1>1 DEF TransferInv, CallerKnows
<1>3. CallerKnows'
  BY <1>1, <1>2 DEF TransferInv, CallerKnows
<1>4. GotIsHashed'
  BY <1>1 DEF TransferInv, GotIsHashed
<1>5. ASSUME worker' = [worker EXCEPT ![w].pc = "left"],
             work' \in Seq(Parts \cup {End}), ToSet(work') \subseteq ToSet(work),
             OnceIn(work) => OnceIn(work')
      PROVE  TransferInv'
  <2>1. TransferTyped'
    BY <1>1, <1>5 DEF TransferInv, TransferTyped, Threads
  <2>2. \A v \in Workers : worker'[v].pc = "busy" => worker'[v] = worker[v]
    BY <1>5 DEF TransferInv, TransferTyped, Threads
  <2>3. OnePlace'
    BY <1>1, <1>5, <2>2 DEF TransferInv, OnePlace
  <2> QED BY <1>3, <1>4, <2>1, <2>3 DEF TransferInv
<1>6. CASE worker' = [worker EXCEPT ![w].pc = "left"] /\ UNCHANGED work
  BY <1>5, <1>6 DEF TransferInv, TransferTyped
<1>7. CASE /\ work # <<>>
           /\ worker' = [worker EXCEPT
                           ![w] = IF Head(work) = End
                                  THEN [@ EXCEPT !.pc = "left"]
                                  ELSE [pc |-> "busy", part |-> Head(work), tries |-> 0]]
           /\ work' = Tail(work)
  <2> DEFINE p == Head(work)
  <2>1. /\ p \in Parts \cup {End} /\ work' \in Seq(Parts \cup {End})
        /\ ToSet(work) = {p} \cup ToSet(work')
        /\ OnceIn(work') /\ (p # End => p \notin ToSet(work'))
    BY <1>7, HeadOff DEF TransferInv, TransferTyped, OnePlace
  <2>2. CASE p = End
    <3>1. worker' = [worker EXCEPT ![w].pc = "left"]
      BY <1>7, <2>2
    <3> QED BY <1>5, <2>1, <3>1
  <2>3. CASE p # End
    <3>1. worker' = [worker EXCEPT ![w] = [pc |-> "busy", part |-> p, tries |-> 0]]
      BY <1>7, <2>3
    <3>2. p \in ToSet(work) /\ p \notin ToSet(work') /\ p \notin ToSet(results) \cup hashed
      BY <2>1, <2>3 DEF TransferInv, OnePlace
    <3>3. /\ worker'[w].part = p
          /\ \A v \in Workers : v # w => worker'[v] = worker[v]
      BY <3>1 DEF TransferInv, TransferTyped
    <3>4. TransferTyped'
      <4>1. 0 \in 0..WRetries
        OBVIOUS
      <4> QED BY <1>1, <2>1, <3>1, <4>1 DEF TransferInv, TransferTyped, Threads
    <3>5. \A v \in Workers : v # w /\ worker'[v].pc = "busy" => worker'[v].part # p
      BY <3>2, <3>3 DEF TransferInv, OnePlace
    <3>6. OnePlace'
      <4>1. ASSUME NEW v \in Workers, worker'[v].pc = "busy"
            PROVE  /\ worker'[v].part # End
                   /\ worker'[v].part \notin ToSet(work') \cup ToSet(results') \cup hashed'
                   /\ \A u \in Workers : u # v /\ worker'[u].pc = "busy"
                                         => worker'[u].part # worker'[v].part
        <5>1. CASE v = w
          BY <1>1, <2>3, <3>2, <3>3, <3>5, <5>1
        <5>2. CASE v # w
          BY <1>1, <2>1, <3>3, <3>5, <4>1, <5>2 DEF TransferInv, OnePlace
        <5> QED BY <5>1, <5>2
      <4> QED BY <1>1, <2>1, <4>1 DEF TransferInv, OnePlace
    <3> QED BY <1>3, <1>4, <3>4, <3>6 DEF TransferInv
  <2> QED BY <2>2, <2>3
<1> QED BY <1>6, <1>7 DEF Take

\* A thread that is busy puts its part, or a failure, into the result queue.
LEMMA PutKeeps ==
    ASSUME NEW w \in Workers, TransferInv, worker[w].pc = "busy",
           NEW result \in {End, worker[w].part}, Put(w, result),
           UNCHANGED <<way, total, caller, hashed, work, go>>,
           \/ UNCHANGED remote
           \/ remote' = [remote EXCEPT !.parts = @ \cup {worker[w].part}],
           result # End /\ way = "up" => result \in remote'.parts
    PROVE  TransferInv'
<1> DEFINE p == worker[w].part
<1>1. /\ p \in Parts /\ Parts' = Parts /\ ~AllHaveLeft
      /\ p \notin ToSet(work) \cup ToSet(results) \cup hashed /\ End \notin Parts
      /\ \A v \in Workers : v # w /\ worker[v].pc = "busy" => worker[v].part # p
  BY DEF TransferInv, TransferTyped, Threads, OnePlace, AllHaveLeft, Parts, End
<1>2. /\ results' \in Seq(Parts \cup {End})
      /\ ToSet(results') = ToSet(results) \cup {result} /\ OnceIn(results')
  <2>1. result \in Parts \cup {End} /\ (result = End \/ result \notin ToSet(results))
    BY <1>1
  <2> QED BY <2>1, AddedOn DEF Put, TransferInv, TransferTyped, OnePlace
<1>3. /\ remote' \in [state : {"none", "open", "complete", "aborted"},
                      parts : SUBSET Parts]
      /\ remote'.state = remote.state /\ remote.parts \subseteq remote'.parts
  BY <1>1 DEF TransferInv, TransferTyped
<1>4. worker' = [worker EXCEPT ![w].pc = "run"]
  BY DEF Put
<1>5. TransferTyped'
  <2>1. worker' \in [Workers -> Threads]
    BY <1>4, SMTT(60) DEF TransferInv, TransferTyped, Threads
  <2>2. Threads' = Threads /\ Callers' = Callers
    BY <1>1 DEF Threads, Callers
  <2> QED BY <1>1, <1>2, <1>3, <2>1, <2>2 DEF TransferInv, TransferTyped
<1>6. \A v \in Workers : worker'[v].pc = "busy" => v # w /\ worker'[v] = worker[v]
  BY <1>4 DEF TransferInv, TransferTyped, Threads
<1>7. OnePlace'
  <2>1. OnceIn(work') /\ OnceIn(results')
    BY <1>2 DEF TransferInv, OnePlace
  <2>2. hashed' \cap (ToSet(work') \cup ToSet(results')) = {}
    BY <1>1, <1>2 DEF TransferInv, TransferTyped, OnePlace
  <2>3. ToSet(work') \cap ToSet(results') \subseteq {End}
    BY <1>1, <1>2 DEF TransferInv, OnePlace
  <2>4. ASSUME NEW v \in Workers, worker'[v].pc = "busy"
        PROVE  /\ worker'[v].part # End
               /\ worker'[v].part \notin ToSet(work') \cup ToSet(results') \cup hashed'
               /\ \A u \in Workers : u # v /\ worker'[u].pc = "busy"
                                     => worker'[u].part # worker'[v].part
    BY <1>1, <1>2, <1>6, <2>4 DEF TransferInv, OnePlace
  <2> QED BY <2>1, <2>2, <2>3, <2>4 DEF OnePlace
<1>8. GotIsHashed'
  BY <1>2, <1>3 DEF TransferInv, GotIsHashed
<1>9. CallerKnows'
  BY <1>1, <1>3 DEF TransferInv, CallerKnows
<1> QED BY <1>5, <1>7, <1>8, <1>9 DEF TransferInv

LEMMA PartDoneKeeps ==
    ASSUME NEW w \in Workers, TransferInv, PartDone(w) PROVE TransferInv'
<1>1. way = "up" => worker[w].part \in remote'.parts
  BY DEF PartDone, TransferInv, TransferTyped
<1> QED BY <1>1, PutKeeps DEF PartDone

LEMMA PartFailsKeeps ==
    ASSUME NEW w \in Workers, TransferInv, PartFails(w) PROVE TransferInv'
<1>1. CASE Put(w, End)
  BY <1>1, PutKeeps DEF PartFails
<1>2. CASE /\ worker[w].tries + 1 < Attempts
           /\ worker' = [worker EXCEPT ![w].tries = @ + 1]
           /\ UNCHANGED results
  <2>1. /\ UNCHANGED <<way, total, caller, hashed, work, results, go>> /\ Parts' = Parts
        /\ worker[w].pc = "busy" /\ ~AllHaveLeft /\ worker[w].part \in Parts
        /\ worker[w].tries + 1 \in 0..WRetries
    BY <1>2 DEF PartFails, Attempts, Parts, AllHaveLeft, TransferInv, TransferTyped,
                Threads, OnePlace
  <2>2. /\ remote' \in [state : {"none", "open", "complete", "aborted"},
                        parts : SUBSET Parts]
        /\ remote'.state = remote.state /\ remote.parts \subseteq remote'.parts
    BY <2>1 DEF PartFails, TransferInv, TransferTyped
  <2>3. TransferTyped'
    BY <1>2, <2>1, <2>2, SMTT(60) DEF TransferInv, TransferTyped, Threads
  <2>4. \A v \in Workers : worker'[v].pc = worker[v].pc /\ worker'[v].part = worker[v].part
    BY <1>2 DEF TransferInv, TransferTyped, Threads
  <2>5. OnePlace'
    BY <2>1, <2>4 DEF TransferInv, OnePlace
  <2>6. GotIsHashed' /\ CallerKnows'
    BY <2>1, <2>2, <2>4 DEF TransferInv, GotIsHashed, CallerKnows
  <2> QED BY <2>3, <2>5, <2>6 DEF TransferInv
<1> QED BY <1>1, <1>2 DEF PartFails

LEMMA TransferInvHolds == TransferSpec => []TransferInv
<1>1. TransferInv /\ [TransferNext]_transferVars => TransferInv'
  <2> SUFFICES ASSUME TransferInv, [TransferNext]_transferVars PROVE TransferInv'
    OBVIOUS
  <2>1. CASE CallerStep
    BY <2>1, InitiateKeeps, SpawnKeeps, CollectKeeps, CollectedKeeps, JoinedKeeps,
       FinishKeeps, AbortKeeps DEF CallerStep
  <2>2. CASE \E w \in Workers : WorkerStep(w)
    BY <2>2, TakeKeeps, PartDoneKeeps, PartFailsKeeps DEF WorkerStep
  <2>3. CASE UNCHANGED transferVars
    BY <2>3 DEF transferVars, TransferInv, TransferTyped, Parts, Threads, OnePlace,
                OnceIn, GotIsHashed, CallerKnows, AllHaveLeft
  <2> QED BY <2>1, <2>2, <2>3 DEF TransferNext
<1> QED BY <1>1, TransferInitHolds, PTL DEF TransferSpec

\* An upload is completed, and a download successful, only with every part there
\* and every hash computed, and when no thread works any more, for any number of
\* threads, parts and attempts.
THEOREM Transferred == TransferSpec => []CompleteHasAll
<1>1. TransferInv => CompleteHasAll
  BY DEF TransferInv, CallerKnows, AllHaveLeft, CompleteHasAll
<1> QED BY <1>1, TransferInvHolds, PTL

\* Queues hold parts and sentinels, and no more results are counted than there are
\* parts, as no part is put into the result queue twice.
THEOREM TransferTyping == TransferSpec => []TransferTypeOK
<1>1. ASSUME TransferInv PROVE TransferTypeOK
  <2>1. caller.got \in 0..total
    <3>1. IsFiniteSet(Parts) /\ Cardinality(Parts) = total
      <4>1. total \in Nat /\ Parts = 1..total
        BY <1>1 DEF Parts, TransferInv, TransferTyped
      <4>2. total \in Int /\ 1 \in Int
        BY <4>1
      <4>3. /\ IsFiniteSet(1..total)
            /\ Cardinality(1..total) = IF 1 > total THEN 0 ELSE total - 1 + 1
        BY <4>2, FS_Interval, Zenon
      <4>4. (IF 1 > total THEN 0 ELSE total - 1 + 1) = total
        BY <4>1
      <4> QED BY <4>1, <4>3, <4>4, Zenon
    <3>2. Cardinality(hashed) <= total /\ Cardinality(hashed) \in Nat
      BY <1>1, <3>1, FS_Subset, FS_CardinalityType DEF TransferInv, TransferTyped
    <3> QED BY <1>1, <3>2 DEF TransferInv, TransferTyped, GotIsHashed
  <2> QED BY <1>1, <2>1 DEF TransferInv, TransferTyped, Callers, Threads, TransferTypeOK
<1> QED BY <1>1, TransferInvHolds, PTL

-----------------------------------------------------------------------------
(* No thread, and no caller, waits in vain: the queue holds one sentinel   *)
(* for each thread that has not left, behind all parts, and a part that    *)
(* has no result yet is in the queue or with a thread.                     *)

Begun     == remote.state # "none"
Remaining == {w \in Workers : worker[w].pc # "left"}
Fewer(m, n) == IF m < n THEN m ELSE n

SentinelsLast ==
    \A i \in 1..Len(work) : work[i] = End <=> i + Cardinality(Workers) > Len(work)

OneSentinelEach ==
    Begun /\ go => Cardinality(Remaining) = Fewer(Len(work), Cardinality(Workers))

NoPartDropped ==
    caller.pc \in {"spawn", "wait"} /\ End \notin ToSet(results) =>
       \A p \in Parts : \/ p \in ToSet(work) \cup ToSet(results) \cup hashed
                        \/ \E w \in Workers : worker[w].pc = "busy" /\ worker[w].part = p

\* Who has started when.
Started ==
    /\ caller.pc \in {"wait", "join", "finish", "abort"}
       => \A w \in Workers : worker[w].pc # "off"
    /\ caller.pc \in {"initiate", "spawn", "wait"} => go
    /\ caller.pc \in {"spawn", "wait", "join", "finish", "abort"} => Begun
    /\ ~Begun => \A w \in Workers : worker[w].pc = "off"

QueueInv == SentinelsLast /\ OneSentinelEach /\ NoPartDropped /\ Started

LEMMA QueueInitHolds == TransferInit => QueueInv
<1> SUFFICES ASSUME TransferInit PROVE QueueInv
  OBVIOUS
<1>1. /\ work = <<>> /\ Len(work) = 0 /\ go /\ caller.pc = "initiate" /\ ~Begun
      /\ \A w \in Workers : worker[w].pc = "off"
  BY EmptySeq DEF TransferInit, Begun
<1> QED BY <1>1 DEF QueueInv, SentinelsLast, OneSentinelEach, NoPartDropped, Started

\* What the numbers are.
LEMMA ThreadCount ==
    /\ IsFiniteSet(Workers) /\ Cardinality(Workers) \in Nat
    /\ IsFiniteSet(Remaining) /\ Cardinality(Remaining) \in Nat
<1>1. Remaining \in SUBSET Workers
  BY DEF Remaining
<1> QED BY <1>1, WorkersAssumption, FS_Subset, FS_CardinalityType

\* The queue that is filled first has all parts, and the sentinels behind them.
LEMMA QueueFilled ==
    ASSUME TransferInv, QueueInv, Initiate, caller'.pc = "spawn"
    PROVE  QueueInv'
<1>1. /\ work' = [i \in Parts |-> i] \o Sentinels /\ Becomes("open")
      /\ UNCHANGED <<total, hashed, results, worker, go>> /\ caller.pc = "initiate"
  BY DEF Initiate, CallerTo, TransferInv, TransferTyped, Callers
<1>2. PICK m \in Nat, n \in Nat : m = total /\ n = Cardinality(Workers)
  BY ThreadCount DEF TransferInv, TransferTyped
<1>3. PICK S : S = Parts \cup {End}
  OBVIOUS
<1>4. PICK a, b : a = [i \in Parts |-> i] /\ b = Sentinels
  OBVIOUS
<1>5. a \in [1..m -> S] /\ b \in [1..n -> S]
  BY <1>2, <1>3, <1>4 DEF Parts, Sentinels
<1>6. a \in Seq(S) /\ b \in Seq(S) /\ DOMAIN a = 1..m /\ DOMAIN b = 1..n
  BY <1>5, SeqDef
<1>7. Len(a) = m /\ Len(b) = n
  BY <1>2, <1>6, LenProperties
<1>8. PICK q \in Seq(S) : q = a \o b
  BY <1>6, ConcatProperties
<1>9. Len(q) = m + n /\ \A i \in 1..m + n : q[i] = IF i <= m THEN a[i] ELSE b[i - m]
  <2>1. /\ Len(a \o b) = Len(a) + Len(b)
        /\ \A i \in 1..Len(a) + Len(b) : (a \o b)[i] = IF i <= Len(a) THEN a[i]
                                                        ELSE b[i - Len(a)]
    BY <1>6, ConcatProperties, Zenon
  <2> QED BY <1>7, <1>8, <2>1, Zenon
<1>10. \A i \in 1..m + n : q[i] = IF i <= m THEN i ELSE End
  <2> SUFFICES ASSUME NEW i \in 1..m + n PROVE q[i] = IF i <= m THEN i ELSE End
    OBVIOUS
  <2>1. CASE i <= m
    <3>1. i \in Parts
      BY <1>2, <2>1 DEF Parts
    <3> QED BY <1>4, <1>9, <2>1, <3>1
  <2>2. CASE ~(i <= m)
    <3>1. i - m \in 1..n
      BY <2>2
    <3> QED BY <1>2, <1>4, <1>9, <2>2, <3>1 DEF Sentinels
  <2> QED BY <2>1, <2>2
<1>11. work' = q /\ Len(work') = m + n
  BY <1>1, <1>4, <1>8, <1>9
<1>12. SentinelsLast'
  <2>1. \A i \in 1..m + n : q[i] = End <=> i + n > m + n
    BY <1>10 DEF End
  <2> QED BY <1>2, <1>11, <2>1 DEF SentinelsLast
<1>13. OneSentinelEach'
  <2>1. \A w \in Workers : worker[w].pc = "off"
    BY <1>1 DEF TransferInv, CallerKnows
  <2>2. Remaining' = Workers
    BY <1>1, <2>1 DEF Remaining
  <2>3. Fewer(m + n, n) = n
    BY DEF Fewer
  <2> QED BY <1>2, <1>11, <2>2, <2>3 DEF OneSentinelEach
<1>14. NoPartDropped'
  <2>1. \A p \in 1..m : p \in 1..m + n /\ q[p] = p
    BY <1>10
  <2>2. DOMAIN q = 1..m + n
    BY <1>9, LenProperties
  <2>3. \A p \in 1..m : p \in ToSet(q)
    BY <2>1, <2>2 DEF ToSet
  <2> QED BY <1>1, <1>2, <1>11, <2>3 DEF NoPartDropped, Parts
<1>15. Started'
  <2>1. remote'.state = "open"
    BY <1>1 DEF Becomes, TransferInv, TransferTyped
  <2>2. go
    BY <1>1 DEF QueueInv, Started
  <2> QED BY <1>1, <2>1, <2>2 DEF Started, Begun
<1> QED BY <1>12, <1>13, <1>14, <1>15 DEF QueueInv

\* The caller goes on; the queue of the threads stays, and so do they.
LEMMA CallerQueue ==
    ASSUME TransferInv, QueueInv, CallerStep, UNCHANGED <<total, work, worker>>,
           Begun' <=> Begun,
           Begun' /\ go' => Begun /\ go,
           NoPartDropped', Started'
    PROVE  QueueInv'
<1>1. Cardinality(Workers)' = Cardinality(Workers) /\ Remaining' = Remaining
  BY DEF Remaining
<1> QED BY <1>1 DEF QueueInv, SentinelsLast, OneSentinelEach, Fewer

LEMMA CallerKeepsQueue == TransferInv /\ QueueInv /\ CallerStep => QueueInv'
<1> SUFFICES ASSUME TransferInv, QueueInv, CallerStep PROVE QueueInv'
  OBVIOUS
<1>0. /\ TransferTyped /\ caller \in Callers /\ SentinelsLast /\ OneSentinelEach
      /\ NoPartDropped /\ Started
  BY DEF TransferInv, TransferTyped, QueueInv
<1>1. CASE Initiate
  <2>1. CASE caller'.pc = "spawn"
    BY <1>1, <2>1, QueueFilled
  <2>2. CASE caller'.pc # "spawn"
    <3>1. /\ caller'.pc = "raised" /\ UNCHANGED <<total, work, worker, remote, go>>
      BY <1>0, <1>1, <2>2 DEF Initiate, CallerTo, Callers
    <3>2. NoPartDropped' /\ Started'
      BY <1>0, <3>1 DEF NoPartDropped, Started, Begun
    <3> QED BY <3>1, <3>2, CallerQueue DEF Begun
  <2> QED BY <2>1, <2>2
<1>2. CASE Spawn
  <2>0. /\ caller.pc = "spawn" /\ UNCHANGED <<total, hashed, work, results, go, remote>>
        /\ Parts' = Parts
    BY <1>2 DEF Spawn, Parts
  <2>1. CASE CallerTo("wait") /\ UNCHANGED worker
                              /\ {w \in Workers : worker[w].pc = "off"} = {}
    <3>1. caller'.pc = "wait"
      BY <1>0, <2>1, CallerToType
    <3>2. NoPartDropped'
      BY <1>0, <2>0, <2>1 DEF NoPartDropped
    <3>3. Started'
      BY <1>0, <2>0, <2>1, <3>1 DEF Started, Begun
    <3> QED BY <2>0, <2>1, <3>2, <3>3, CallerQueue DEF Begun
  <2>2. CASE CallerTo("raised") /\ UNCHANGED worker
    <3>1. caller'.pc = "raised"
      BY <1>0, <2>2, CallerToType
    <3>2. NoPartDropped' /\ Started'
      BY <1>0, <2>0, <2>2, <3>1 DEF NoPartDropped, Started, Begun
    <3> QED BY <2>0, <2>2, <3>2, CallerQueue DEF Begun
  <2>3. ASSUME NEW w \in Workers, worker[w].pc = "off",
               worker' = [worker EXCEPT ![w].pc = "run"], UNCHANGED caller
        PROVE  QueueInv'
    <3>1. /\ worker'[w].pc = "run"
          /\ \A v \in Workers : v # w => worker'[v] = worker[v]
      BY <1>0, <2>3 DEF TransferTyped
    <3>2. Remaining' = Remaining
      BY <2>3, <3>1 DEF Remaining
    <3>3. \A v \in Workers : worker[v].pc = "busy" => worker'[v] = worker[v]
      BY <2>3, <3>1
    <3>4. NoPartDropped'
      BY <1>0, <2>0, <2>3, <3>3 DEF NoPartDropped
    <3>5. Started'
      BY <1>0, <2>0, <2>3, <3>1 DEF Started, Begun
    <3>6. SentinelsLast' /\ OneSentinelEach'
      BY <1>0, <2>0, <3>2 DEF SentinelsLast, OneSentinelEach, Begun, Fewer
    <3> QED BY <3>4, <3>5, <3>6 DEF QueueInv
  <2> QED BY <1>2, <2>1, <2>2, <2>3 DEF Spawn
<1>3. CASE Collect
  <2>0. /\ caller.pc = "wait" /\ UNCHANGED <<way, total, work, worker>> /\ Parts' = Parts
        /\ ToSet(results) = {Head(results)} \cup ToSet(results') /\ Begun
    BY <1>0, <1>3, HeadOff DEF Collect, Parts, TransferTyped, Started
  <2>1. CASE caller'.pc # "wait"
    <3>1. /\ caller'.pc \in {"join", "raised"} /\ remote'.state = remote.state
          /\ go' => go
      <4>1. CASE /\ caller' = [caller EXCEPT !.pc = "join", !.next = "abort"]
                 /\ go' = FALSE /\ UNCHANGED <<hashed, remote>>
        BY <1>0, <4>1 DEF Callers
      <4>2. CASE caller' = [caller EXCEPT !.got = @ + 1]
        BY <1>0, <2>0, <2>1, <4>2 DEF Callers
      <4>3. CASE CallerTo("raised") /\ UNCHANGED <<hashed, go, remote>>
        BY <1>0, <4>3, CallerToType
      <4> QED BY <1>3, <4>1, <4>2, <4>3 DEF Collect
    <3>2. NoPartDropped' /\ Started'
      BY <1>0, <2>0, <3>1 DEF NoPartDropped, Started, Begun
    <3> QED BY <2>0, <3>1, <3>2, CallerQueue DEF Begun
  <2>2. CASE caller'.pc = "wait"
    <3>1. /\ ~Failure(Head(results)) /\ hashed' = hashed \cup {Head(results)}
          /\ UNCHANGED go
          /\ remote' = IF way = "up" THEN remote ELSE
                         [remote EXCEPT !.parts = @ \cup {Head(results)}]
      BY <1>0, <1>3, <2>2 DEF Collect, CallerTo, Callers
    <3>2. remote'.state = remote.state
      BY <1>0, <3>1 DEF TransferTyped
    <3>3. NoPartDropped'
      BY <1>0, <2>0, <2>2, <3>1 DEF NoPartDropped, Failure
    <3>4. Started'
      BY <1>0, <2>0, <2>2, <3>1, <3>2 DEF Started, Begun
    <3> QED BY <2>0, <3>1, <3>2, <3>3, <3>4, CallerQueue DEF Begun
  <2> QED BY <2>1, <2>2
<1>4. CASE Collected \/ Joined \/ Finish \/ AbortUpload
  <2>1. /\ UNCHANGED <<total, work, worker>> /\ (go' => go)
        /\ caller.pc \in {"wait", "join", "finish", "abort"}
        /\ caller'.pc \in {"join", "finish", "abort", "done", "raised"}
    <3>1. CASE Collected
      BY <1>0, <3>1 DEF Collected, CallerTo, Callers
    <3>2. CASE Joined
      <4>1. caller'.pc = caller.next
        BY <1>0, <3>2 DEF Joined, CallerTo, Callers
      <4> QED BY <3>2, <4>1 DEF Joined, TransferInv, CallerKnows
    <3>3. CASE Finish
      BY <1>0, <3>3 DEF Finish, CallerTo, Callers
    <3>4. CASE AbortUpload
      BY <1>0, <3>4 DEF AbortUpload, CallerTo, Callers
    <3> QED BY <1>4, <3>1, <3>2, <3>3, <3>4
  <2>2. remote' = remote \/ remote'.state \in {"complete", "aborted"}
    BY <1>0, <1>4 DEF Collected, Joined, Finish, AbortUpload, Becomes, TransferTyped
  <2>3. Begun /\ Begun'
    BY <1>0, <2>1, <2>2 DEF Begun, Started
  <2>4. NoPartDropped' /\ Started'
    BY <1>0, <2>1, <2>3 DEF NoPartDropped, Started
  <2> QED BY <2>1, <2>3, <2>4, CallerQueue
<1> QED BY <1>1, <1>2, <1>3, <1>4 DEF CallerStep

\* What Take takes off the queue: a part as long as there are more entries than
\* sentinels, and then a sentinel.
LEMMA QueueTail ==
    ASSUME TransferTyped, SentinelsLast, work # <<>>, work' = Tail(work)
    PROVE  /\ SentinelsLast' /\ Len(work) \in Nat /\ Len(work) > 0
           /\ Len(work') = Len(work) - 1
           /\ Head(work) = End <=> Cardinality(Workers) >= Len(work)
<1>1. PICK m \in Nat, n \in Nat : Len(work) = m + 1 /\ n = Cardinality(Workers)
  <2>1. Len(work) \in Nat /\ Len(work) # 0
    BY LenProperties, EmptySeq DEF TransferTyped
  <2>2. Len(work) - 1 \in Nat
    BY <2>1
  <2> QED BY <2>1, <2>2, ThreadCount
<1>2. PICK t \in Seq(Parts \cup {End}) : t = Tail(work)
  BY HeadTailProperties DEF TransferTyped
<1>3. Head(work) = work[1] /\ Len(t) = m /\ \A i \in 1..m : t[i] = work[i + 1]
  BY <1>1, <1>2, HeadTailProperties DEF TransferTyped
<1>4. \A i \in 1..m + 1 : work[i] = End <=> i + n > m + 1
  BY <1>1 DEF SentinelsLast
<1>5. \A i \in 1..m : t[i] = End <=> i + n > m
  <2> SUFFICES ASSUME NEW i \in 1..m PROVE t[i] = End <=> i + n > m
    OBVIOUS
  <2>1. PICK j \in 1..m + 1 : j = i + 1
    OBVIOUS
  <2>2. t[i] = work[j] /\ (j + n > m + 1 <=> i + n > m)
    BY <1>1, <1>3, <2>1
  <2> QED BY <1>4, <2>2
<1>6. SentinelsLast'
  BY <1>1, <1>2, <1>3, <1>5 DEF SentinelsLast
<1>7. Head(work) = End <=> n >= m + 1
  <2>1. 1 \in 1..m + 1 /\ (1 + n > m + 1 <=> n >= m + 1)
    OBVIOUS
  <2> QED BY <1>3, <1>4, <2>1
<1> QED BY <1>1, <1>2, <1>3, <1>6, <1>7

\* A thread leaves: it has taken a sentinel, or has seen that it should.
LEMMA LeaveKeepsQueue ==
    ASSUME TransferInv, QueueInv, NEW w \in Workers, worker[w].pc = "run",
           worker' = [worker EXCEPT ![w].pc = "left"],
           UNCHANGED <<total, caller, hashed, results, go, remote>>,
           \/ ~go /\ UNCHANGED work
           \/ work # <<>> /\ Head(work) = End /\ work' = Tail(work)
    PROVE  QueueInv'
<1>0. /\ TransferTyped /\ SentinelsLast /\ OneSentinelEach /\ NoPartDropped /\ Started
  BY DEF TransferInv, QueueInv
<1>1. /\ worker'[w].pc = "left" /\ \A v \in Workers : v # w => worker'[v] = worker[v]
      /\ Parts' = Parts
  BY <1>0 DEF TransferTyped, Parts
<1>2. Started'
  BY <1>0, <1>1 DEF Started, Begun
<1>3. \A v \in Workers : worker[v].pc = "busy" => worker'[v] = worker[v]
  BY <1>1
<1>4. NoPartDropped'
  <2>1. ASSUME NEW p \in Parts, p \in ToSet(work) PROVE p \in ToSet(work')
    <3>1. CASE work # <<>> /\ Head(work) = End /\ work' = Tail(work)
      <4>1. ToSet(work) = {End} \cup ToSet(work')
        BY <1>0, <3>1, HeadOff DEF TransferTyped
      <4>2. p # End
        BY <1>0 DEF Parts, End, TransferTyped
      <4> QED BY <2>1, <4>1, <4>2
    <3> QED BY <2>1, <3>1
  <2> QED BY <1>0, <1>1, <1>3, <2>1 DEF NoPartDropped
<1>5. Remaining' = Remaining \ {w} /\ w \in Remaining
  BY <1>1 DEF Remaining
<1>6. CASE ~go /\ UNCHANGED work
  <2>1. SentinelsLast' /\ OneSentinelEach'
    BY <1>0, <1>6 DEF SentinelsLast, OneSentinelEach
  <2> QED BY <1>2, <1>4, <2>1 DEF QueueInv
<1>7. CASE work # <<>> /\ Head(work) = End /\ work' = Tail(work)
  <2>1. PICK m \in Nat, n \in Nat, r \in Nat :
           m = Len(work) /\ n = Cardinality(Workers) /\ r = Cardinality(Remaining)
    BY <1>0, <1>7, QueueTail, ThreadCount
  <2>2. SentinelsLast' /\ m > 0 /\ Len(work') = m - 1 /\ n >= m
    BY <1>0, <1>7, <2>1, QueueTail
  <2>3. Cardinality(Remaining') = r - 1
    BY <1>5, <2>1, ThreadCount, FS_RemoveElement
  <2>4. OneSentinelEach'
    <3>1. Begun /\ go => r = m
      BY <1>0, <2>1, <2>2 DEF OneSentinelEach, Fewer
    <3>2. Fewer(m - 1, n) = m - 1
      BY <2>1, <2>2 DEF Fewer
    <3>3. Begun' /\ go' => Begun /\ go
      BY DEF Begun
    <3>4. OneSentinelEach' <=> (Begun' /\ go' => Cardinality(Remaining')
                                                    = Fewer(Len(work'), Cardinality(Workers)))
      BY DEF OneSentinelEach, Fewer
    <3> QED BY <2>1, <2>2, <2>3, <3>1, <3>2, <3>3, <3>4
  <2> QED BY <1>2, <1>4, <2>2, <2>4 DEF QueueInv
<1> QED BY <1>6, <1>7

LEMMA TakeKeepsQueue ==
    ASSUME TransferInv, QueueInv, NEW w \in Workers, Take(w)
    PROVE  QueueInv'
<1>0. /\ TransferTyped /\ SentinelsLast /\ OneSentinelEach /\ NoPartDropped /\ Started
      /\ worker[w].pc = "run" /\ UNCHANGED <<total, caller, hashed, results, go, remote>>
  BY DEF TransferInv, QueueInv, Take
<1>1. CASE ~go /\ worker' = [worker EXCEPT ![w].pc = "left"] /\ UNCHANGED work
  BY <1>0, <1>1, LeaveKeepsQueue
<1>2. CASE /\ work # <<>>
           /\ worker' = [worker EXCEPT
                           ![w] = IF Head(work) = End
                                  THEN [@ EXCEPT !.pc = "left"]
                                  ELSE [pc |-> "busy", part |-> Head(work), tries |-> 0]]
           /\ work' = Tail(work)
  <2>1. CASE Head(work) = End
    <3>1. worker' = [worker EXCEPT ![w].pc = "left"]
      BY <1>2, <2>1
    <3> QED BY <1>0, <1>2, <2>1, <3>1, LeaveKeepsQueue
  <2>2. CASE Head(work) # End
    <3>1. /\ worker'[w].pc = "busy" /\ worker'[w].part = Head(work)
          /\ \A v \in Workers : v # w => worker'[v] = worker[v]
      BY <1>0, <1>2, <2>2 DEF TransferTyped
    <3>2. /\ Remaining' = Remaining /\ Parts' = Parts
          /\ \A v \in Workers : worker[v].pc = "busy" => worker'[v] = worker[v]
      BY <1>0, <3>1 DEF Remaining, Parts
    <3>3. ToSet(work) = {Head(work)} \cup ToSet(work')
      BY <1>0, <1>2, HeadOff DEF TransferTyped
    <3>4. NoPartDropped'
      BY <1>0, <3>1, <3>2, <3>3 DEF NoPartDropped
    <3>5. Started'
      BY <1>0, <3>1 DEF Started, Begun
    <3>6. PICK m \in Nat, n \in Nat, r \in Nat :
             m = Len(work) /\ n = Cardinality(Workers) /\ r = Cardinality(Remaining)
      BY <1>0, <1>2, QueueTail, ThreadCount
    <3>7. SentinelsLast' /\ m > 0 /\ Len(work') = m - 1 /\ n < m
      BY <1>0, <1>2, <2>2, <3>6, QueueTail
    <3>8. OneSentinelEach'
      <4>1. Begun /\ go => r = n
        BY <1>0, <3>6, <3>7 DEF OneSentinelEach, Fewer
      <4>2. Fewer(m - 1, n) = n
        BY <3>6, <3>7 DEF Fewer
      <4>3. OneSentinelEach' <=> (Begun /\ go => Cardinality(Remaining')
                                                    = Fewer(Len(work'), Cardinality(Workers)))
        BY <1>0 DEF OneSentinelEach, Fewer, Begun
      <4> QED BY <3>2, <3>6, <3>7, <4>1, <4>2, <4>3
    <3> QED BY <3>4, <3>5, <3>7, <3>8 DEF QueueInv
  <2> QED BY <2>1, <2>2
<1> QED BY <1>1, <1>2 DEF Take

\* What a thread does with a part leaves the queue as it is.
LEMMA PartKeepsQueue ==
    ASSUME TransferInv, QueueInv, NEW w \in Workers, PartDone(w) \/ PartFails(w)
    PROVE  QueueInv'
<1>0. /\ TransferTyped /\ SentinelsLast /\ OneSentinelEach /\ NoPartDropped /\ Started
      /\ worker[w].pc = "busy" /\ UNCHANGED <<total, caller, hashed, work, go>>
      /\ Parts' = Parts /\ worker[w].part \in Parts \cup {End}
      /\ results \in Seq(Parts \cup {End})
  BY DEF TransferInv, TransferTyped, Threads, QueueInv, PartDone, PartFails, Parts
<1>1. remote'.state = remote.state /\ (Begun' <=> Begun)
  <2>1. remote'.state = remote.state
    BY <1>0 DEF PartDone, PartFails, TransferTyped
  <2> QED BY <2>1 DEF Begun
<1>2. /\ \A v \in Workers : v # w => worker'[v] = worker[v]
      /\ \/ /\ worker'[w].pc = "busy" /\ worker'[w].part = worker[w].part
            /\ results' = results
         \/ /\ worker'[w].pc = "run"
            /\ ToSet(results') = ToSet(results) \cup {worker[w].part}
         \/ /\ worker'[w].pc = "run" /\ ToSet(results') = ToSet(results) \cup {End}
  <2>1. ASSUME NEW x \in {worker[w].part, End}, Put(w, x)
        PROVE  /\ \A v \in Workers : v # w => worker'[v] = worker[v]
               /\ worker'[w].pc = "run" /\ ToSet(results') = ToSet(results) \cup {x}
    <3>1. x \in Parts \cup {End}
      BY <1>0
    <3>2. ToSet(results') = ToSet(results) \cup {x}
      BY <1>0, <2>1, <3>1, AddedOn DEF Put
    <3> QED BY <1>0, <2>1, <3>2 DEF Put, TransferTyped, Threads
  <2>2. CASE PartDone(w)
    BY <2>1, <2>2 DEF PartDone
  <2>3. CASE PartFails(w) /\ Put(w, End)
    BY <2>1, <2>3
  <2>4. CASE UNCHANGED results /\ worker' = [worker EXCEPT ![w].tries = @ + 1]
    BY <1>0, <2>4 DEF TransferTyped, Threads
  <2> QED BY <2>2, <2>3, <2>4 DEF PartFails
<1>3. Remaining' = Remaining
  BY <1>0, <1>2 DEF Remaining
<1>4. SentinelsLast' /\ OneSentinelEach'
  BY <1>0, <1>1, <1>3 DEF SentinelsLast, OneSentinelEach, Fewer
<1>5. Started'
  BY <1>0, <1>1, <1>2 DEF Started
<1>6. NoPartDropped'
  <2> SUFFICES ASSUME caller'.pc \in {"spawn", "wait"}, End \notin ToSet(results'),
                      NEW p \in Parts
               PROVE  \/ p \in ToSet(work') \cup ToSet(results') \cup hashed'
                      \/ \E v \in Workers : worker'[v].pc = "busy" /\ worker'[v].part = p
    BY <1>0 DEF NoPartDropped
  <2>1. ToSet(results) \subseteq ToSet(results')
    BY <1>2
  <2>2. \/ p \in ToSet(work) \cup ToSet(results) \cup hashed
        \/ \E v \in Workers : worker[v].pc = "busy" /\ worker[v].part = p
    BY <1>0, <2>1 DEF NoPartDropped
  <2>3. CASE p \in ToSet(work) \cup ToSet(results) \cup hashed
    BY <1>0, <2>1, <2>3
  <2>4. ASSUME NEW v \in Workers, worker[v].pc = "busy", worker[v].part = p
        PROVE  \/ p \in ToSet(results')
               \/ worker'[v].pc = "busy" /\ worker'[v].part = p
    BY <1>2, <2>4
  <2> QED BY <2>2, <2>3, <2>4
<1> QED BY <1>4, <1>5, <1>6 DEF QueueInv

LEMMA QueueInvHolds == TransferSpec => []QueueInv
<1>1. TransferInv /\ QueueInv /\ [TransferNext]_transferVars => QueueInv'
  <2> SUFFICES ASSUME TransferInv, QueueInv, [TransferNext]_transferVars PROVE QueueInv'
    OBVIOUS
  <2>1. CASE CallerStep
    BY <2>1, CallerKeepsQueue
  <2>2. CASE \E w \in Workers : WorkerStep(w)
    BY <2>2, TakeKeepsQueue, PartKeepsQueue DEF WorkerStep
  <2>3. CASE UNCHANGED transferVars
    BY <2>3 DEF transferVars, QueueInv, SentinelsLast, OneSentinelEach, NoPartDropped,
                Started, Begun, Remaining, Fewer, Parts
  <2> QED BY <2>1, <2>2, <2>3 DEF TransferNext
<1> QED BY <1>1, TransferInvHolds, QueueInitHolds, PTL DEF TransferSpec

\* A thread that runs finds an entry in the queue, or sees that it should stop; a
\* caller that waits for a result, or for the threads, waits for one that is there.
NoneWaitsInVain ==
    /\ \A w \in Workers : worker[w].pc = "run" /\ go => work # <<>>
    /\ caller.pc = "wait" /\ caller.got < total /\ results = <<>>
       => \E w \in Workers : worker[w].pc \in {"run", "busy"}
    /\ caller.pc = "join" /\ ~AllHaveLeft
       => \E w \in Workers : worker[w].pc \in {"run", "busy"}

\* The transfer never hangs, as one without a thread, or with too few sentinels,
\* would: the queues are of any length, the threads any number but none (upload and
\* download, and run of TransferThread, glacier/concurrent.py).
THEOREM NeverHangs ==
    ASSUME Workers # {}
    PROVE  TransferSpec => []NoneWaitsInVain
<1>1. TransferInv /\ QueueInv => NoneWaitsInVain
  <2> SUFFICES ASSUME TransferInv, QueueInv PROVE NoneWaitsInVain
    OBVIOUS
  <2>1. PICK m \in Nat, n \in Nat, r \in Nat :
           /\ m = Len(work) /\ n = Cardinality(Workers) /\ r = Cardinality(Remaining)
           /\ n > 0 /\ (m = 0 <=> work = <<>>)
    <3>1. Len(work) \in Nat /\ (Len(work) = 0 <=> work = <<>>)
      BY LenProperties, EmptySeq DEF TransferInv, TransferTyped
    <3>2. Cardinality(Workers) # 0
      BY WorkersAssumption, FS_EmptySet
    <3> QED BY <3>1, <3>2, ThreadCount
  <2>2. Begun /\ go => r = Fewer(m, n)
    BY <2>1 DEF QueueInv, OneSentinelEach
  <2>3. \A w \in Workers : worker[w].pc \in {"off", "run", "busy", "left"}
    BY DEF TransferInv, TransferTyped, Threads
  <2>4. ASSUME NEW w \in Workers, worker[w].pc = "run", go PROVE work # <<>>
    <3>1. Begun /\ w \in Remaining
      BY <2>4 DEF QueueInv, Started, Remaining
    <3>2. r # 0
      BY <2>1, <3>1, ThreadCount, FS_EmptySet
    <3> QED BY <2>1, <2>2, <2>4, <3>1, <3>2 DEF Fewer
  <2>5. ASSUME caller.pc = "wait", caller.got < total, results = <<>>,
               \A w \in Workers : worker[w].pc \notin {"run", "busy"}
        PROVE  FALSE
    <3>1. /\ \A w \in Workers : worker[w].pc = "left"
          /\ Begun /\ go
      BY <2>3, <2>5 DEF QueueInv, Started
    <3>2. Remaining = {} /\ r = 0
      BY <2>1, <3>1, FS_EmptySet DEF Remaining
    <3>3. work = <<>>
      BY <2>1, <2>2, <3>1, <3>2 DEF Fewer
    <3>4. ToSet(work) = {} /\ ToSet(results) = {}
      BY <2>5, <3>3, EmptyQueue
    <3>5. Parts \subseteq hashed
      BY <2>5, <3>1, <3>4 DEF QueueInv, NoPartDropped
    <3>6. hashed = Parts /\ caller.got = Cardinality(hashed) /\ total \in Nat
      BY <3>5 DEF TransferInv, TransferTyped, GotIsHashed
    <3>7. Cardinality(1..total) = total
      BY <3>6, FS_Interval, SMTT(60)
    <3> QED BY <2>5, <3>6, <3>7 DEF Parts
  <2>6. ASSUME caller.pc = "join", ~AllHaveLeft
        PROVE  \E w \in Workers : worker[w].pc \in {"run", "busy"}
    BY <2>3, <2>6 DEF QueueInv, Started, AllHaveLeft
  <2> QED BY <2>4, <2>5, <2>6 DEF NoneWaitsInVain
<1> QED BY <1>1, TransferInvHolds, QueueInvHolds, PTL

-----------------------------------------------------------------------------
(* The transfer comes to its end.                                          *)

\* The steps a thread has left, at most, once the queue is filled: for each entry
\* it may take it, try the part as often as it may, and put the result.
Rank(w) == CASE worker[w].pc = "busy" -> WRetries + 2 - worker[w].tries
             [] worker[w].pc \in {"off", "run"} -> 1
             [] OTHER -> 0
ThreadLeft(w) == (WRetries + 4) * Len(work) + Rank(w)

\* The steps the caller has left, at most.
Unstarted == {w \in Workers : worker[w].pc = "off"}
CallerLeft == CASE caller.pc = "initiate" -> total + Cardinality(Workers) + 6
                [] caller.pc = "spawn" -> total + Cardinality(Unstarted) + 5
                [] caller.pc = "wait" -> total - caller.got + 4
                [] caller.pc = "join" -> 3
                [] caller.pc \in {"finish", "abort"} -> 2
                [] OTHER -> 0

\* Each comes closer by steps of its own, and by those of others no further away.
TransferComesCloser ==
    /\ IF CallerStep THEN CallerLeft' < CallerLeft ELSE CallerLeft' = CallerLeft
    /\ caller.pc # "initiate" =>
          \A w \in Workers : IF WorkerStep(w) THEN ThreadLeft(w)' < ThreadLeft(w)
                                              ELSE ThreadLeft(w)' <= ThreadLeft(w)

TransferNumbered ==
    /\ CallerLeft \in Nat /\ (CallerLeft = 0 <=> caller.pc \in {"done", "raised"})
    /\ \A w \in Workers : ThreadLeft(w) \in Nat

\* What is known of the places the caller and the threads are at.
TransferPlaces ==
    /\ caller \in Callers
    /\ caller.pc \in {"initiate", "spawn", "wait", "join", "finish", "abort", "done",
                      "raised"}
    /\ total \in Nat /\ caller.got \in Nat /\ caller.got <= total
    /\ IsFiniteSet(Unstarted) /\ Cardinality(Unstarted) \in Nat
    /\ Cardinality(Unstarted) <= Cardinality(Workers) /\ Cardinality(Workers) \in Nat
    /\ worker \in [Workers -> Threads]
    /\ \A w \in Workers : /\ worker[w].pc \in {"off", "run", "busy", "left"}
                          /\ worker[w].tries \in 0..WRetries
    /\ Len(work) \in Nat

LEMMA PlacesHold == TransferInv => TransferPlaces
<1> SUFFICES ASSUME TransferInv PROVE TransferPlaces
  OBVIOUS
<1>1. /\ caller \in Callers /\ worker \in [Workers -> Threads] /\ total \in Nat
      /\ caller.pc \in {"initiate", "spawn", "wait", "join", "finish", "abort", "done",
                        "raised"}
      /\ \A w \in Workers : /\ worker[w].pc \in {"off", "run", "busy", "left"}
                            /\ worker[w].tries \in 0..WRetries
  BY DEF TransferInv, TransferTyped, Callers, Threads
<1>2. Len(work) \in Nat
  BY LenProperties DEF TransferInv, TransferTyped
<1>3. /\ IsFiniteSet(Unstarted) /\ Cardinality(Unstarted) \in Nat
      /\ Cardinality(Unstarted) <= Cardinality(Workers) /\ Cardinality(Workers) \in Nat
  <2>1. Unstarted \in SUBSET Workers
    BY DEF Unstarted
  <2> QED BY <2>1, WorkersAssumption, FS_Subset, FS_CardinalityType
<1>4. caller.got \in Nat /\ caller.got <= total
  <2>1. 1 \in Int /\ total \in Int
    BY <1>1
  <2>2. /\ IsFiniteSet(1..total)
        /\ Cardinality(1..total) = IF 1 > total THEN 0 ELSE total - 1 + 1
    BY <2>1, FS_Interval, Zenon
  <2>3. Cardinality(1..total) = total
    BY <1>1, <2>2
  <2>4. hashed \in SUBSET (1..total)
    BY DEF TransferInv, TransferTyped, Parts
  <2>5. Cardinality(hashed) <= total /\ Cardinality(hashed) \in Nat
    BY <2>2, <2>3, <2>4, FS_Subset, FS_CardinalityType
  <2> QED BY <1>1, <2>5 DEF TransferInv, GotIsHashed
<1> QED BY <1>1, <1>2, <1>3, <1>4 DEF TransferPlaces

LEMMA PlacesHoldNext == TransferInv' => TransferPlaces'
  BY PlacesHold, PTL

LEMMA PlacesNumbered == TransferPlaces => TransferNumbered
<1> SUFFICES ASSUME TransferPlaces PROVE TransferNumbered
  OBVIOUS
<1>1. CallerLeft \in Nat /\ (CallerLeft = 0 <=> caller.pc \in {"done", "raised"})
  <2>1. PICK n \in Nat, u \in Nat, t \in Nat, g \in Nat :
           /\ n = Cardinality(Workers) /\ u = Cardinality(Unstarted)
           /\ t = total /\ g = caller.got /\ g <= t
    BY Zenon DEF TransferPlaces
  <2>2. caller.pc \in {"initiate", "spawn", "wait", "join", "finish", "abort", "done",
                      "raised"}
    BY DEF TransferPlaces
  <2> QED BY <2>1, <2>2 DEF CallerLeft
<1>2. ASSUME NEW w \in Workers PROVE ThreadLeft(w) \in Nat
  <2>1. Rank(w) \in Nat
    BY DEF TransferPlaces, Rank
  <2>2. \A a, b \in Nat : a * b \in Nat
    OBVIOUS
  <2>3. (WRetries + 4) * Len(work) \in Nat
    BY <2>2 DEF TransferPlaces
  <2> QED BY <2>1, <2>3 DEF ThreadLeft
<1> QED BY <1>1, <1>2 DEF TransferNumbered

LEMMA CallerCloser ==
    TransferInv /\ TransferPlaces /\ CallerStep => CallerLeft' < CallerLeft
<1> SUFFICES ASSUME TransferInv, TransferPlaces, CallerStep PROVE CallerLeft' < CallerLeft
  OBVIOUS
<1>0. PICK n \in Nat, u \in Nat, t \in Nat, g \in Nat :
         /\ n = Cardinality(Workers) /\ u = Cardinality(Unstarted) /\ u <= n
         /\ t = total /\ g = caller.got /\ g <= t
  BY Zenon DEF TransferPlaces
<1>1. TransferTyped /\ caller \in Callers
  BY DEF TransferInv, TransferPlaces
<1>2. CASE Initiate
  <2>1. /\ caller.pc = "initiate" /\ total' = total /\ worker' = worker
        /\ caller'.pc \in {"spawn", "raised"}
    BY <1>1, <1>2, CallerToType DEF Initiate
  <2>2. Unstarted' = Unstarted
    BY <2>1 DEF Unstarted
  <2> QED BY <1>0, <2>1, <2>2 DEF CallerLeft
<1>3. CASE Spawn
  <2>1. caller.pc = "spawn" /\ total' = total
    BY <1>3 DEF Spawn
  <2>2. CASE \E pc \in {"wait", "raised"} : CallerTo(pc)
    <3>1. caller'.pc \in {"wait", "raised"} /\ caller'.got = caller.got
      BY <1>1, <2>2, CallerToType
    <3> QED BY <1>0, <2>1, <3>1 DEF CallerLeft
  <2>3. ASSUME NEW w \in Workers, worker[w].pc = "off",
               worker' = [worker EXCEPT ![w].pc = "run"], UNCHANGED caller
        PROVE  CallerLeft' < CallerLeft
    <3>1. /\ worker'[w].pc = "run"
          /\ \A v \in Workers : v # w => worker'[v] = worker[v]
      BY <2>3 DEF TransferPlaces, Threads
    <3>2. Unstarted' = Unstarted \ {w} /\ w \in Unstarted
      BY <2>3, <3>1 DEF Unstarted
    <3>3. Cardinality(Unstarted') = u - 1
      <4>1. IsFiniteSet(Unstarted)
        BY DEF TransferPlaces
      <4> QED BY <1>0, <3>2, <4>1, FS_RemoveElement
    <3> QED BY <1>0, <2>1, <2>3, <3>3 DEF CallerLeft
  <2> QED BY <1>3, <2>2, <2>3 DEF Spawn
<1>4. CASE Collect
  <2>1. caller.pc = "wait" /\ total' = total /\ caller.got < total
    BY <1>4 DEF Collect
  <2>2. CASE caller' = [caller EXCEPT !.pc = "join", !.next = "abort"]
    <3>1. caller'.pc = "join"
      BY <1>1, <2>2 DEF Callers
    <3> QED BY <1>0, <2>1, <3>1 DEF CallerLeft
  <2>3. CASE caller' = [caller EXCEPT !.got = @ + 1]
    <3>1. caller'.pc = "wait" /\ caller'.got = g + 1
      BY <1>0, <1>1, <2>1, <2>3 DEF Callers
    <3> QED BY <1>0, <2>1, <3>1 DEF CallerLeft
  <2>4. CASE CallerTo("raised")
    <3>1. caller'.pc = "raised"
      BY <1>1, <2>4, CallerToType
    <3> QED BY <1>0, <2>1, <3>1 DEF CallerLeft
  <2> QED BY <1>4, <2>2, <2>3, <2>4 DEF Collect
<1>5. CASE Collected
  <2>1. caller.pc = "wait" /\ caller'.pc \in {"join", "raised"}
    BY <1>1, <1>5 DEF Collected, CallerTo, Callers
  <2> QED BY <1>0, <2>1 DEF CallerLeft
<1>6. CASE Joined
  <2>1. caller'.pc = caller.next /\ caller.pc = "join"
    BY <1>1, <1>6, CallerToType DEF Joined, CallerTo, Callers
  <2>2. caller'.pc \in {"finish", "abort"}
    BY <2>1 DEF TransferInv, CallerKnows
  <2> QED BY <2>1, <2>2 DEF CallerLeft
<1>7. CASE Finish
  <2>1. caller.pc = "finish" /\ caller'.pc \in {"done", "raised"}
    BY <1>1, <1>7 DEF Finish, CallerTo, Callers
  <2> QED BY <2>1 DEF CallerLeft
<1>8. CASE AbortUpload
  <2>1. caller.pc = "abort" /\ caller'.pc = "raised"
    BY <1>1, <1>8, CallerToType DEF AbortUpload
  <2> QED BY <2>1 DEF CallerLeft
<1> QED BY <1>2, <1>3, <1>4, <1>5, <1>6, <1>7, <1>8 DEF CallerStep

\* The caller takes nothing from the queue, and starts threads only.
LEMMA CallerKeepsThreads ==
    ASSUME TransferPlaces, CallerStep, caller.pc # "initiate", NEW w \in Workers
    PROVE  ThreadLeft(w)' = ThreadLeft(w)
<1>1. work' = work
  BY DEF CallerStep, Initiate, Spawn, Collect, Collected, Joined, Finish, AbortUpload
<1>2. worker'[w] = worker[w] \/ (worker[w].pc = "off" /\ worker'[w].pc = "run")
  <2>1. CASE Spawn
    <3>1. ASSUME NEW v \in Workers, worker[v].pc = "off",
                 worker' = [worker EXCEPT ![v].pc = "run"]
          PROVE  worker'[w] = worker[w] \/ (worker[w].pc = "off" /\ worker'[w].pc = "run")
      BY <3>1 DEF TransferPlaces, Threads
    <3> QED BY <2>1, <3>1 DEF Spawn
  <2>2. CASE ~Spawn
    BY <2>2 DEF CallerStep, Initiate, Collect, Collected, Joined, Finish, AbortUpload
  <2> QED BY <2>1, <2>2
<1>3. Rank(w)' = Rank(w)
  BY <1>2 DEF Rank
<1> QED BY <1>1, <1>3 DEF ThreadLeft

LEMMA RankIsNumber == ASSUME TransferPlaces, NEW w \in Workers PROVE Rank(w) \in Nat
<1>1. WRetries \in Nat /\ worker[w].tries \in 0..WRetries
  BY SizesAssumption DEF TransferPlaces
<1>2. WRetries + 2 - worker[w].tries \in Nat
  BY <1>1
<1> QED BY <1>2 DEF Rank

\* A thread that works comes closer, and takes nothing that is not taken off the
\* queue for all.
LEMMA ThreadCloser ==
    ASSUME TransferInv, TransferPlaces, NEW w \in Workers, WorkerStep(w)
    PROVE  /\ ThreadLeft(w)' < ThreadLeft(w)
           /\ \A v \in Workers : v # w => ThreadLeft(v)' <= ThreadLeft(v)
           /\ CallerLeft' = CallerLeft
<1>0. PICK m \in Nat, k \in Nat, r \in Nat :
         /\ m = Len(work) /\ k = WRetries + 4 /\ r = Rank(w) /\ k * m \in Nat
  <2>1. Rank(w) \in Nat /\ WRetries \in Nat
    BY RankIsNumber, SizesAssumption
  <2>2. \A a, b \in Nat : a * b \in Nat
    OBVIOUS
  <2>3. Len(work) \in Nat /\ WRetries + 4 \in Nat
    BY <2>1 DEF TransferPlaces
  <2>4. (WRetries + 4) * Len(work) \in Nat
    BY <2>2, <2>3
  <2> QED BY <2>1, <2>3, <2>4, Zenon
<1>1. \A v \in Workers : v # w => worker'[v] = worker[v]
  BY DEF TransferPlaces, WorkerStep, Take, PartDone, PartFails, Put
<1>2. \A v \in Workers : v # w => Rank(v)' = Rank(v) /\ Rank(v) \in Nat
  <2>1. ASSUME NEW v \in Workers, v # w PROVE Rank(v)' = Rank(v)
    BY <1>1, <2>1 DEF Rank
  <2>2. ASSUME NEW v \in Workers PROVE Rank(v) \in Nat
    BY RankIsNumber
  <2> QED BY <2>1, <2>2
<1>3. \/ work' = work /\ Rank(w)' < r
      \/ work # <<>> /\ work' = Tail(work) /\ Rank(w)' < r + k
  <2>1. CASE Take(w)
    <3>1. worker[w].pc = "run" /\ r = 1
      BY <1>0, <2>1 DEF Take, Rank
    <3>2. CASE worker' = [worker EXCEPT ![w].pc = "left"] /\ UNCHANGED work
      <4>1. worker'[w].pc = "left"
        BY <3>2 DEF TransferPlaces, Threads
      <4>2. Rank(w)' = 0
        BY <4>1 DEF Rank
      <4> QED BY <3>1, <3>2, <4>2
    <3>3. CASE /\ work # <<>> /\ work' = Tail(work)
               /\ worker' = [worker EXCEPT
                               ![w] = IF Head(work) = End
                                      THEN [@ EXCEPT !.pc = "left"]
                                      ELSE [pc |-> "busy", part |-> Head(work),
                                            tries |-> 0]]
      <4>1. \/ worker'[w].pc = "left"
            \/ worker'[w].pc = "busy" /\ worker'[w].tries = 0
        BY <3>3 DEF TransferPlaces, Threads
      <4>2. Rank(w)' \in {0, WRetries + 2}
        BY <4>1 DEF Rank
      <4> QED BY <1>0, <3>1, <3>3, <4>2
    <3> QED BY <2>1, <3>2, <3>3 DEF Take
  <2>2. CASE PartDone(w) \/ PartFails(w)
    <3>1. /\ work' = work /\ worker[w].pc = "busy" /\ worker[w].tries \in 0..WRetries
          /\ r = WRetries + 2 - worker[w].tries
      BY <1>0, <2>2 DEF PartDone, PartFails, Rank, TransferPlaces
    <3>2. CASE worker' = [worker EXCEPT ![w].pc = "run"]
      <4>1. worker'[w].pc = "run"
        BY <3>2 DEF TransferPlaces, Threads
      <4>2. Rank(w)' = 1
        BY <4>1 DEF Rank
      <4> QED BY <3>1, <4>2
    <3>3. CASE worker' = [worker EXCEPT ![w].tries = @ + 1]
      <4>1. worker'[w].pc = "busy" /\ worker'[w].tries = worker[w].tries + 1
        BY <3>1, <3>3 DEF TransferPlaces, Threads
      <4>2. Rank(w)' = WRetries + 2 - (worker[w].tries + 1)
        BY <4>1 DEF Rank
      <4>3. WRetries \in Nat /\ worker[w].tries \in Nat
        BY <3>1, SizesAssumption
      <4>4. Rank(w)' < r
        BY <3>1, <4>2, <4>3
      <4> QED BY <3>1, <4>4
    <3> QED BY <2>2, <3>2, <3>3 DEF PartDone, PartFails, Put
  <2> QED BY <2>1, <2>2 DEF WorkerStep
<1>4. \/ work' = work /\ Len(work') = m /\ Rank(w)' < r
      \/ /\ m > 0 /\ Len(work') = m - 1 /\ k * (m - 1) = k * m - k
         /\ Rank(w)' < r + k
  <2>1. CASE work # <<>> /\ work' = Tail(work) /\ Rank(w)' < r + k
    <3>1. m > 0 /\ Len(work') = m - 1
      BY <1>0, <2>1, HeadTailProperties, EmptySeq, LenProperties
         DEF TransferInv, TransferTyped
    <3>2. k * (m - 1) = k * m - k
      BY <1>0
    <3> QED BY <2>1, <3>1, <3>2
  <2> QED BY <1>0, <1>3, <2>1
<1>5. Rank(w)' \in Nat
  <2>1. \/ worker'[w].pc \in {"off", "run", "left"}
        \/ worker'[w].pc = "busy" /\ worker'[w].tries \in 0..WRetries
    <3>1. TransferPlaces'
      <4>1. TransferInv'
        BY TakeKeeps, PartDoneKeeps, PartFailsKeeps DEF WorkerStep
      <4> QED BY <4>1, PlacesHoldNext
    <3> QED BY <3>1 DEF TransferPlaces
  <2> QED BY <2>1 DEF Rank
<1>6. ThreadLeft(w)' < ThreadLeft(w)
  <2>1. ThreadLeft(w) = k * m + r /\ ThreadLeft(w)' = k * Len(work') + Rank(w)'
    BY <1>0 DEF ThreadLeft
  <2>2. PICK q \in Nat, x \in Nat : q = k * m /\ x = Rank(w)'
    BY <1>0, <1>5
  <2>3. CASE Len(work') = m /\ x < r
    <3>1. ThreadLeft(w)' = q + x
      BY <2>1, <2>2, <2>3
    <3> QED BY <2>1, <2>2, <2>3, <3>1
  <2>4. CASE Len(work') = m - 1 /\ k * (m - 1) = k * m - k /\ x < r + k
    <3>1. ThreadLeft(w)' = q - k + x
      BY <2>1, <2>2, <2>4
    <3>2. q - k + x < q + r
      BY <2>2, <2>4
    <3> QED BY <2>1, <2>2, <3>1, <3>2
  <2> QED BY <1>4, <2>2, <2>3, <2>4
<1>7. ASSUME NEW v \in Workers, v # w PROVE ThreadLeft(v)' <= ThreadLeft(v)
  <2>1. PICK s \in Nat : s = Rank(v) /\ s = Rank(v)'
    BY <1>2, <1>7
  <2>2. ThreadLeft(v) = k * m + s /\ ThreadLeft(v)' = k * Len(work') + s
    BY <1>0, <2>1 DEF ThreadLeft
  <2>3. PICK q \in Nat : q = k * m
    BY <1>0
  <2>4. CASE Len(work') = m
    BY <2>1, <2>2, <2>3, <2>4
  <2>5. CASE Len(work') = m - 1 /\ k * (m - 1) = k * m - k
    <3>1. ThreadLeft(v)' = q - k + s
      BY <2>2, <2>3, <2>5
    <3>2. q - k + s <= q + s
      OBVIOUS
    <3> QED BY <2>2, <2>3, <3>1, <3>2
  <2> QED BY <1>4, <2>4, <2>5
<1>8. CallerLeft' = CallerLeft
  <2>1. UNCHANGED <<caller, total>>
    BY DEF WorkerStep, Take, PartDone, PartFails
  <2>2. worker[w].pc # "off" /\ worker'[w].pc # "off"
    <3>1. CASE Take(w)
      BY <3>1 DEF Take, TransferPlaces, Threads
    <3>2. CASE PartDone(w) \/ PartFails(w)
      BY <3>2 DEF PartDone, PartFails, Put, TransferPlaces, Threads
    <3> QED BY <3>1, <3>2 DEF WorkerStep
  <2>3. Unstarted' = Unstarted
    BY <1>1, <2>2 DEF Unstarted
  <2> QED BY <2>1, <2>3 DEF CallerLeft
<1> QED BY <1>6, <1>7, <1>8

\* Neither the caller nor a thread takes more steps than these numbers say,
\* whatever fails and is tried again; with NeverHangs, upload and download return
\* or raise as long as who can go on does (glacier/concurrent.py).
THEOREM TransferBounded ==
    TransferSpec => [][TransferComesCloser]_transferVars /\ []TransferNumbered
<1>1. TransferInv => TransferPlaces /\ TransferNumbered
  BY PlacesHold, PlacesNumbered
<1>2. TransferInv /\ [TransferNext]_transferVars => [TransferComesCloser]_transferVars
  <2> SUFFICES ASSUME TransferInv, TransferNext PROVE TransferComesCloser
    OBVIOUS
  <2>0. TransferPlaces
    BY PlacesHold
  <2>1. CASE CallerStep
    <3>1. CallerLeft' < CallerLeft
      BY <2>0, <2>1, CallerCloser
    <3>2. ASSUME NEW w \in Workers, caller.pc # "initiate"
          PROVE  /\ ~WorkerStep(w) /\ ThreadLeft(w)' <= ThreadLeft(w)
      <4>1. ThreadLeft(w)' = ThreadLeft(w) /\ ThreadLeft(w) \in Nat
        BY <1>1, <2>0, <2>1, <3>2, CallerKeepsThreads DEF TransferNumbered
      <4>2. CASE WorkerStep(w)
        BY <2>0, <4>1, <4>2, ThreadCloser
      <4> QED BY <4>1, <4>2
    <3> QED BY <2>1, <3>1, <3>2 DEF TransferComesCloser
  <2>2. CASE ~CallerStep
    <3>1. PICK w \in Workers : WorkerStep(w)
      BY <2>2 DEF TransferNext
    <3>2. CallerLeft' = CallerLeft /\ ThreadLeft(w)' < ThreadLeft(w)
      BY <2>0, <3>1, ThreadCloser
    <3>3. ASSUME NEW v \in Workers, v # w
          PROVE  /\ ThreadLeft(v)' <= ThreadLeft(v)
                 /\ WorkerStep(v) => ThreadLeft(v)' < ThreadLeft(v)
      BY <2>0, <3>1, <3>3, ThreadCloser
    <3> QED BY <2>2, <3>1, <3>2, <3>3 DEF TransferComesCloser
  <2> QED BY <2>1, <2>2
<1> QED BY <1>1, <1>2, TransferInvHolds, PTL DEF TransferSpec

-----------------------------------------------------------------------------
(* The transfers together.                                                 *)

\* The state of the four transfers and of which takes place.
transfersVars == <<which, downloadVars, uploadVars, transferVars, writerVars>>

\* One transfer takes place, by steps of its own; the others stay.
LEMMA OneTransferSteps ==
    [Next]_transfersVars => /\ [DownloadNext]_downloadVars
                            /\ [UploadNext]_uploadVars
                            /\ [TransferNext]_transferVars
                            /\ [WriterNext]_writerVars
<1> SUFFICES ASSUME [Next]_transfersVars
             PROVE  /\ [DownloadNext]_downloadVars
                    /\ [UploadNext]_uploadVars
                    /\ [TransferNext]_transferVars
                    /\ [WriterNext]_writerVars
  OBVIOUS
<1>1. CASE DownloadPart /\ UNCHANGED <<uploadVars, transferVars, writerVars>>
  BY <1>1 DEF DownloadPart
<1>2. CASE UploadPart /\ UNCHANGED <<downloadVars, transferVars, writerVars>>
  BY <1>2 DEF UploadPart
<1>3. CASE TransferPart /\ UNCHANGED <<downloadVars, uploadVars, writerVars>>
  BY <1>3 DEF TransferPart
<1>4. CASE WriterPart /\ UNCHANGED <<downloadVars, uploadVars, transferVars>>
  BY <1>4 DEF WriterPart
<1>5. CASE UNCHANGED transfersVars
  BY <1>5 DEF transfersVars
<1> QED BY <1>1, <1>2, <1>3, <1>4, <1>5 DEF Next

\* The run that checks the transfers together checks each as it is: its
\* behaviours, seen from one transfer, are behaviours of that transfer.
THEOREM EachTransfer ==
    Spec => DownloadSpec /\ UploadSpec /\ TransferSpec /\ WriterSpec
<1>1. Init => DownloadInit /\ UploadInit /\ TransferInit /\ WriterInit
  BY DEF Init
<1> QED
  BY <1>1, OneTransferSteps, PTL
  DEF Spec, transfersVars, DownloadSpec, UploadSpec, TransferSpec, WriterSpec

\* Types of the four transfers, whichever takes place.
THEOREM TransfersTyping == Spec => []TypeOK
<1>1. DownloadTypeOK /\ UploadTypeOK /\ TransferTypeOK /\ WriterTypeOK => TypeOK
  BY DEF TypeOK
<1> QED
  BY <1>1, EachTransfer, DownloadTyping, UploadTyping, TransferTyping, WriterTyping, PTL

\* No transfer that succeeds leaves less, or other, than what was to be moved.
THEOREM TransfersAreWhole ==
    Spec => [](DownloadWhole /\ StoredIsFile /\ CompleteHasAll /\ ArchiveIsGiven)
  BY EachTransfer, Downloaded, Uploaded, Transferred, Archives, PTL
=============================================================================
