------------------------ MODULE ConnectionPoolProofs ------------------------
(***************************************************************************)
(* That a connection has one user and the right host and is not stale when *)
(* taken, for any threads, hosts, schemes, connections, retries and        *)
(* durations.                                                              *)
(*                                                                         *)
(* What get and clean do to a queue is to draw entries from it: whatever   *)
(* is in the new queue was in the old one, once, and get does not draw the *)
(* entry it returns.  So entries stay apart, and a connection that is      *)
(* taken out is in no queue.  The invariant adds that a thread that sends  *)
(* has a connection at all, and one opened for its host.                   *)
(*                                                                         *)
(* And that get returns nothing stale: queues are sorted by age, and the   *)
(* age of an entry is set anew only while its connection is not ready.     *)
(*                                                                         *)
(* And when connections are made: get has looked at every entry of the     *)
(* queue when it makes one, and a thread that makes one after an exception *)
(* is the only one that referred to the connection it gives up.            *)
(***************************************************************************)
EXTENDS ConnectionPool, SequenceTheorems, WellFoundedInduction, TLAPS

\* No connection is twice in the pool p.
Apart(p) ==
    \A g, h \in Hosts, r, s \in Schemes :
        \A i \in DOMAIN p[g][r], j \in DOMAIN p[h][s] :
            p[g][r][i].conn = p[h][s][j].conn => g = h /\ r = s /\ i = j

\* Connection c may carry a request to host h.
Right(c, h) == conn[c].host = h /\ (conn[c].scheme # Own => conn[c].crossed = "yes")

PoolRight == \A h \in Hosts, s \in Schemes : \A i \in DOMAIN pool[h][s] :
                s = Own /\ Right(pool[h][s][i].conn, h)

\* A thread knows the host it gets a connection for; one that sends does so on
\* a connection to that host that nothing else refers to.
Sending(t) == /\ thread[t].conn \in Conns
              /\ thread[t].host \in Hosts
              /\ Right(thread[t].conn, thread[t].host)
              /\ conn[thread[t].conn].reader = None
              /\ ~InPool(thread[t].conn)
Knows(t) == /\ thread[t].pc \in {"clean", "get"} => thread[t].host \in Hosts
            /\ thread[t].pc = "send" => Sending(t)

Alone == \A t, u \in Threads :
            thread[t].pc = "send" /\ thread[u].pc = "send"
            /\ thread[t].conn = thread[u].conn => t = u

IInv == /\ PoolTypeOK /\ Apart(pool) /\ PoolRight /\ Alone
        /\ \A t \in Threads : Knows(t)

USE SchemeAssumption, TimesAssumption, RetriesAssumption, NoneAssumption

-----------------------------------------------------------------------------
(* The operators on a queue.                                               *)

LEMMA FunctionIsSeq ==
    ASSUME NEW n \in Nat, NEW f \in [1..n -> Entries]
    PROVE  f \in Seq(Entries) /\ Len(f) = n /\ DOMAIN f = 1..n
<1>1. f \in Seq(Entries)
  BY SeqDef
<1>2. DOMAIN f = 1..n
  OBVIOUS
<1>3. Len(f) \in Nat /\ DOMAIN f = 1..Len(f)
  BY <1>1, LenProperties
<1>4. Len(f) = n
  BY <1>2, <1>3
<1> QED BY <1>1, <1>2, <1>4

\* q2 has entries of q, no two the same, all of them at places in D.
Drawn(q2, q, D) ==
    \E r \in [1..Len(q2) -> D] :
        /\ \A i, j \in 1..Len(q2) : i # j => r[i] # r[j]
        /\ \A i \in 1..Len(q2) : q2[i].conn = q[r[i]].conn

\* A set of natural numbers has a smallest one.
LEMMA LeastOf ==
    ASSUME NEW S, S \subseteq Nat, S # {}
    PROVE  \E x \in S : \A y \in S : x =< y
<1>1. \E x \in S : \A y \in S : ~(<<y, x>> \in OpToRel(<, Nat))
  BY NatLessThanWellFounded, WFMin
<1>2. \E x \in S : \A y \in S : ~(y < x)
  BY <1>1 DEF OpToRel
<1> QED BY <1>2

LEMMA MinFact ==
    ASSUME NEW S, S \subseteq Nat, S # {}
    PROVE  Min(S) \in S
  BY LeastOf DEF Min

LEMMA CleanedFacts ==
    ASSUME NEW q \in Seq(Entries)
    PROVE  /\ Cleaned(q) \in Seq(Entries)
           /\ Drawn(Cleaned(q), q, 1..Len(q))
<1>0. /\ Len(q) \in Nat /\ DOMAIN q = 1..Len(q)
      /\ \A j \in 1..Len(q) : q[j] \in Entries
  BY LenProperties
<1>1. PICK k : k = FirstFresh(q)
  OBVIOUS
<1>2. k \in 1..Len(q) + 1
  <2> DEFINE S == {j \in DOMAIN q : ~PairStale(q[j])} \cup {Len(q) + 1}
  <2>1. S \subseteq 1..Len(q) + 1 /\ S \subseteq Nat /\ S # {}
    BY <1>0
  <2>2. k = Min(S)
    BY <1>1 DEF FirstFresh
  <2> HIDE DEF S
  <2> QED BY <2>1, <2>2, MinFact
<1>3. PICK n : n = Len(q) + 1 - k
  OBVIOUS
<1>4. n \in Nat
  BY <1>0, <1>2, <1>3
<1> DEFINE f == [j \in 1..n |-> q[j + k - 1]]
<1>5. Cleaned(q) = f
  BY <1>1, <1>3 DEF Cleaned
<1>6. \A j \in 1..n : j + k - 1 \in 1..Len(q)
  BY <1>0, <1>2, <1>3
<1>7. f \in [1..n -> Entries]
  BY <1>0, <1>6
<1>8. f \in Seq(Entries) /\ Len(f) = n
  BY <1>4, <1>7, FunctionIsSeq
<1>9. Drawn(f, q, 1..Len(q))
  <2> DEFINE r == [j \in 1..n |-> j + k - 1]
  <2>1. r \in [1..n -> 1..Len(q)]
    BY <1>6
  <2>2. \A i, j \in 1..n : i # j => r[i] # r[j]
    BY <1>2
  <2>3. \A i \in 1..n : f[i].conn = q[r[i]].conn
    OBVIOUS
  <2> HIDE DEF r, f
  <2> QED BY <1>8, <2>1, <2>2, <2>3 DEF Drawn
<1> QED BY <1>5, <1>8, <1>9

LEMMA RotatedFacts ==
    ASSUME NEW q \in Seq(Entries), NEW i \in 1..Len(q) + 1
    PROVE  /\ Rotated(q, i) \in Seq(Entries)
           /\ Drawn(Rotated(q, i), q, (1..Len(q)) \ {i})
<1>0. /\ Len(q) \in Nat /\ DOMAIN q = 1..Len(q)
      /\ \A j \in 1..Len(q) : q[j] \in Entries
  BY LenProperties
<1>1. PICK n : n = Len(q)
  OBVIOUS
<1>2. \A j \in 1..n : /\ Entry(q[j].conn, 0) \in Entries
                      /\ Entry(q[j].conn, 0).conn = q[j].conn
  BY <1>0, <1>1 DEF Entry, Entries, Ages, Stale
<1>3. CASE i > n
  <2> DEFINE f == [j \in 1..n |-> Entry(q[j].conn, 0)]
             r == [j \in 1..n |-> j]
  <2>1. Rotated(q, i) = f
    BY <1>1, <1>3 DEF Rotated
  <2>2. f \in [1..n -> Entries] /\ \A j \in 1..n : f[j].conn = q[j].conn
    BY <1>2
  <2>3. f \in Seq(Entries) /\ Len(f) = n
    BY <1>0, <1>1, <2>2, FunctionIsSeq
  <2>4. r \in [1..n -> (1..Len(q)) \ {i}] /\ \A j \in 1..n : r[j] = j
    BY <1>0, <1>1, <1>3
  <2> HIDE DEF f, r
  <2> QED BY <2>1, <2>2, <2>3, <2>4, SMTT(30) DEF Drawn
<1>4. CASE ~(i > n)
  <2> DEFINE f == [j \in 1..n - 1 |-> IF j <= n - i THEN q[i + j]
                                      ELSE Entry(q[i + j - n].conn, 0)]
             r == [j \in 1..n - 1 |-> IF j <= n - i THEN i + j ELSE i + j - n]
  <2>1. Rotated(q, i) = f
    BY <1>1, <1>4 DEF Rotated
  <2>2. n - 1 \in Nat /\ i \in 1..n
    BY <1>0, <1>1, <1>4
  <2>3. /\ r \in [1..n - 1 -> (1..n) \ {i}]
        /\ \A j \in 1..n - 1 : r[j] = IF j <= n - i THEN i + j ELSE i + j - n
    BY <1>0, <1>1, <2>2
  <2>4. \A j, k \in 1..n - 1 : j # k => r[j] # r[k]
    <3> HIDE DEF r
    <3> QED BY <1>0, <1>1, <2>2, <2>3
  <2>5. \A j \in 1..n - 1 : f[j] \in Entries /\ f[j].conn = q[r[j]].conn
    <3>1. TAKE j \in 1..n - 1
    <3>2. r[j] \in 1..n
      BY <2>3
    <3>3. CASE j <= n - i
      BY <1>0, <1>1, <2>3, <3>2, <3>3
    <3>4. CASE ~(j <= n - i)
      <4>1. r[j] = i + j - n
        BY <2>3, <3>4
      <4>2. f[j] = Entry(q[r[j]].conn, 0)
        BY <3>4, <4>1
      <4> QED BY <1>2, <3>2, <4>2
    <3> QED BY <3>3, <3>4
  <2>6. f \in [1..n - 1 -> Entries]
    BY <2>5
  <2>7. f \in Seq(Entries) /\ Len(f) = n - 1
    BY <2>2, <2>6, FunctionIsSeq
  <2> HIDE DEF f, r
  <2>8. Drawn(f, q, (1..Len(q)) \ {i})
    <3>1. /\ r \in [1..Len(f) -> (1..Len(q)) \ {i}]
          /\ \A j, k \in 1..Len(f) : j # k => r[j] # r[k]
          /\ \A j \in 1..Len(f) : f[j].conn = q[r[j]].conn
      BY <1>1, <2>3, <2>4, <2>5, <2>7
    <3> QED BY <3>1 DEF Drawn
  <2> QED BY <2>1, <2>7, <2>8
<1> QED BY <1>3, <1>4

\* What get leaves of a queue: not the entry it returns.
LEMMA GetFacts ==
    ASSUME NEW q \in Seq(Entries), NEW i \in 1..Len(Cleaned(q)) + 1
    PROVE  LET left == Rotated(Cleaned(q), i) IN
           /\ left \in Seq(Entries)
           /\ Drawn(left, q, 1..Len(q))
           /\ i <= Len(Cleaned(q)) =>
                \E k \in 1..Len(q) : /\ Cleaned(q)[i].conn = q[k].conn
                                     /\ Drawn(left, q, (1..Len(q)) \ {k})
<1>1. PICK cleaned \in Seq(Entries) :
         cleaned = Cleaned(q) /\ Drawn(cleaned, q, 1..Len(q))
  BY CleanedFacts
<1>2. PICK left \in Seq(Entries) :
         /\ left = Rotated(cleaned, i)
         /\ Drawn(left, cleaned, (1..Len(cleaned)) \ {i})
  BY <1>1, RotatedFacts
<1>3. Len(q) \in Nat /\ Len(cleaned) \in Nat /\ Len(left) \in Nat
  BY <1>1, <1>2, LenProperties
<1>4. PICK r1 \in [1..Len(cleaned) -> 1..Len(q)] :
         /\ \A j, k \in 1..Len(cleaned) : j # k => r1[j] # r1[k]
         /\ \A j \in 1..Len(cleaned) : cleaned[j].conn = q[r1[j]].conn
  BY <1>1 DEF Drawn
<1>5. PICK r2 \in [1..Len(left) -> (1..Len(cleaned)) \ {i}] :
         /\ \A j, k \in 1..Len(left) : j # k => r2[j] # r2[k]
         /\ \A j \in 1..Len(left) : left[j].conn = cleaned[r2[j]].conn
  BY <1>2 DEF Drawn
<1> DEFINE r == [j \in 1..Len(left) |-> r1[r2[j]]]
<1>6. /\ r \in [1..Len(left) -> 1..Len(q)]
      /\ \A j, k \in 1..Len(left) : j # k => r[j] # r[k]
      /\ \A j \in 1..Len(left) : left[j].conn = q[r[j]].conn
  BY <1>4, <1>5
<1>7. ASSUME i <= Len(cleaned)
      PROVE  /\ r1[i] \in 1..Len(q) /\ cleaned[i].conn = q[r1[i]].conn
             /\ \A j \in 1..Len(left) : r[j] # r1[i]
  <2>1. i \in 1..Len(cleaned)
    BY <1>1, <1>3, <1>7
  <2>2. \A j \in 1..Len(left) : r2[j] \in 1..Len(cleaned) /\ r2[j] # i
    BY <1>5
  <2> QED BY <1>4, <2>1, <2>2
<1> HIDE DEF r
<1>8. Drawn(left, q, 1..Len(q))
  BY <1>6 DEF Drawn
<1>9. ASSUME i <= Len(cleaned)
      PROVE  Drawn(left, q, (1..Len(q)) \ {r1[i]})
  <2>1. r \in [1..Len(left) -> (1..Len(q)) \ {r1[i]}]
    BY <1>6, <1>7, <1>9
  <2> QED BY <1>6, <2>1 DEF Drawn
<1> QED BY <1>1, <1>2, <1>7, <1>8, <1>9

\* put adds one entry to a queue.
LEMMA AddedFacts ==
    ASSUME NEW q \in Seq(Entries), NEW c \in Conns
    PROVE  /\ Added(q, c) \in Seq(Entries)
           /\ Len(Added(q, c)) = Len(q) + 1
           /\ \A j \in 1..Len(q) : Added(q, c)[j] = q[j]
           /\ Added(q, c)[Len(q) + 1] = Entry(c, 0)
           /\ Added(q, c)[Len(q) + 1].conn = c
<1>1. /\ Len(q) \in Nat /\ \A j \in 1..Len(q) : q[j] \in Entries
  BY LenProperties
<1>2. Entry(c, 0) \in Entries /\ Entry(c, 0).conn = c
  BY DEF Entry, Entries, Ages, Stale
<1>3. Added(q, c) \in [1..Len(q) + 1 -> Entries]
  BY <1>1, <1>2 DEF Added
<1>4. /\ Added(q, c) \in Seq(Entries) /\ Len(Added(q, c)) = Len(q) + 1
  BY <1>1, <1>3, FunctionIsSeq
<1> QED BY <1>1, <1>2, <1>4 DEF Added

-----------------------------------------------------------------------------
(* The pool.                                                               *)

\* What has been drawn from a queue, one by one.
LEMMA DrawnOneByOne ==
    ASSUME NEW q \in Seq(Entries), NEW q2 \in Seq(Entries),
           Drawn(q2, q, 1..Len(q))
    PROVE  \E r \in [DOMAIN q2 -> DOMAIN q] :
              /\ \A i, j \in DOMAIN q2 : i # j => r[i] # r[j]
              /\ \A i \in DOMAIN q2 : q2[i].conn = q[r[i]].conn
<1>1. DOMAIN q = 1..Len(q) /\ DOMAIN q2 = 1..Len(q2)
  BY LenProperties
<1> QED BY <1>1 DEF Drawn

\* What has been drawn from the queues of a pool: all of it was there, once.
LEMMA DrawnFromPool ==
    ASSUME NEW p \in [Hosts -> [Schemes -> Seq(Entries)]], Apart(p),
           NEW p2 \in [Hosts -> [Schemes -> Seq(Entries)]],
           \A h \in Hosts, s \in Schemes :
              Drawn(p2[h][s], p[h][s], 1..Len(p[h][s]))
    PROVE  /\ Apart(p2)
           /\ \A h \in Hosts, s \in Schemes :
                 \A i \in DOMAIN p2[h][s] : \E j \in DOMAIN p[h][s] :
                    p2[h][s][i].conn = p[h][s][j].conn
<1>1. ASSUME NEW h \in Hosts, NEW s \in Schemes
      PROVE  \E r \in [DOMAIN p2[h][s] -> DOMAIN p[h][s]] :
                /\ \A i, j \in DOMAIN p2[h][s] : i # j => r[i] # r[j]
                /\ \A i \in DOMAIN p2[h][s] :
                      p2[h][s][i].conn = p[h][s][r[i]].conn
  <2>1. p[h][s] \in Seq(Entries) /\ p2[h][s] \in Seq(Entries)
    OBVIOUS
  <2>2. Drawn(p2[h][s], p[h][s], 1..Len(p[h][s]))
    OBVIOUS
  <2> QED BY <2>1, <2>2, DrawnOneByOne
<1>2. ASSUME NEW g \in Hosts, NEW h \in Hosts, NEW r \in Schemes,
             NEW s \in Schemes,
             NEW i \in DOMAIN p2[g][r], NEW j \in DOMAIN p2[h][s],
             p2[g][r][i].conn = p2[h][s][j].conn
      PROVE  g = h /\ r = s /\ i = j
  <2>1. PICK rg \in [DOMAIN p2[g][r] -> DOMAIN p[g][r]] :
           /\ \A k, l \in DOMAIN p2[g][r] : k # l => rg[k] # rg[l]
           /\ \A k \in DOMAIN p2[g][r] :
                 p2[g][r][k].conn = p[g][r][rg[k]].conn
    BY <1>1
  <2>2. PICK rh \in [DOMAIN p2[h][s] -> DOMAIN p[h][s]] :
           /\ \A k, l \in DOMAIN p2[h][s] : k # l => rh[k] # rh[l]
           /\ \A k \in DOMAIN p2[h][s] :
                 p2[h][s][k].conn = p[h][s][rh[k]].conn
    BY <1>1
  <2>3. g = h /\ r = s
    <3>1. rg[i] \in DOMAIN p[g][r] /\ rh[j] \in DOMAIN p[h][s]
      BY <2>1, <2>2
    <3>2. p[g][r][rg[i]].conn = p[h][s][rh[j]].conn
      BY <1>2, <2>1, <2>2
    <3> QED BY <3>1, <3>2 DEF Apart
  <2>4. j \in DOMAIN p2[g][r] /\ p2[g][r][i].conn = p2[g][r][j].conn
    BY <1>2, <2>3
  <2>5. p[g][r][rg[i]].conn = p[g][r][rg[j]].conn
    BY <2>1, <2>4
  <2>6. rg[i] \in DOMAIN p[g][r] /\ rg[j] \in DOMAIN p[g][r]
    BY <2>1, <2>4
  <2>7. rg[i] = rg[j]
    BY <2>5, <2>6, SMTT(30) DEF Apart
  <2> QED BY <2>1, <2>3, <2>4, <2>7
<1>3. ASSUME NEW h \in Hosts, NEW s \in Schemes, NEW i \in DOMAIN p2[h][s]
      PROVE  \E j \in DOMAIN p[h][s] : p2[h][s][i].conn = p[h][s][j].conn
  <2>1. PICK r \in [DOMAIN p2[h][s] -> DOMAIN p[h][s]] :
           \A k \in DOMAIN p2[h][s] : p2[h][s][k].conn = p[h][s][r[k]].conn
    BY <1>1
  <2> QED BY <2>1
<1>4. Apart(p2)
  BY <1>2, Zenon DEF Apart
<1> QED BY <1>3, <1>4

\* A queue as it is has been drawn from itself.
LEMMA DrawnItself ==
    ASSUME NEW q \in Seq(Entries), NEW q2 \in Seq(Entries), Len(q2) = Len(q),
           \A j \in 1..Len(q) : q2[j].conn = q[j].conn
    PROVE  Drawn(q2, q, 1..Len(q))
<1> DEFINE r == [j \in 1..Len(q) |-> j]
<1>1. r \in [1..Len(q) -> 1..Len(q)] /\ \A j \in 1..Len(q) : r[j] = j
  OBVIOUS
<1> HIDE DEF r
<1> QED BY <1>1 DEF Drawn

-----------------------------------------------------------------------------
(* The steps.                                                              *)

\* A step that puts nothing into the pool, and leaves what is in it open.
LEMMA PoolDrawn ==
    ASSUME IInv, PoolTypeOK',
           \A h \in Hosts, s \in Schemes :
              Drawn(pool'[h][s], pool[h][s], 1..Len(pool[h][s])),
           \A c \in Conns, h \in Hosts :
              InPool(c)' /\ InPool(c) /\ Right(c, h) => Right(c, h)'
    PROVE  /\ Apart(pool)' /\ PoolRight'
           /\ \A c : InPool(c)' => InPool(c)
<1>1. /\ Apart(pool')
      /\ \A h \in Hosts, s \in Schemes :
            \A i \in DOMAIN pool'[h][s] : \E j \in DOMAIN pool[h][s] :
               pool'[h][s][i].conn = pool[h][s][j].conn
  <2>1. /\ pool \in [Hosts -> [Schemes -> Seq(Entries)]] /\ Apart(pool)
        /\ pool' \in [Hosts -> [Schemes -> Seq(Entries)]]
    BY DEF IInv, PoolTypeOK
  <2> QED BY <2>1, DrawnFromPool
<1>2. ASSUME NEW c, InPool(c)' PROVE InPool(c)
  <2>1. PICK h \in Hosts, s \in Schemes : \E i \in DOMAIN pool'[h][s] :
           pool'[h][s][i].conn = c
    BY <1>2 DEF InPool
  <2>2. \E j \in DOMAIN pool[h][s] : pool[h][s][j].conn = c
    BY <1>1, <2>1
  <2> QED BY <2>2 DEF InPool
<1>3. ASSUME NEW h \in Hosts, NEW s \in Schemes, NEW i \in DOMAIN pool'[h][s]
      PROVE  s = Own /\ Right(pool[h][s][i].conn, h)'
  <2>1. PICK c : c = pool'[h][s][i].conn
    OBVIOUS
  <2>2. c \in Conns
    <3>1. pool'[h][s] \in Seq(Entries)
      BY DEF PoolTypeOK
    <3>2. pool'[h][s][i] \in Entries
      BY <3>1, LenProperties
    <3> QED BY <2>1, <3>2 DEF Entries
  <2>3. InPool(c)'
    BY <2>1 DEF InPool
  <2>4. PICK j \in DOMAIN pool[h][s] : c = pool[h][s][j].conn
    BY <1>1, <2>1
  <2>5. s = Own /\ Right(c, h)
    BY <2>4 DEF IInv, PoolRight
  <2>6. Right(c, h)'
    BY <1>2, <2>2, <2>3, <2>5
  <2> QED BY <2>1, <2>5, <2>6 DEF Right
<1>4. PoolRight'
  BY <1>3 DEF PoolRight
<1> QED BY <1>1, <1>2, <1>4 DEF Apart

\* A step that makes no thread send, and puts nothing into the pool.
LEMMA NothingNew ==
    ASSUME IInv, PoolTypeOK',
           \A h \in Hosts, s \in Schemes :
              Drawn(pool'[h][s], pool[h][s], 1..Len(pool[h][s])),
           \A t \in Threads :
              /\ thread'[t].pc \in {"clean", "get"} => thread'[t].host \in Hosts
              /\ thread'[t].pc = "send" => /\ thread[t].pc = "send"
                                           /\ thread'[t].conn = thread[t].conn
                                           /\ thread'[t].host = thread[t].host,
           \A c \in Conns : Used(c)' =>
              /\ conn'[c].host = conn[c].host /\ conn'[c].scheme = conn[c].scheme
              /\ conn'[c].crossed = conn[c].crossed
              /\ conn[c].reader = None => conn'[c].reader = None
    PROVE  IInv'
<1>1. \A c \in Conns, h \in Hosts : Used(c)' /\ Right(c, h) => Right(c, h)'
  BY DEF Right
<1>2. /\ Apart(pool)' /\ PoolRight'
      /\ \A c : InPool(c)' => InPool(c)
  <2>1. \A c \in Conns, h \in Hosts :
           InPool(c)' /\ InPool(c) /\ Right(c, h) => Right(c, h)'
    BY <1>1 DEF Used
  <2> QED BY <2>1, PoolDrawn
<1>3. ASSUME NEW t \in Threads, thread'[t].pc = "send"
      PROVE  Sending(t)'
  <2>1. /\ thread[t].pc = "send" /\ thread'[t].conn = thread[t].conn
        /\ thread'[t].host = thread[t].host
    BY <1>3
  <2>2. Sending(t)
    BY <2>1 DEF IInv, Knows
  <2>3. PICK c \in Conns : c = thread[t].conn
    BY <2>2 DEF Sending
  <2>4. Used(c)'
    BY <2>1, <2>3 DEF Used
  <2>5. Right(c, thread[t].host)' /\ conn'[c].reader = None /\ ~InPool(c)'
    BY <1>1, <1>2, <2>1, <2>2, <2>3, <2>4 DEF Sending, Right
  <2> QED BY <2>1, <2>2, <2>3, <2>5 DEF Sending, Right, InPool
<1>4. Alone'
  BY DEF IInv, Alone
<1>5. \A t \in Threads : Knows(t)'
  BY <1>3 DEF Knows
<1> QED BY <1>2, <1>4, <1>5 DEF IInv

\* A step that makes thread t send on connection c.
Takes(t, c) ==
    /\ ~InPool(c)'
    /\ \A u \in Threads \ {t} : /\ thread'[u] = thread[u]
                                /\ thread[u].pc = "send" => thread[u].conn # c
    /\ thread'[t].pc = "send" /\ thread'[t].conn = c
    /\ thread'[t].host = thread[t].host /\ thread'[t].host \in Hosts
    /\ Right(c, thread[t].host)' /\ conn'[c].reader = None
    /\ \A d \in Conns \ {c} : Used(d)' => conn'[d] = conn[d]

LEMMA Taken ==
    ASSUME IInv, PoolTypeOK', NEW t \in Threads, NEW c \in Conns,
           \A h \in Hosts, s \in Schemes :
              Drawn(pool'[h][s], pool[h][s], 1..Len(pool[h][s])),
           Takes(t, c)
    PROVE  IInv'
<1>0. /\ ~InPool(c)'
      /\ \A u \in Threads \ {t} : /\ thread'[u] = thread[u]
                                  /\ thread[u].pc = "send" => thread[u].conn # c
      /\ thread'[t].pc = "send" /\ thread'[t].conn = c
      /\ thread'[t].host = thread[t].host /\ thread'[t].host \in Hosts
      /\ Right(c, thread[t].host)' /\ conn'[c].reader = None
      /\ \A d \in Conns \ {c} : Used(d)' => conn'[d] = conn[d]
  BY Zenon DEF Takes
<1>1. \A d \in Conns \ {c}, h \in Hosts :
         Used(d)' /\ Right(d, h) => Right(d, h)'
  BY <1>0 DEF Right
<1>2. /\ Apart(pool)' /\ PoolRight'
      /\ \A d : InPool(d)' => InPool(d)
  <2>1. \A d \in Conns, h \in Hosts :
           InPool(d)' /\ InPool(d) /\ Right(d, h) => Right(d, h)'
    BY <1>0, <1>1 DEF Used
  <2> QED BY <2>1, PoolDrawn
<1>3. Sending(t)'
  BY <1>0 DEF Sending, Right, InPool
<1>4. ASSUME NEW u \in Threads \ {t}, thread'[u].pc = "send"
      PROVE  Sending(u)'
  <2>1. thread[u].pc = "send" /\ thread'[u] = thread[u]
    BY <1>0, <1>4
  <2>2. Sending(u)
    BY <2>1 DEF IInv, Knows
  <2>3. PICK d \in Conns \ {c} : d = thread[u].conn
    BY <1>0, <2>1, <2>2 DEF Sending
  <2>4. Used(d)'
    BY <2>1, <2>3 DEF Used
  <2>5. Right(d, thread[u].host)' /\ conn'[d].reader = None /\ ~InPool(d)'
    BY <1>0, <1>1, <1>2, <2>1, <2>2, <2>3, <2>4 DEF Sending, Right
  <2> QED BY <2>1, <2>2, <2>3, <2>5 DEF Sending, Right, InPool
<1>5. Alone'
  BY <1>0 DEF IInv, Alone
<1>6. \A u \in Threads : Knows(u)'
  <2>1. Knows(t)'
    BY <1>0, <1>3 DEF Knows
  <2>2. ASSUME NEW u \in Threads \ {t} PROVE Knows(u)'
    BY <1>0, <1>4, <2>2 DEF Knows, IInv
  <2> QED BY <2>1, <2>2
<1> QED BY <1>2, <1>5, <1>6 DEF IInv

\* What KeepUsed makes of the connections.
LEMMA KeepUsedFacts ==
    ASSUME NEW new \in [Conns -> ConnRecords \cup {Closed}], KeepUsed(new)
    PROVE  /\ conn' \in [Conns -> ConnRecords \cup {Closed}]
           /\ \A c \in Conns : Used(c)' => conn'[c] = new[c]
  BY DEF KeepUsed

\* A connection with a host is an open one.
LEMMA OpenRecord ==
    ASSUME PoolTypeOK, NEW c \in Conns, conn[c].host \in Hosts
    PROVE  conn[c] \in ConnRecords
  BY DEF PoolTypeOK, Closed

\* The queues of the pool, each drawn from itself.
LEMMA PoolTyped ==
    ASSUME PoolTypeOK
    PROVE  /\ pool \in [Hosts -> [Schemes -> Seq(Entries)]]
           /\ \A h \in Hosts, s \in Schemes :
                 /\ pool[h][s] \in Seq(Entries)
                 /\ Drawn(pool[h][s], pool[h][s], 1..Len(pool[h][s]))
<1>1. \A h \in Hosts, s \in Schemes : pool[h][s] \in Seq(Entries)
  BY DEF PoolTypeOK
<1> QED BY <1>1, DrawnItself DEF PoolTypeOK

ThreadRecords == [pc : ThreadPCs, host : Hosts \cup {None}, scheme : Schemes,
                  conn : Conns \cup {None}, tries : 0..NumRetries]

\* Thread t sends again, on c, or is done.
LEMMA RetryFacts ==
    ASSUME PoolTypeOK, NEW t \in Threads, NEW c \in Conns, RetryOrRaise(t, c),
           thread[t].pc = "send"
    PROVE  /\ thread' \in [Threads -> ThreadRecords]
           /\ \A u \in Threads \ {t} : thread'[u] = thread[u]
           /\ \/ /\ thread'[t].pc = "send" /\ thread'[t].conn = c
                 /\ thread'[t].host = thread[t].host
              \/ thread'[t] = Idle
<1> DEFINE r == thread[t]
           next == IF r.tries < NumRetries
                   THEN [r EXCEPT !.tries = r.tries + 1, !.conn = c]
                   ELSE Idle
<1>1. r \in ThreadRecords /\ thread \in [Threads -> ThreadRecords]
  BY DEF PoolTypeOK, ThreadRecords
<1>2. thread' = [thread EXCEPT ![t] = next]
  BY DEF RetryOrRaise
<1>3. CASE r.tries < NumRetries
  <2>1. next = [r EXCEPT !.tries = r.tries + 1, !.conn = c]
    BY <1>3
  <2>2. r.tries + 1 \in 0..NumRetries
    BY <1>1, <1>3 DEF ThreadRecords
  <2>3. /\ next \in ThreadRecords
        /\ next.pc = "send" /\ next.conn = c /\ next.host = r.host
    <3> HIDE DEF next
    <3> QED BY <1>1, <2>1, <2>2 DEF ThreadRecords
  <2> HIDE DEF next
  <2> QED BY <1>1, <1>2, <2>3
<1>4. CASE ~(r.tries < NumRetries)
  <2>1. next = Idle
    BY <1>4
  <2>2. Idle \in ThreadRecords
    BY DEF Idle, ThreadRecords, ThreadPCs
  <2> HIDE DEF next
  <2> QED BY <1>1, <1>2, <2>1, <2>2
<1> QED BY <1>3, <1>4

\* A step that leaves the pool alone draws it from itself.
LEMMA SamePool ==
    ASSUME PoolTypeOK, pool' = pool
    PROVE  \A h \in Hosts, s \in Schemes :
              Drawn(pool'[h][s], pool[h][s], 1..Len(pool[h][s]))
  BY PoolTyped

-----------------------------------------------------------------------------
(* The actions.                                                            *)

LEMMA StartKeeps ==
    ASSUME IInv, NEW t \in Threads, Start(t)
    PROVE  IInv'
<1>1. /\ pool' = pool /\ conn' = conn /\ lastClean' = lastClean
      /\ \A u \in Threads \ {t} : thread'[u] = thread[u]
      /\ thread'[t].pc = "clean" /\ thread'[t].host \in Hosts
  BY DEF Start, Idle, IInv, PoolTypeOK
<1>2. PoolTypeOK'
  <2>1. PICK h \in Hosts : thread' = [thread EXCEPT ![t] =
                              [Idle EXCEPT !.pc = "clean", !.host = h]]
    BY DEF Start
  <2>2. [Idle EXCEPT !.pc = "clean", !.host = h] \in ThreadRecords
    <3>1. Idle \in ThreadRecords
      BY DEF Idle, ThreadRecords, ThreadPCs
    <3> QED BY <3>1 DEF ThreadRecords, ThreadPCs
  <2>3. thread \in [Threads -> ThreadRecords]
    BY DEF IInv, PoolTypeOK, ThreadRecords
  <2>4. thread' \in [Threads -> ThreadRecords]
    BY <2>1, <2>2, <2>3
  <2> QED BY <1>1, <2>4 DEF IInv, PoolTypeOK, ThreadRecords
<1>3. \A u \in Threads :
         /\ thread'[u].pc \in {"clean", "get"} => thread'[u].host \in Hosts
         /\ thread'[u].pc = "send" => /\ thread[u].pc = "send"
                                      /\ thread'[u].conn = thread[u].conn
                                      /\ thread'[u].host = thread[u].host
  BY <1>1 DEF IInv, Knows
<1>4. \A h \in Hosts, s \in Schemes :
         Drawn(pool'[h][s], pool[h][s], 1..Len(pool[h][s]))
  BY <1>1, SamePool DEF IInv
<1> QED BY <1>1, <1>2, <1>3, <1>4, NothingNew

LEMMA CleanKeeps ==
    ASSUME IInv, NEW t \in Threads, Clean(t)
    PROVE  IInv'
<1>1. /\ PoolTypeOK /\ thread[t].pc = "clean" /\ thread[t].host \in Hosts
      /\ thread' = [thread EXCEPT ![t].pc = "get"]
  BY DEF IInv, Knows, Clean
<1>2. /\ thread'[t].pc = "get" /\ thread'[t].host \in Hosts
      /\ \A u \in Threads \ {t} : thread'[u] = thread[u]
  BY <1>1 DEF PoolTypeOK
<1>3. /\ pool' \in [Hosts -> [Schemes -> Seq(Entries)]]
      /\ lastClean' \in 0..CleanInterval + 1
      /\ \A h \in Hosts, s \in Schemes :
            Drawn(pool'[h][s], pool[h][s], 1..Len(pool[h][s]))
  <2>1. CASE /\ pool' = [h \in Hosts |->
                           [s \in Schemes |-> Cleaned(pool[h][s])]]
             /\ lastClean' = 0
    <3>1. \A h \in Hosts, s \in Schemes :
             /\ Cleaned(pool[h][s]) \in Seq(Entries)
             /\ Drawn(Cleaned(pool[h][s]), pool[h][s], 1..Len(pool[h][s]))
      BY <1>1, PoolTyped, CleanedFacts
    <3>2. pool' \in [Hosts -> [Schemes -> Seq(Entries)]]
      BY <2>1, <3>1
    <3>3. \A h \in Hosts, s \in Schemes : pool'[h][s] = Cleaned(pool[h][s])
      BY <2>1
    <3>4. lastClean' \in 0..CleanInterval + 1
      BY <2>1
    <3> QED BY <3>1, <3>2, <3>3, <3>4
  <2>2. CASE UNCHANGED <<pool, lastClean>>
    BY <1>1, <2>2, SamePool DEF PoolTypeOK
  <2> QED BY <2>1, <2>2 DEF Clean
<1>4. /\ conn' \in [Conns -> ConnRecords \cup {Closed}]
      /\ \A c \in Conns : Used(c)' => conn'[c] = conn[c]
  BY <1>1, KeepUsedFacts DEF Clean, PoolTypeOK
<1>5. PoolTypeOK'
  BY <1>1, <1>3, <1>4, ZenonT(30) DEF PoolTypeOK, ThreadPCs
<1>6. \A u \in Threads :
         /\ thread'[u].pc \in {"clean", "get"} => thread'[u].host \in Hosts
         /\ thread'[u].pc = "send" => /\ thread[u].pc = "send"
                                      /\ thread'[u].conn = thread[u].conn
                                      /\ thread'[u].host = thread[u].host
  BY <1>2 DEF IInv, Knows
<1> QED BY <1>3, <1>4, <1>5, <1>6, NothingNew

\* A sending thread that sends again, on the connection it has, or stops.
LEMMA ServerErrorKeeps ==
    ASSUME IInv, NEW t \in Threads, ServerError(t)
    PROVE  IInv'
<1>1. PoolTypeOK /\ pool' = pool /\ lastClean' = lastClean
  BY DEF IInv, ServerError
<1>2. /\ thread' \in [Threads -> ThreadRecords]
      /\ \A u \in Threads \ {t} : thread'[u] = thread[u]
      /\ thread'[t].pc \in {"send", "idle"}
      /\ thread'[t].pc = "send" => /\ thread[t].pc = "send"
                                   /\ thread'[t].conn = thread[t].conn
                                   /\ thread'[t].host = thread[t].host
  <2>1. thread[t].pc = "send" /\ RetryOrRaise(t, thread[t].conn)
    BY DEF ServerError
  <2>2. thread[t].conn \in Conns
    BY <2>1 DEF IInv, Knows, Sending
  <2> QED BY <1>1, <2>1, <2>2, RetryFacts DEF Idle
<1>3. /\ conn' \in [Conns -> ConnRecords \cup {Closed}]
      /\ \A c \in Conns : Used(c)' => conn'[c] = conn[c]
  BY <1>1, KeepUsedFacts DEF ServerError, PoolTypeOK
<1>4. PoolTypeOK'
  BY <1>1, <1>2, <1>3 DEF PoolTypeOK, ThreadRecords
<1>5. \A u \in Threads :
         /\ thread'[u].pc \in {"clean", "get"} => thread'[u].host \in Hosts
         /\ thread'[u].pc = "send" => /\ thread[u].pc = "send"
                                      /\ thread'[u].conn = thread[u].conn
                                      /\ thread'[u].host = thread[u].host
  BY <1>2 DEF IInv, Knows
<1>6. \A h \in Hosts, s \in Schemes :
         Drawn(pool'[h][s], pool[h][s], 1..Len(pool[h][s]))
  BY <1>1, SamePool
<1> QED BY <1>3, <1>4, <1>5, <1>6, NothingNew

LEMMA RedirectedKeeps ==
    ASSUME IInv, NEW t \in Threads, Redirected(t)
    PROVE  IInv'
<1>1. PoolTypeOK /\ pool' = pool /\ lastClean' = lastClean
  BY DEF IInv, Redirected
<1>2. /\ thread' \in [Threads -> ThreadRecords]
      /\ \A u \in Threads \ {t} : thread'[u] = thread[u]
      /\ thread'[t].pc = "clean" /\ thread'[t].host \in Hosts
  <2>1. PICK h \in Hosts, s \in Schemes :
           thread' = [thread EXCEPT ![t].pc = "clean", ![t].conn = None,
                                    ![t].host = h, ![t].scheme = s]
    BY DEF Redirected
  <2>2. thread \in [Threads -> ThreadRecords]
    BY <1>1 DEF PoolTypeOK, ThreadRecords
  <2>3. PICK r \in ThreadRecords : r = thread[t]
    BY <2>2
  <2> DEFINE new == [r EXCEPT !.pc = "clean", !.conn = None, !.host = h,
                              !.scheme = s]
  <2>4. new \in ThreadRecords /\ new.pc = "clean" /\ new.host = h
    BY <2>3 DEF ThreadRecords, ThreadPCs
  <2>5. thread' = [thread EXCEPT ![t] = new]
    BY <2>1, <2>2, <2>3
  <2> HIDE DEF new
  <2> QED BY <2>2, <2>4, <2>5
<1>3. /\ conn' \in [Conns -> ConnRecords \cup {Closed}]
      /\ \A c \in Conns : Used(c)' => conn'[c] = conn[c]
  BY <1>1, KeepUsedFacts DEF Redirected, PoolTypeOK
<1>4. PoolTypeOK'
  BY <1>1, <1>2, <1>3 DEF PoolTypeOK, ThreadRecords
<1>5. \A u \in Threads :
         /\ thread'[u].pc \in {"clean", "get"} => thread'[u].host \in Hosts
         /\ thread'[u].pc = "send" => /\ thread[u].pc = "send"
                                      /\ thread'[u].conn = thread[u].conn
                                      /\ thread'[u].host = thread[u].host
  BY <1>2 DEF IInv, Knows
<1>6. \A h \in Hosts, s \in Schemes :
         Drawn(pool'[h][s], pool[h][s], 1..Len(pool[h][s]))
  BY <1>1, SamePool
<1> QED BY <1>3, <1>4, <1>5, <1>6, NothingNew

\* A response is closed: of its connection nothing else changes.
LEMMA ReadFacts ==
    ASSUME PoolTypeOK, NEW t \in Threads, Read(t)
    PROVE  /\ conn' \in [Conns -> ConnRecords \cup {Closed}]
           /\ \A c \in Conns : /\ conn'[c].host = conn[c].host
                               /\ conn'[c].scheme = conn[c].scheme
                               /\ conn'[c].crossed = conn[c].crossed
                               /\ conn'[c].quiet = conn[c].quiet
                               /\ conn[c].reader = None => conn'[c].reader = None
<1>1. PICK x \in Conns : /\ conn[x].reader = t
                         /\ conn' = [conn EXCEPT ![x].reader = None]
  BY DEF Read
<1>2. conn \in [Conns -> ConnRecords \cup {Closed}]
  BY DEF PoolTypeOK
<1>3. PICK r \in ConnRecords : r = conn[x]
  BY <1>1, <1>2, NoneAssumption DEF Closed
<1>4. PICK new : new = [r EXCEPT !.reader = None]
  OBVIOUS
<1>5. /\ new \in ConnRecords /\ new.host = r.host /\ new.scheme = r.scheme
      /\ new.crossed = r.crossed /\ new.quiet = r.quiet /\ new.reader = None
  BY <1>4 DEF ConnRecords
<1>6. conn' = [conn EXCEPT ![x] = new]
  BY <1>1, <1>2, <1>3, <1>4
<1> QED BY <1>2, <1>3, <1>5, <1>6

LEMMA ReadKeeps ==
    ASSUME IInv, NEW t \in Threads, Read(t)
    PROVE  IInv'
<1>1. /\ PoolTypeOK /\ pool' = pool /\ lastClean' = lastClean
      /\ thread' = thread
  BY DEF IInv, Read
<1>2. /\ conn' \in [Conns -> ConnRecords \cup {Closed}]
      /\ \A c \in Conns : /\ conn'[c].host = conn[c].host
                          /\ conn'[c].scheme = conn[c].scheme
                          /\ conn'[c].crossed = conn[c].crossed
                          /\ conn[c].reader = None => conn'[c].reader = None
  BY <1>1, ReadFacts
<1>3. PoolTypeOK'
  BY <1>1, <1>2 DEF PoolTypeOK
<1>4. \A u \in Threads :
         /\ thread'[u].pc \in {"clean", "get"} => thread'[u].host \in Hosts
         /\ thread'[u].pc = "send" => /\ thread[u].pc = "send"
                                      /\ thread'[u].conn = thread[u].conn
                                      /\ thread'[u].host = thread[u].host
  BY <1>1 DEF IInv, Knows
<1>5. \A h \in Hosts, s \in Schemes :
         Drawn(pool'[h][s], pool[h][s], 1..Len(pool[h][s]))
  BY <1>1, SamePool
<1> QED BY <1>2, <1>3, <1>4, <1>5, NothingNew

LEMMA TickKeeps ==
    ASSUME IInv, Tick
    PROVE  IInv'
<1>1. PoolTypeOK /\ thread' = thread
  BY DEF IInv, Tick
<1>2. /\ pool' \in [Hosts -> [Schemes -> Seq(Entries)]]
      /\ \A h \in Hosts, s \in Schemes :
            Drawn(pool'[h][s], pool[h][s], 1..Len(pool[h][s]))
  <2> DEFINE aged(q) == [j \in DOMAIN q |-> [q[j] EXCEPT !.age = Older(@, Stale)]]
  <2>1. ASSUME NEW q \in Seq(Entries)
        PROVE  /\ aged(q) \in Seq(Entries)
               /\ Drawn(aged(q), q, 1..Len(q))
    <3>1. /\ Len(q) \in Nat /\ DOMAIN q = 1..Len(q)
          /\ \A j \in 1..Len(q) : q[j] \in Entries
      BY LenProperties
    <3>2. \A e \in Entries : /\ [e EXCEPT !.age = Older(e.age, Stale)] \in Entries
                             /\ [e EXCEPT !.age = Older(e.age, Stale)].conn = e.conn
      BY DEF Entries, Ages, Stale, Older
    <3>3. PICK f : f = aged(q)
      OBVIOUS
    <3>4. f \in [1..Len(q) -> Entries] /\ \A j \in 1..Len(q) : f[j].conn = q[j].conn
      BY <3>1, <3>2, <3>3
    <3>5. f \in Seq(Entries) /\ Len(f) = Len(q)
      BY <3>1, <3>4, FunctionIsSeq
    <3>6. Drawn(f, q, 1..Len(q))
      BY <3>4, <3>5, DrawnItself
    <3> QED BY <3>3, <3>5, <3>6
  <2>2. pool' = [h \in Hosts |-> [s \in Schemes |-> aged(pool[h][s])]]
    BY DEF Tick
  <2> HIDE DEF aged
  <2>3. \A h \in Hosts, s \in Schemes :
           /\ aged(pool[h][s]) \in Seq(Entries)
           /\ Drawn(aged(pool[h][s]), pool[h][s], 1..Len(pool[h][s]))
    BY <1>1, <2>1, PoolTyped
  <2>4. pool' \in [Hosts -> [Schemes -> Seq(Entries)]]
    BY <2>2, <2>3
  <2>5. \A h \in Hosts, s \in Schemes : pool'[h][s] = aged(pool[h][s])
    BY <2>2
  <2> QED BY <2>3, <2>4, <2>5
<1>3. lastClean' \in 0..CleanInterval + 1
  BY <1>1 DEF Tick, PoolTypeOK, Older
<1>4. ASSUME NEW c \in Conns
      PROVE  /\ conn'[c] \in ConnRecords \cup {Closed}
             /\ conn'[c].host = conn[c].host /\ conn'[c].scheme = conn[c].scheme
             /\ conn'[c].crossed = conn[c].crossed
             /\ conn'[c].reader = conn[c].reader
  <2>1. CASE InPool(c) /\ conn[c].reader = None
    <3>1. conn[c].host \in Hosts
      <4>1. PICK h \in Hosts, s \in Schemes : \E j \in DOMAIN pool[h][s] :
               pool[h][s][j].conn = c
        BY <2>1 DEF InPool
      <4>2. Right(c, h)
        BY <4>1 DEF IInv, PoolRight
      <4> QED BY <4>2 DEF Right
    <3>2. conn[c] \in ConnRecords
      BY <1>1, <3>1, OpenRecord
    <3>3. conn'[c] = [conn[c] EXCEPT !.quiet = Older(conn[c].quiet, Stale)]
      BY <2>1 DEF Tick
    <3>4. Older(conn[c].quiet, Stale) \in Ages
      BY <3>2 DEF ConnRecords, Ages, Stale, Older
    <3> QED BY <3>2, <3>3, <3>4 DEF ConnRecords
  <2>2. CASE ~(InPool(c) /\ conn[c].reader = None)
    <3>1. conn'[c] = conn[c]
      BY <2>2 DEF Tick
    <3> QED BY <1>1, <3>1 DEF PoolTypeOK
  <2> QED BY <2>1, <2>2
<1>5. PoolTypeOK'
  <2>1. conn' \in [Conns -> ConnRecords \cup {Closed}]
    BY <1>4 DEF Tick
  <2> QED BY <1>1, <1>2, <1>3, <2>1 DEF PoolTypeOK
<1>6. \A u \in Threads :
         /\ thread'[u].pc \in {"clean", "get"} => thread'[u].host \in Hosts
         /\ thread'[u].pc = "send" => /\ thread[u].pc = "send"
                                      /\ thread'[u].conn = thread[u].conn
                                      /\ thread'[u].host = thread[u].host
  BY <1>1 DEF IInv, Knows
<1> QED BY <1>2, <1>4, <1>5, <1>6, NothingNew

\* A connection just opened by thread t, unless it is closed at once.
LEMMA OpenedFacts ==
    ASSUME PoolTypeOK, NEW t \in Threads, NEW c \in Conns, NEW s \in Schemes,
           thread[t].host \in Hosts, s = Own \/ thread[t].scheme = s,
           New(t, c, s)
    PROVE  /\ conn' \in [Conns -> ConnRecords \cup {Closed}]
           /\ \A d \in Conns \ {c} : Used(d)' => conn'[d] = conn[d]
           /\ Used(c)' =>
                /\ conn'[c].host = thread[t].host /\ conn'[c].reader = None
                /\ conn'[c].scheme # Own => conn'[c].crossed = "yes"
                /\ Crosses(t) => conn'[c].crossed = "yes"
<1> DEFINE rec == [host |-> thread[t].host, scheme |-> s,
                   crossed |-> IF Crosses(t) THEN "yes" ELSE "no",
                   reader |-> None, quiet |-> 0]
<1>1. rec \in ConnRecords
  BY DEF ConnRecords, Ages, Stale
<1>2. /\ rec.host = thread[t].host /\ rec.reader = None
      /\ rec.scheme # Own => rec.crossed = "yes"
      /\ Crosses(t) => rec.crossed = "yes"
  BY DEF Crosses
<1>3. KeepUsed([conn EXCEPT ![c] = rec])
  BY DEF New
<1> HIDE DEF rec
<1>4. PICK new : new = [conn EXCEPT ![c] = rec]
  OBVIOUS
<1>5. /\ new \in [Conns -> ConnRecords \cup {Closed}] /\ new[c] = rec
      /\ \A d \in Conns \ {c} : new[d] = conn[d]
  BY <1>1, <1>4 DEF PoolTypeOK
<1>6. /\ conn' \in [Conns -> ConnRecords \cup {Closed}]
      /\ \A d \in Conns : Used(d)' => conn'[d] = new[d]
  BY <1>3, <1>4, <1>5, KeepUsedFacts
<1> QED BY <1>2, <1>5, <1>6

LEMMA ReconnectKeeps ==
    ASSUME IInv, NEW t \in Threads, Reconnect(t)
    PROVE  IInv'
<1>1. /\ PoolTypeOK /\ pool' = pool /\ lastClean' = lastClean
      /\ thread[t].pc = "send"
  BY DEF IInv, Reconnect
<1>2. PICK c \in Conns : RetryOrRaise(t, c) /\ New(t, c, Own)
  BY DEF Reconnect
<1>3. /\ thread' \in [Threads -> ThreadRecords]
      /\ \A u \in Threads \ {t} : thread'[u] = thread[u]
      /\ \/ /\ thread'[t].pc = "send" /\ thread'[t].conn = c
            /\ thread'[t].host = thread[t].host
         \/ thread'[t] = Idle
  BY <1>1, <1>2, RetryFacts
<1>4. thread[t].host \in Hosts
  BY <1>1 DEF IInv, Knows, Sending
<1>5. /\ ~InPool(c) /\ \A u \in Threads : thread[u].conn # c
  BY <1>2 DEF New
<1>6. /\ conn' \in [Conns -> ConnRecords \cup {Closed}]
      /\ \A d \in Conns \ {c} : Used(d)' => conn'[d] = conn[d]
      /\ Used(c)' => /\ conn'[c].host = thread[t].host /\ conn'[c].reader = None
                     /\ conn'[c].scheme # Own => conn'[c].crossed = "yes"
  BY <1>1, <1>2, <1>4, OpenedFacts
<1>7. PoolTypeOK'
  BY <1>1, <1>3, <1>6 DEF PoolTypeOK, ThreadRecords
<1>8. ~InPool(c)'
  BY <1>1, <1>5 DEF InPool
<1>9. \A h \in Hosts, s \in Schemes :
         Drawn(pool'[h][s], pool[h][s], 1..Len(pool[h][s]))
  BY <1>1, SamePool
<1>10. CASE thread'[t].pc = "send"
  <2>1. thread'[t].conn = c /\ thread'[t].host = thread[t].host
    BY <1>3, <1>10 DEF Idle
  <2>2. Used(c)'
    BY <2>1 DEF Used
  <2>3. Right(c, thread[t].host)' /\ conn'[c].reader = None
    BY <1>6, <2>1, <2>2 DEF Right
  <2>4. Takes(t, c)
    BY <1>3, <1>4, <1>5, <1>6, <1>8, <1>10, <2>1, <2>3 DEF Takes
  <2> QED BY <1>7, <1>9, <2>4, Taken
<1>11. CASE thread'[t].pc # "send"
  <2>1. thread'[t] = Idle
    BY <1>3, <1>11
  <2>2. ~Used(c)'
    <3>1. \A u \in Threads : thread'[u].conn # c
      BY <1>3, <1>5, <2>1 DEF Idle
    <3> QED BY <1>8, <3>1 DEF Used, InPool
  <2>3. \A d \in Conns : Used(d)' => conn'[d] = conn[d]
    BY <1>6, <2>2
  <2>4. \A u \in Threads :
           /\ thread'[u].pc \in {"clean", "get"} => thread'[u].host \in Hosts
           /\ thread'[u].pc = "send" => /\ thread[u].pc = "send"
                                        /\ thread'[u].conn = thread[u].conn
                                        /\ thread'[u].host = thread[u].host
    BY <1>3, <1>11, <2>1 DEF IInv, Knows, Idle
  <2> QED BY <1>7, <1>9, <2>3, <2>4, NothingNew
<1> QED BY <1>10, <1>11

\* One queue of the pool is set.
LEMMA QueueSet ==
    ASSUME pool \in [Hosts -> [Schemes -> Seq(Entries)]],
           NEW h \in Hosts, NEW s \in Schemes, NEW left \in Seq(Entries),
           pool' = [pool EXCEPT ![h][s] = left]
    PROVE  /\ pool' \in [Hosts -> [Schemes -> Seq(Entries)]]
           /\ pool'[h][s] = left
           /\ \A g \in Hosts, r \in Schemes :
                 ~(g = h /\ r = s) => pool'[g][r] = pool[g][r]
<1>1. PICK queues : queues = [pool[h] EXCEPT ![s] = left]
  OBVIOUS
<1>2. pool[h] \in [Schemes -> Seq(Entries)]
  OBVIOUS
<1>3. /\ queues \in [Schemes -> Seq(Entries)] /\ queues[s] = left
      /\ \A r \in Schemes \ {s} : queues[r] = pool[h][r]
  BY <1>1, <1>2
<1>4. pool' = [pool EXCEPT ![h] = queues]
  BY <1>1
<1>5. /\ pool' \in [Hosts -> [Schemes -> Seq(Entries)]]
      /\ pool'[h] = queues /\ \A g \in Hosts \ {h} : pool'[g] = pool[g]
  BY <1>3, <1>4
<1>6. \A g \in Hosts, r \in Schemes :
         ~(g = h /\ r = s) => pool'[g][r] = pool[g][r]
  BY <1>3, <1>5
<1> QED BY <1>3, <1>5, <1>6

\* One queue has been drawn from, the others stay.
LEMMA QueueDrawn ==
    ASSUME PoolTypeOK, NEW h \in Hosts, NEW s \in Schemes,
           NEW left \in Seq(Entries), pool' = [pool EXCEPT ![h][s] = left],
           Drawn(left, pool[h][s], 1..Len(pool[h][s]))
    PROVE  \A g \in Hosts, r \in Schemes :
              Drawn(pool'[g][r], pool[g][r], 1..Len(pool[g][r]))
<1>1. /\ pool'[h][s] = left
      /\ \A g \in Hosts, r \in Schemes :
            ~(g = h /\ r = s) => pool'[g][r] = pool[g][r]
  BY PoolTyped, QueueSet
<1>2. ASSUME NEW g \in Hosts, NEW r \in Schemes
      PROVE  Drawn(pool'[g][r], pool[g][r], 1..Len(pool[g][r]))
  <2>1. CASE g = h /\ r = s
    BY <1>1, <2>1
  <2>2. CASE ~(g = h /\ r = s)
    <3>1. pool'[g][r] = pool[g][r]
      BY <1>1, <2>2
    <3>2. Drawn(pool[g][r], pool[g][r], 1..Len(pool[g][r]))
      BY PoolTyped
    <3> QED BY <3>1, <3>2
  <2> QED BY <2>1, <2>2
<1> QED BY <1>2

\* Thread t has got connection c.
LEMMA GotFacts ==
    ASSUME PoolTypeOK, NEW t \in Threads, NEW c \in Conns,
           thread' = [thread EXCEPT ![t].pc = "send", ![t].conn = c]
    PROVE  /\ thread' \in [Threads -> ThreadRecords]
           /\ \A u \in Threads \ {t} : thread'[u] = thread[u]
           /\ thread'[t].pc = "send" /\ thread'[t].conn = c
           /\ thread'[t].host = thread[t].host
<1>1. thread \in [Threads -> ThreadRecords]
  BY DEF PoolTypeOK, ThreadRecords
<1>2. PICK r \in ThreadRecords : r = thread[t]
  BY <1>1
<1> DEFINE new == [r EXCEPT !.pc = "send", !.conn = c]
<1>3. new \in ThreadRecords /\ new.pc = "send" /\ new.conn = c /\ new.host = r.host
  BY <1>2 DEF ThreadRecords, ThreadPCs
<1>4. thread' = [thread EXCEPT ![t] = new]
  BY <1>1, <1>2
<1> HIDE DEF new
<1> QED BY <1>1, <1>2, <1>3, <1>4, ZenonT(30)

\* The connection at the k-th place of a queue is in the pool, and nowhere else.
OnlyAt(h, s, k, c) ==
    \A g \in Hosts, r \in Schemes : \A j \in 1..Len(pool[g][r]) :
       pool[g][r][j].conn = c => g = h /\ r = s /\ j = k

LEMMA InOnePlace ==
    ASSUME IInv, NEW h \in Hosts, NEW s \in Schemes, NEW k \in 1..Len(pool[h][s]),
           NEW c \in Conns, c = pool[h][s][k].conn
    PROVE  InPool(c) /\ Right(c, h) /\ OnlyAt(h, s, k, c)
<1>1. \A g \in Hosts, r \in Schemes : DOMAIN pool[g][r] = 1..Len(pool[g][r])
  <2>1. \A g \in Hosts, r \in Schemes : pool[g][r] \in Seq(Entries)
    BY PoolTyped DEF IInv
  <2> QED BY <2>1, LenProperties
<1>2. k \in DOMAIN pool[h][s]
  BY <1>1
<1>3. InPool(c)
  BY <1>2 DEF InPool
<1>4. Right(c, h)
  BY <1>2 DEF IInv, PoolRight
<1>5. ASSUME NEW g \in Hosts, NEW r \in Schemes, NEW j \in 1..Len(pool[g][r]),
             pool[g][r][j].conn = c
      PROVE  g = h /\ r = s /\ j = k
  <2>1. j \in DOMAIN pool[g][r]
    BY <1>1
  <2>2. pool[g][r][j].conn = pool[h][s][k].conn
    BY <1>5
  <2>3. Apart(pool)
    BY DEF IInv
  <2> QED BY <1>2, <2>1, <2>2, <2>3 DEF Apart
<1>6. OnlyAt(h, s, k, c)
  BY <1>5 DEF OnlyAt
<1> QED BY <1>3, <1>4, <1>6

\* What is taken out of its only place is in the pool no more.
LEMMA TakenOut ==
    ASSUME IInv, NEW h \in Hosts, NEW s \in Schemes, NEW k \in 1..Len(pool[h][s]),
           NEW c \in Conns, c = pool[h][s][k].conn, NEW left \in Seq(Entries),
           pool' = [pool EXCEPT ![h][s] = left],
           Drawn(left, pool[h][s], (1..Len(pool[h][s])) \ {k})
    PROVE  ~InPool(c)'
<1>1. SUFFICES ASSUME NEW g \in Hosts, NEW r \in Schemes,
                      NEW j \in DOMAIN pool'[g][r], pool'[g][r][j].conn = c
               PROVE  FALSE
  BY DEF InPool
<1>2. /\ pool'[h][s] = left
      /\ ~(g = h /\ r = s) => pool'[g][r] = pool[g][r]
  BY PoolTyped, QueueSet DEF IInv
<1>3. \A i \in 1..Len(pool[g][r]) : pool[g][r][i].conn = c => g = h /\ r = s /\ i = k
  <2>1. OnlyAt(h, s, k, c)
    BY InOnePlace
  <2> QED BY <2>1 DEF OnlyAt
<1>4. CASE g = h /\ r = s
  <2>1. j \in 1..Len(left) /\ left[j].conn = c
    BY <1>1, <1>2, <1>4, LenProperties
  <2>2. PICK l \in (1..Len(pool[h][s])) \ {k} : left[j].conn = pool[h][s][l].conn
    BY <2>1 DEF Drawn
  <2> QED BY <1>3, <1>4, <2>1, <2>2
<1>5. CASE ~(g = h /\ r = s)
  <2>1. pool'[g][r] = pool[g][r]
    BY <1>2, <1>5
  <2>2. pool[g][r] \in Seq(Entries)
    BY PoolTyped DEF IInv
  <2>3. j \in 1..Len(pool[g][r]) /\ pool[g][r][j].conn = c
    BY <1>1, <2>1, <2>2, LenProperties
  <2> QED BY <1>3, <1>5, <2>3
<1> QED BY <1>4, <1>5

\* The two ways of get, for a host h, a scheme s and the cleaned queue q.
GotOld(t, h, s, q, i) ==
    /\ FirstReady(q, i)
    /\ pool' = [pool EXCEPT ![h][s] = Rotated(q, i)]
    /\ thread' = [thread EXCEPT ![t].pc = "send", ![t].conn = q[i].conn]
    /\ KeepUsed(conn)
GotNew(t, h, s, q, c) ==
    /\ \A i \in 1..Len(q) : ~FirstReady(q, i)
    /\ pool' = [pool EXCEPT ![h][s] = Rotated(q, Len(q) + 1)]
    /\ thread' = [thread EXCEPT ![t].pc = "send", ![t].conn = c]
    /\ New(t, c, s)

LEMMA GetShape ==
    ASSUME IInv, NEW t \in Threads, Get(t)
    PROVE  /\ PoolTypeOK /\ lastClean' = lastClean
           /\ \E h \in Hosts, s \in Schemes, q \in Seq(Entries) :
                 /\ h = thread[t].host /\ s = thread[t].scheme
                 /\ q = Cleaned(pool[h][s])
                 /\ \/ \E i \in 1..Len(q) : GotOld(t, h, s, q, i)
                    \/ \E c \in Conns : GotNew(t, h, s, q, c)
<1>1. /\ PoolTypeOK /\ lastClean' = lastClean /\ thread[t].pc = "get"
      /\ thread[t].host \in Hosts /\ thread[t].scheme \in Schemes
  BY ZenonT(30) DEF IInv, Knows, Get, PoolTypeOK
<1>2. PICK h \in Hosts, s \in Schemes : h = thread[t].host /\ s = thread[t].scheme
  BY <1>1
<1>3. PICK q \in Seq(Entries) : q = Cleaned(pool[h][s])
  BY <1>1, <1>2, PoolTyped, CleanedFacts
<1>4. \/ \E i \in 1..Len(q) : GotOld(t, h, s, q, i)
      \/ \E c \in Conns : GotNew(t, h, s, q, c)
  BY <1>2, <1>3, Zenon DEF Get, GotOld, GotNew
<1> QED BY <1>1, <1>2, <1>3, <1>4

LEMMA GetKeeps ==
    ASSUME IInv, NEW t \in Threads, Get(t)
    PROVE  IInv'
<1>1. PICK h \in Hosts, s \in Schemes, q \in Seq(Entries) :
         /\ h = thread[t].host /\ s = thread[t].scheme
         /\ q = Cleaned(pool[h][s])
         /\ \/ \E i \in 1..Len(q) : GotOld(t, h, s, q, i)
            \/ \E c \in Conns : GotNew(t, h, s, q, c)
  BY GetShape
<1>2. h = thread[t].host /\ s = thread[t].scheme
  BY <1>1
<1>3. q = Cleaned(pool[h][s])
  BY <1>1
<1>4. PoolTypeOK /\ lastClean' = lastClean
  BY GetShape
<1>5. ASSUME NEW i \in 1..Len(q), GotOld(t, h, s, q, i)
      PROVE  IInv'
  <2>1. PoolTypeOK /\ pool[h][s] \in Seq(Entries)
    BY PoolTyped DEF IInv
  <2>2. q \in Seq(Entries) /\ Len(q) \in Nat
    BY <1>3, <2>1, CleanedFacts, LenProperties
  <2>3. PICK c \in Conns : c = q[i].conn
    <3>1. q[i] \in Entries
      BY <2>2, LenProperties
    <3> QED BY <3>1 DEF Entries
  <2>4. i \in 1..Len(q) + 1 /\ i <= Len(q)
    BY <2>2
  <2>5. PICK left \in Seq(Entries) :
           /\ left = Rotated(q, i)
           /\ Drawn(left, pool[h][s], 1..Len(pool[h][s]))
           /\ \E k \in 1..Len(pool[h][s]) :
                 /\ c = pool[h][s][k].conn
                 /\ Drawn(left, pool[h][s], (1..Len(pool[h][s])) \ {k})
    BY <1>3, <2>1, <2>3, <2>4, GetFacts
  <2>6. pool' = [pool EXCEPT ![h][s] = left]
    BY <1>5, <2>5 DEF GotOld
  <2>7. PICK k \in 1..Len(pool[h][s]) :
           /\ c = pool[h][s][k].conn
           /\ Drawn(left, pool[h][s], (1..Len(pool[h][s])) \ {k})
    BY <2>5
  <2>8. InPool(c) /\ Right(c, h)
    BY <2>7, InOnePlace
  <2>9. ~InPool(c)'
    BY <2>6, <2>7, TakenOut
  <2>10. /\ pool' \in [Hosts -> [Schemes -> Seq(Entries)]]
         /\ \A g \in Hosts, r \in Schemes :
               Drawn(pool'[g][r], pool[g][r], 1..Len(pool[g][r]))
    <3>1. pool' \in [Hosts -> [Schemes -> Seq(Entries)]]
      BY <2>1, <2>6, PoolTyped, QueueSet
    <3> QED BY <2>1, <2>5, <2>6, <3>1, QueueDrawn
  <2>11. /\ thread' \in [Threads -> ThreadRecords]
         /\ \A u \in Threads \ {t} : thread'[u] = thread[u]
         /\ thread'[t].pc = "send" /\ thread'[t].conn = c /\ thread'[t].host = h
    BY <1>2, <1>5, <2>1, <2>3, GotFacts DEF GotOld
  <2>12. /\ conn' \in [Conns -> ConnRecords \cup {Closed}]
         /\ \A d \in Conns : Used(d)' => conn'[d] = conn[d]
    BY <1>5, <2>1, KeepUsedFacts DEF PoolTypeOK, GotOld
  <2>13. PoolTypeOK'
    BY <1>4, <2>1, <2>10, <2>11, <2>12 DEF PoolTypeOK, ThreadRecords
  <2>14. \A u \in Threads \ {t} : thread[u].pc = "send" => thread[u].conn # c
    BY <2>8 DEF IInv, Knows, Sending
  <2>15. conn[c].reader = None
    BY <1>5, <2>3 DEF FirstReady, ConnReady, GotOld
  <2>16. conn'[c] = conn[c]
    <3>1. Used(c)'
      BY <2>11 DEF Used
    <3> QED BY <2>12, <3>1
  <2>17. Right(c, thread[t].host)' /\ conn'[c].reader = None
    BY <2>8, <2>11, <2>15, <2>16 DEF Right
  <2>18. \A d \in Conns \ {c} : Used(d)' => conn'[d] = conn[d]
    BY <2>12
  <2>19. thread'[t].host = thread[t].host /\ thread'[t].host \in Hosts
    BY <1>2, <2>11
  <2>20. \A u \in Threads \ {t} : /\ thread'[u] = thread[u]
                                 /\ thread[u].pc = "send"
                                    => thread[u].conn # c
    BY <2>11, <2>14
  <2>21. Takes(t, c)
    BY <2>9, <2>11, <2>17, <2>18, <2>19, <2>20 DEF Takes
  <2> QED BY <2>10, <2>13, <2>21, Taken
<1>6. ASSUME NEW c \in Conns, GotNew(t, h, s, q, c)
      PROVE  IInv'
  <2>1. PoolTypeOK /\ pool[h][s] \in Seq(Entries)
    BY PoolTyped DEF IInv
  <2>2. q \in Seq(Entries) /\ Len(q) \in Nat
    BY <1>3, <2>1, CleanedFacts, LenProperties
  <2>3. Len(q) + 1 \in 1..Len(q) + 1
    BY <2>2
  <2>4. PICK left \in Seq(Entries) :
           /\ left = Rotated(q, Len(q) + 1)
           /\ Drawn(left, pool[h][s], 1..Len(pool[h][s]))
    BY <1>3, <2>1, <2>3, GetFacts
  <2>5. pool' = [pool EXCEPT ![h][s] = left]
    BY <1>6, <2>4 DEF GotNew
  <2>6. /\ pool' \in [Hosts -> [Schemes -> Seq(Entries)]]
        /\ \A g \in Hosts, r \in Schemes :
              Drawn(pool'[g][r], pool[g][r], 1..Len(pool[g][r]))
    <3>1. pool' \in [Hosts -> [Schemes -> Seq(Entries)]]
      BY <2>1, <2>5, PoolTyped, QueueSet
    <3> QED BY <2>1, <2>4, <2>5, <3>1, QueueDrawn
  <2>7. /\ thread' \in [Threads -> ThreadRecords]
        /\ \A u \in Threads \ {t} : thread'[u] = thread[u]
        /\ thread'[t].pc = "send" /\ thread'[t].conn = c /\ thread'[t].host = h
    BY <1>2, <1>6, <2>1, GotFacts DEF GotNew
  <2>8. ~InPool(c) /\ \A u \in Threads : thread[u].conn # c
    BY <1>6 DEF New, GotNew
  <2>9. /\ conn' \in [Conns -> ConnRecords \cup {Closed}]
        /\ \A d \in Conns \ {c} : Used(d)' => conn'[d] = conn[d]
        /\ Used(c)' => /\ conn'[c].host = h /\ conn'[c].reader = None
                       /\ conn'[c].scheme # Own => conn'[c].crossed = "yes"
    BY <1>2, <1>6, <2>1, OpenedFacts DEF GotNew
  <2>10. PoolTypeOK'
    BY <1>4, <2>1, <2>6, <2>7, <2>9 DEF PoolTypeOK, ThreadRecords
  <2>11. ~InPool(c)'
    <3>1. /\ pool \in [Hosts -> [Schemes -> Seq(Entries)]]
          /\ Apart(pool)
      BY <2>1, PoolTyped DEF IInv
    <3>2. \A g \in Hosts, r \in Schemes :
             \A i \in DOMAIN pool'[g][r] : \E j \in DOMAIN pool[g][r] :
                pool'[g][r][i].conn = pool[g][r][j].conn
      BY <2>6, <3>1, DrawnFromPool
    <3> QED BY <2>8, <3>2 DEF InPool
  <2>12. Used(c)'
    BY <2>7 DEF Used
  <2>13. Right(c, thread[t].host)' /\ conn'[c].reader = None
    BY <2>7, <2>9, <2>12 DEF Right
  <2>14. Takes(t, c)
    BY <1>2, <2>7, <2>8, <2>9, <2>11, <2>13 DEF Takes
  <2> QED BY <2>6, <2>10, <2>14, Taken
<1> QED BY <1>1, <1>5, <1>6, ZenonT(60)

\* The connection of the answer is the only thing that comes into the pool, at
\* the end of the queue of its host.
LEMMA AnsweredKeeps ==
    ASSUME IInv, NEW t \in Threads, Answered(t)
    PROVE  IInv'
<1> DEFINE h == thread[t].host
           q == pool[h][Own]
<1>1. /\ PoolTypeOK /\ lastClean' = lastClean /\ thread[t].pc = "send"
      /\ Sending(t)
  BY DEF IInv, Knows, Answered
<1>2. PICK c \in Conns : c = thread[t].conn
  BY <1>1 DEF Sending
<1>3. /\ h \in Hosts /\ Right(c, h) /\ ~InPool(c) /\ conn[c].reader = None
  BY <1>1, <1>2 DEF Sending
<1>4. /\ thread' \in [Threads -> ThreadRecords]
      /\ \A u \in Threads \ {t} : thread'[u] = thread[u]
      /\ thread'[t].pc = "idle"
  <2>1. thread \in [Threads -> ThreadRecords]
    BY <1>1 DEF PoolTypeOK, ThreadRecords
  <2>2. thread' = [thread EXCEPT ![t] = Idle]
    BY DEF Answered
  <2>3. Idle \in ThreadRecords
    BY DEF Idle, ThreadRecords, ThreadPCs
  <2> QED BY <2>1, <2>2, <2>3 DEF Idle
<1>5. /\ conn' \in [Conns -> ConnRecords \cup {Closed}]
      /\ \A d \in Conns \ {c} : conn'[d] = conn[d]
      /\ \A d \in Conns : /\ conn'[d].host = conn[d].host
                          /\ conn'[d].scheme = conn[d].scheme
                          /\ conn'[d].crossed = conn[d].crossed
  <2>1. PICK reader \in {t, None} :
           conn' = [conn EXCEPT ![c].reader = reader, ![c].quiet = 0]
    BY <1>2 DEF Answered
  <2>2. conn[c] \in ConnRecords /\ conn \in [Conns -> ConnRecords \cup {Closed}]
    BY <1>1, <1>3, OpenRecord DEF Right, PoolTypeOK
  <2>3. PICK r \in ConnRecords : r = conn[c]
    BY <2>2
  <2> DEFINE new == [r EXCEPT !.reader = reader, !.quiet = 0]
  <2>4. /\ new \in ConnRecords /\ new.host = r.host /\ new.scheme = r.scheme
        /\ new.crossed = r.crossed
    <3>1. reader \in Threads \cup {None} /\ 0 \in Ages
      BY DEF Ages, Stale
    <3>2. PICK r1 \in ConnRecords : r1 = [r EXCEPT !.reader = reader]
      BY <3>1 DEF ConnRecords
    <3>3. /\ r1.host = r.host /\ r1.scheme = r.scheme /\ r1.crossed = r.crossed
      BY <3>2 DEF ConnRecords
    <3>4. new = [r1 EXCEPT !.quiet = 0]
      BY <3>2
    <3> QED BY <3>1, <3>3, <3>4 DEF ConnRecords
  <2>5. conn' = [conn EXCEPT ![c] = new]
    BY <2>1, <2>2, <2>3
  <2> HIDE DEF new
  <2> QED BY <2>2, <2>3, <2>4, <2>5
<1>6. /\ q \in Seq(Entries) /\ Len(q) \in Nat /\ DOMAIN q = 1..Len(q)
  BY <1>1, <1>3, PoolTyped, LenProperties
<1>7. /\ pool' \in [Hosts -> [Schemes -> Seq(Entries)]]
      /\ \A g \in Hosts, r \in Schemes :
            ~(g = h /\ r = Own) => pool'[g][r] = pool[g][r]
      /\ DOMAIN pool'[h][Own] = 1..Len(q) + 1
      /\ \A j \in 1..Len(q) : pool'[h][Own][j] = q[j]
      /\ pool'[h][Own][Len(q) + 1].conn = c
  <2>1. PICK added \in Seq(Entries) :
           /\ added = Added(q, c) /\ Len(added) = Len(q) + 1
           /\ \A j \in 1..Len(q) : added[j] = q[j]
           /\ added[Len(q) + 1].conn = c
    <3> HIDE DEF q
    <3> QED BY <1>6, AddedFacts
  <2>2. DOMAIN added = 1..Len(q) + 1
    BY <2>1, LenProperties
  <2>3. pool' = [pool EXCEPT ![h][Own] = added]
    BY <1>2, <2>1, ZenonT(60) DEF Answered
  <2>4. pool \in [Hosts -> [Schemes -> Seq(Entries)]]
    BY <1>1, PoolTyped
  <2> HIDE DEF h
  <2>5. /\ pool' \in [Hosts -> [Schemes -> Seq(Entries)]]
        /\ pool'[h][Own] = added
        /\ \A g \in Hosts, r \in Schemes :
              ~(g = h /\ r = Own) => pool'[g][r] = pool[g][r]
    BY <1>3, <2>1, <2>3, <2>4
  <2> QED BY <2>1, <2>2, <2>5
<1>8. PoolTypeOK'
  BY <1>1, <1>4, <1>5, <1>7 DEF PoolTypeOK, ThreadRecords
<1> DEFINE last(g, r, i) == g = h /\ r = Own /\ i = Len(q) + 1
<1>9. ASSUME NEW g \in Hosts, NEW r \in Schemes, NEW i \in DOMAIN pool'[g][r]
      PROVE  \/ last(g, r, i) /\ pool'[g][r][i].conn = c
             \/ /\ ~last(g, r, i) /\ i \in DOMAIN pool[g][r]
                /\ pool'[g][r][i].conn = pool[g][r][i].conn
                /\ pool'[g][r][i].conn # c
  <2>1. CASE last(g, r, i)
    BY <1>7, <2>1, ZenonT(60)
  <2>2. CASE ~last(g, r, i)
    <3>1. i \in DOMAIN pool[g][r] /\ pool'[g][r][i] = pool[g][r][i]
      <4>1. CASE g = h /\ r = Own
        <5>1. i \in 1..Len(q) + 1
          BY <1>7, <4>1
        <5>2. i \in 1..Len(q)
          BY <1>6, <2>2, <4>1, <5>1
        <5> QED BY <1>6, <1>7, <4>1, <5>2
      <4>2. CASE ~(g = h /\ r = Own)
        BY <1>7, <4>2
      <4> QED BY <4>1, <4>2
    <3>2. InPool(pool[g][r][i].conn)
      BY <3>1 DEF InPool
    <3> QED BY <1>3, <2>2, <3>1, <3>2
  <2> QED BY <2>1, <2>2
<1>10. Apart(pool)'
  <2>1. ASSUME NEW g \in Hosts, NEW k \in Hosts, NEW r \in Schemes,
               NEW s \in Schemes, NEW i \in DOMAIN pool'[g][r],
               NEW j \in DOMAIN pool'[k][s],
               pool'[g][r][i].conn = pool'[k][s][j].conn
        PROVE  g = k /\ r = s /\ i = j
    <3> HIDE DEF last
    <3>1. CASE last(g, r, i) /\ last(k, s, j)
      BY <3>1 DEF last
    <3>2. CASE ~last(g, r, i) /\ ~last(k, s, j)
      <4>1. /\ i \in DOMAIN pool[g][r] /\ j \in DOMAIN pool[k][s]
            /\ pool[g][r][i].conn = pool[k][s][j].conn
        BY <1>9, <2>1, <3>2
      <4> QED BY <4>1 DEF IInv, Apart
    <3>3. last(g, r, i) <=> last(k, s, j)
      BY <1>9, <2>1
    <3> QED BY <3>1, <3>2, <3>3
  <2> QED BY <2>1, Zenon DEF Apart
<1>11. PoolRight'
  <2>1. ASSUME NEW g \in Hosts, NEW r \in Schemes, NEW i \in DOMAIN pool'[g][r]
        PROVE  r = Own /\ Right(pool[g][r][i].conn, g)'
    <3>1. PICK d : d = pool'[g][r][i].conn
      OBVIOUS
    <3>2. d \in Conns
      <4>1. pool'[g][r] \in Seq(Entries)
        BY <1>7, SMTT(60)
      <4>2. pool'[g][r][i] \in Entries
        BY <4>1, LenProperties
      <4> QED BY <3>1, <4>2 DEF Entries
    <3>3. r = Own /\ Right(d, g)
      <4>1. CASE last(g, r, i)
        BY <1>3, <1>7, <3>1, <4>1, ZenonT(60)
      <4>2. CASE ~last(g, r, i)
        <5>1. i \in DOMAIN pool[g][r] /\ d = pool[g][r][i].conn
          BY <1>9, <3>1, <4>2
        <5> QED BY <5>1 DEF IInv, PoolRight
      <4> QED BY <4>1, <4>2
    <3>4. Right(d, g)'
      BY <1>5, <3>2, <3>3 DEF Right
    <3> QED BY <3>1, <3>3, <3>4 DEF Right
  <2> QED BY <2>1 DEF PoolRight
<1>12. \A d : InPool(d)' => InPool(d) \/ d = c
  <2>1. SUFFICES ASSUME NEW g \in Hosts, NEW r \in Schemes,
                        NEW i \in DOMAIN pool'[g][r], pool'[g][r][i].conn # c
                 PROVE  InPool(pool'[g][r][i].conn)
    BY DEF InPool
  <2>2. i \in DOMAIN pool[g][r] /\ pool'[g][r][i].conn = pool[g][r][i].conn
    BY <1>9, <2>1
  <2> QED BY <2>2 DEF InPool
<1>13. \A u \in Threads : Knows(u)'
  <2>1. Knows(t)'
    BY <1>4 DEF Knows
  <2>2. ASSUME NEW u \in Threads \ {t} PROVE Knows(u)'
    <3>1. thread'[u] = thread[u] /\ Knows(u)
      BY <1>4 DEF IInv
    <3>2. CASE thread[u].pc = "send"
      <4>1. Sending(u)
        BY <3>1, <3>2 DEF Knows
      <4>2. PICK d \in Conns : d = thread[u].conn
        BY <4>1 DEF Sending
      <4>3. d # c
        BY <1>1, <1>2, <3>2, <4>2 DEF IInv, Alone
      <4>4. conn'[d] = conn[d] /\ ~InPool(d)'
        BY <1>5, <1>12, <4>1, <4>2, <4>3 DEF Sending
      <4>5. Sending(u)'
        BY <3>1, <4>1, <4>2, <4>4 DEF Sending, Right, InPool
      <4> QED BY <3>1, <3>2, <4>5 DEF Knows
    <3>3. CASE thread[u].pc # "send"
      BY <3>1, <3>3 DEF Knows
    <3> QED BY <3>2, <3>3
  <2> QED BY <2>1, <2>2
<1>14. Alone'
  BY <1>4 DEF IInv, Alone
<1> QED BY <1>8, <1>10, <1>11, <1>13, <1>14 DEF IInv

-----------------------------------------------------------------------------
(* The theorems.                                                           *)

LEMMA InitHolds == PoolInit => IInv
<1> SUFFICES ASSUME PoolInit PROVE IInv
  OBVIOUS
<1>1. PoolTypeOK
  <2>1. <<>> \in Seq(Entries)
    OBVIOUS
  <2>2. Idle \in ThreadRecords
    BY DEF Idle, ThreadRecords, ThreadPCs
  <2> QED BY <2>1, <2>2 DEF PoolInit, PoolTypeOK, ThreadRecords
<1>2. \A h \in Hosts, s \in Schemes : DOMAIN pool[h][s] = {}
  BY DEF PoolInit
<1>3. Apart(pool) /\ PoolRight
  BY <1>2 DEF Apart, PoolRight
<1>4. \A t \in Threads : thread[t].pc = "idle"
  BY DEF PoolInit, Idle
<1> QED BY <1>1, <1>3, <1>4 DEF IInv, Alone, Knows

LEMMA StepHolds == IInv /\ [PoolNext]_poolVars => IInv'
<1> SUFFICES ASSUME IInv, [PoolNext]_poolVars PROVE IInv'
  OBVIOUS
<1>1. CASE Tick
  BY <1>1, TickKeeps
<1>2. ASSUME NEW t \in Threads, ThreadStep(t) PROVE IInv'
  <2>1. CASE Start(t)
    BY <2>1, StartKeeps
  <2>2. CASE Clean(t)
    BY <2>2, CleanKeeps
  <2>3. CASE Get(t)
    BY <2>3, GetKeeps
  <2>4. CASE Answered(t)
    BY <2>4, AnsweredKeeps
  <2>5. CASE ServerError(t)
    BY <2>5, ServerErrorKeeps
  <2>6. CASE Redirected(t)
    BY <2>6, RedirectedKeeps
  <2>7. CASE Reconnect(t)
    BY <2>7, ReconnectKeeps
  <2>8. CASE Read(t)
    BY <2>8, ReadKeeps
  <2> QED BY <1>2, <2>1, <2>2, <2>3, <2>4, <2>5, <2>6, <2>7, <2>8 DEF ThreadStep
<1>3. CASE UNCHANGED poolVars
  <2>1. PoolTypeOK' /\ Apart(pool)'
    BY <1>3 DEF poolVars, IInv, PoolTypeOK, Apart
  <2>2. PoolRight'
    BY <1>3 DEF poolVars, IInv, PoolRight, Right
  <2>3. \A t \in Threads : Knows(t)'
    BY <1>3 DEF poolVars, IInv, Knows, Sending, Right, InPool
  <2>4. Alone'
    BY <1>3 DEF poolVars, IInv, Alone
  <2> QED BY <2>1, <2>2, <2>3, <2>4 DEF IInv
<1> QED BY <1>1, <1>2, <1>3 DEF PoolNext

LEMMA IInvGives == IInv => PoolTypeOK /\ ExclusiveUse /\ RightHost
<1> SUFFICES ASSUME IInv PROVE PoolTypeOK /\ ExclusiveUse /\ RightHost
  OBVIOUS
<1>1. ExclusiveUse
  <2>1. ASSUME NEW t \in Threads, thread[t].pc = "send"
        PROVE  /\ ~InPool(thread[t].conn)
               /\ conn[thread[t].conn].reader = None
               /\ \A u \in Threads \ {t} :
                     thread[u].pc = "send" => thread[u].conn # thread[t].conn
    BY <2>1 DEF IInv, Knows, Sending, Alone
  <2>2. Apart(pool)
    BY DEF IInv
  <2> QED BY <2>1, <2>2, Zenon DEF Apart, ExclusiveUse
<1>2. RightHost
  BY DEF IInv, Knows, Sending, Right, PoolRight, RightHost
<1> QED BY <1>1, <1>2 DEF IInv

\* For any number of threads, hosts, schemes, connections and retries: a
\* connection on which _mexe sends has one thread, is not in the pool, and its
\* last response is closed; and the pool has no connection twice.
THEOREM OneUser == PoolSpec => []ExclusiveUse
<1>1. PoolSpec => []IInv
  BY InitHolds, StepHolds, PTL DEF PoolSpec
<1> QED BY <1>1, IInvGives, PTL

\* For all of them, a request goes to its own host, and what get_http_connection
\* can find in the pool for a host is connected to it.
THEOREM HostIsRight == PoolSpec => []RightHost
<1>1. PoolSpec => []IInv
  BY InitHolds, StepHolds, PTL DEF PoolSpec
<1> QED BY <1>1, IInvGives, PTL

\* All variables stay in their types.
THEOREM PoolTyping == PoolSpec => []PoolTypeOK
<1>1. PoolSpec => []IInv
  BY InitHolds, StepHolds, PTL DEF PoolSpec
<1> QED BY <1>1, IInvGives, PTL

\* A step of one thread leaves the others where they are.
LEMMA OnlyThread ==
    ASSUME IInv, NEW u \in Threads, ThreadStep(u)
    PROVE  \A t \in Threads \ {u} : thread'[t] = thread[t]
<1>1. PICK new : thread' = [thread EXCEPT ![u] = new]
  <2>1. CASE Start(u) \/ Clean(u) \/ Answered(u)
    BY <2>1, ZenonT(30) DEF Start, Clean, Answered
  <2>2. CASE Get(u) \/ Redirected(u)
    BY <2>2, ZenonT(30) DEF Get, Redirected
  <2>3. CASE ServerError(u) \/ Reconnect(u)
    BY <2>3 DEF ServerError, Reconnect, RetryOrRaise
  <2>4. CASE Read(u)
    <3>1. thread' = [thread EXCEPT ![u] = thread[u]]
      BY <2>4 DEF Read, IInv, PoolTypeOK
    <3> QED BY <3>1
  <2> QED BY <2>1, <2>2, <2>3, <2>4 DEF ThreadStep
<1>2. thread \in [Threads -> ThreadRecords]
  BY DEF IInv, PoolTypeOK, ThreadRecords
<1> QED BY <1>1, <1>2

-----------------------------------------------------------------------------
(* How long a connection has not been used.                                *)

\* A queue holds the oldest entry first, since one whose time is set anew goes
\* to its end; and that happens only while the connection is being read from, so
\* that the age of an entry covers the time its connection has been quiet.
Sorted(q) == \A i, j \in 1..Len(q) : i <= j => q[j].age <= q[i].age
Covered(e) == /\ conn[e.conn].quiet <= e.age
              /\ conn[e.conn].reader # None => conn[e.conn].quiet = 0
AgesOK == \A h \in Hosts, s \in Schemes :
             /\ Sorted(pool[h][s])
             /\ \A i \in 1..Len(pool[h][s]) : Covered(pool[h][s][i])

LEMMA EntriesOf ==
    ASSUME NEW q \in Seq(Entries)
    PROVE  /\ Len(q) \in Nat /\ DOMAIN q = 1..Len(q)
           /\ \A j \in 1..Len(q) : /\ q[j] \in Entries /\ q[j].conn \in Conns
                                   /\ q[j].age \in Nat /\ q[j].age <= Stale
<1>1. Len(q) \in Nat /\ DOMAIN q = 1..Len(q) /\ \A j \in 1..Len(q) : q[j] \in Entries
  BY LenProperties
<1>2. \A e \in Entries : e.conn \in Conns /\ e.age \in Nat /\ e.age <= Stale
  BY DEF Entries, Ages, Stale
<1> QED BY <1>1, <1>2

\* What clean leaves of a sorted queue is not stale.
LEMMA CleanedAges ==
    ASSUME NEW q \in Seq(Entries), Sorted(q)
    PROVE  /\ Sorted(Cleaned(q))
           /\ \A i \in 1..Len(Cleaned(q)) :
                 /\ \E k \in 1..Len(q) : Cleaned(q)[i] = q[k]
                 /\ Cleaned(q)[i].age <= StaleDuration
<1>0. /\ Len(q) \in Nat /\ DOMAIN q = 1..Len(q)
      /\ \A j \in 1..Len(q) : q[j] \in Entries /\ q[j].age \in Nat
  BY EntriesOf
<1>1. PICK k : k = FirstFresh(q)
  OBVIOUS
<1>2. /\ k \in 1..Len(q) + 1
      /\ k <= Len(q) => ~PairStale(q[k])
  <2> DEFINE S == {j \in DOMAIN q : ~PairStale(q[j])} \cup {Len(q) + 1}
  <2>1. S \subseteq 1..Len(q) + 1 /\ S \subseteq Nat /\ S # {}
    BY <1>0
  <2>2. k = Min(S)
    BY <1>1 DEF FirstFresh
  <2>3. \A j \in S : j <= Len(q) => ~PairStale(q[j])
    BY <1>0
  <2> HIDE DEF S
  <2>4. k \in S
    BY <2>1, <2>2, MinFact
  <2> QED BY <2>1, <2>3, <2>4
<1>3. PICK n : n = Len(q) + 1 - k
  OBVIOUS
<1>4. n \in Nat
  BY <1>0, <1>2, <1>3
<1> DEFINE f == [j \in 1..n |-> q[j + k - 1]]
<1>5. Cleaned(q) = f
  BY <1>1, <1>3 DEF Cleaned
<1>6. \A j \in 1..n : j + k - 1 \in 1..Len(q) /\ k <= Len(q)
  BY <1>0, <1>2, <1>3
<1>7. f \in [1..n -> Entries]
  BY <1>0, <1>6
<1>8. Len(f) = n
  BY <1>4, <1>7, FunctionIsSeq
<1>9. \A j \in 1..n : f[j] = q[j + k - 1]
  OBVIOUS
<1> HIDE DEF f
<1>10. Sorted(f)
  <2>1. ASSUME NEW i \in 1..n, NEW j \in 1..n, i <= j
        PROVE  f[j].age <= f[i].age
    <3>1. /\ i + k - 1 \in 1..Len(q) /\ j + k - 1 \in 1..Len(q)
          /\ i + k - 1 <= j + k - 1
      BY <1>0, <1>2, <1>6, <2>1
    <3>2. q[j + k - 1].age <= q[i + k - 1].age
      BY <3>1 DEF Sorted
    <3> QED BY <1>9, <3>2
  <2> QED BY <1>8, <2>1 DEF Sorted
<1>11. ASSUME NEW i \in 1..n
       PROVE  /\ \E l \in 1..Len(q) : f[i] = q[l]
              /\ f[i].age <= StaleDuration
  <2>1. /\ i + k - 1 \in 1..Len(q) /\ k \in 1..Len(q) /\ k <= i + k - 1
    BY <1>0, <1>2, <1>6
  <2>2. q[i + k - 1].age <= q[k].age
    BY <2>1 DEF Sorted
  <2>3. q[k].age <= StaleDuration
    BY <1>0, <1>2, <2>1 DEF PairStale
  <2>4. q[i + k - 1].age \in Nat /\ q[k].age \in Nat
    BY <1>0, <2>1
  <2> QED BY <1>9, <2>1, <2>2, <2>3, <2>4
<1> QED BY <1>5, <1>8, <1>10, <1>11

\* get leaves the queue sorted; the entries whose time is of now are those
\* before the one it returns.
LEMMA RotatedAges ==
    ASSUME NEW q \in Seq(Entries), Sorted(q), NEW i \in 1..Len(q) + 1
    PROVE  /\ Sorted(Rotated(q, i))
           /\ \A j \in 1..Len(Rotated(q, i)) :
                 \E k \in 1..Len(q) :
                    /\ Rotated(q, i)[j].conn = q[k].conn
                    /\ \/ Rotated(q, i)[j].age = q[k].age
                       \/ k < i /\ Rotated(q, i)[j].age = 0
<1>0. /\ Len(q) \in Nat
      /\ \A j \in 1..Len(q) : q[j] \in Entries /\ q[j].age \in Nat
  BY EntriesOf
<1>1. PICK n : n = Len(q)
  OBVIOUS
<1>2. \A j \in 1..n : /\ Entry(q[j].conn, 0) \in Entries
                      /\ Entry(q[j].conn, 0).conn = q[j].conn
                      /\ Entry(q[j].conn, 0).age = 0
  BY <1>0, <1>1 DEF Entry, Entries, Ages, Stale
<1>3. CASE i > n
  <2> DEFINE f == [j \in 1..n |-> Entry(q[j].conn, 0)]
  <2>1. Rotated(q, i) = f
    BY <1>1, <1>3 DEF Rotated
  <2>2. f \in [1..n -> Entries]
        /\ \A j \in 1..n : f[j].conn = q[j].conn /\ f[j].age = 0
    BY <1>2
  <2> HIDE DEF f
  <2>3. Len(f) = n
    BY <1>0, <1>1, <2>2, FunctionIsSeq
  <2>4. \A j \in 1..n : j < i
    BY <1>0, <1>1, <1>3
  <2> QED BY <1>1, <2>1, <2>2, <2>3, <2>4 DEF Sorted
<1>4. CASE ~(i > n)
  <2> DEFINE f == [j \in 1..n - 1 |-> IF j <= n - i THEN q[i + j]
                                      ELSE Entry(q[i + j - n].conn, 0)]
  <2>1. Rotated(q, i) = f
    BY <1>1, <1>4 DEF Rotated
  <2>2. n - 1 \in Nat /\ i \in 1..n /\ n \in Nat
    BY <1>0, <1>1, <1>4
  <2>3. ASSUME NEW j \in 1..n - 1, j <= n - i
        PROVE  i + j \in 1..n /\ f[j] = q[i + j]
    BY <2>2, <2>3
  <2>4. ASSUME NEW j \in 1..n - 1, ~(j <= n - i)
        PROVE  /\ i + j - n \in 1..n /\ i + j - n < i
               /\ f[j] = Entry(q[i + j - n].conn, 0)
    BY <2>2, <2>4
  <2>5. \A j \in 1..n - 1 : f[j] \in Entries /\ f[j].age \in Nat
    <3> HIDE DEF f
    <3>1. TAKE j \in 1..n - 1
    <3>2. CASE j <= n - i
      BY <1>0, <1>1, <2>3, <3>2
    <3>3. CASE ~(j <= n - i)
      BY <1>2, <2>4, <3>3
    <3> QED BY <3>2, <3>3
  <2>6. f \in [1..n - 1 -> Entries]
    BY <2>5
  <2>7. Len(f) = n - 1
    BY <2>2, <2>6, FunctionIsSeq
  <2> HIDE DEF f
  <2>8. Sorted(f)
    <3>1. ASSUME NEW j \in 1..n - 1, NEW l \in 1..n - 1, j <= l
          PROVE  f[l].age <= f[j].age
      <4>1. CASE l <= n - i
        <5>1. /\ j <= n - i /\ i + j <= i + l
          BY <2>2, <3>1, <4>1
        <5>2. /\ f[l] = q[i + l] /\ f[j] = q[i + j]
              /\ i + l \in 1..Len(q) /\ i + j \in 1..Len(q)
          BY <1>1, <2>3, <4>1, <5>1
        <5> QED BY <5>1, <5>2 DEF Sorted
      <4>2. CASE ~(l <= n - i)
        <5>1. f[l].age = 0
          BY <1>2, <2>4, <4>2
        <5> QED BY <2>5, <5>1
      <4> QED BY <4>1, <4>2
    <3> QED BY <2>7, <3>1 DEF Sorted
  <2>9. ASSUME NEW j \in 1..n - 1
        PROVE  \E k \in 1..n : /\ f[j].conn = q[k].conn
                               /\ \/ f[j].age = q[k].age
                                  \/ k < i /\ f[j].age = 0
    <3>1. CASE j <= n - i
      <4>1. i + j \in 1..n /\ f[j] = q[i + j]
        BY <2>3, <3>1
      <4>2. PICK k : k = i + j
        OBVIOUS
      <4>3. k \in 1..n /\ f[j].conn = q[k].conn /\ f[j].age = q[k].age
        BY <4>1, <4>2
      <4> QED BY <4>3
    <3>2. CASE ~(j <= n - i)
      BY <1>1, <1>2, <2>4, <3>2, ZenonT(30)
    <3> QED BY <3>1, <3>2
  <2> QED BY <1>1, <2>1, <2>7, <2>8, <2>9
<1> QED BY <1>3, <1>4

\* If get finds no connection, none is ready.
LEMMA NoneIsReady ==
    ASSUME NEW q \in Seq(Entries), \A i \in 1..Len(q) : ~FirstReady(q, i)
    PROVE  \A i \in 1..Len(q) : ~ConnReady(q[i])
<1> DEFINE S == {i \in 1..Len(q) : ConnReady(q[i])}
<1>1. S \subseteq Nat /\ Len(q) \in Nat
  BY EntriesOf
<1>2. ASSUME S # {} PROVE FALSE
  <2>1. PICK m \in S : \A i \in S : m <= i
    <3> HIDE DEF S
    <3> QED BY <1>1, <1>2, LeastOf
  <2>2. \A j \in 1..m - 1 : ~ConnReady(q[j])
    BY <1>1, <2>1
  <2> QED BY <2>1, <2>2 DEF FirstReady
<1> QED BY <1>2

\* A step that leaves an entry its age, or sets it anew while its connection is
\* not ready, and makes no connection in the pool quieter.
LEMMA AgesKept ==
    ASSUME IInv, AgesOK, IInv',
           \A h \in Hosts, s \in Schemes :
              /\ Sorted(pool[h][s])'
              /\ \A i \in 1..Len(pool'[h][s]) : \E k \in 1..Len(pool[h][s]) :
                    /\ pool'[h][s][i].conn = pool[h][s][k].conn
                    /\ \/ pool'[h][s][i].age = pool[h][s][k].age
                       \/ /\ pool'[h][s][i].age = 0
                          /\ conn[pool[h][s][k].conn].reader # None,
           \A c \in Conns : InPool(c) /\ InPool(c)' =>
              /\ conn'[c].quiet = conn[c].quiet
              /\ conn[c].reader = None => conn'[c].reader = None
    PROVE  AgesOK'
<1>1. ASSUME NEW h \in Hosts, NEW s \in Schemes, NEW i \in 1..Len(pool'[h][s])
      PROVE  Covered(pool[h][s][i])'
  <2>1. PICK k \in 1..Len(pool[h][s]) :
           /\ pool'[h][s][i].conn = pool[h][s][k].conn
           /\ \/ pool'[h][s][i].age = pool[h][s][k].age
              \/ /\ pool'[h][s][i].age = 0
                 /\ conn[pool[h][s][k].conn].reader # None
    OBVIOUS
  <2>2. pool[h][s] \in Seq(Entries) /\ pool'[h][s] \in Seq(Entries)
    BY DEF IInv, PoolTypeOK
  <2>3. PICK c \in Conns : c = pool[h][s][k].conn
    BY <2>2, EntriesOf
  <2>4. InPool(c) /\ InPool(c)'
    <3>1. k \in DOMAIN pool[h][s] /\ i \in DOMAIN pool'[h][s]
      BY <2>2, EntriesOf
    <3> QED BY <2>1, <2>3, <3>1, ZenonT(30) DEF InPool
  <2>5. /\ conn'[c].quiet = conn[c].quiet
        /\ conn[c].reader = None => conn'[c].reader = None
    BY <2>4
  <2>6. /\ conn[c].quiet <= pool[h][s][k].age
        /\ conn[c].reader # None => conn[c].quiet = 0
    BY <2>3 DEF AgesOK, Covered
  <2>7. CASE pool'[h][s][i].age = pool[h][s][k].age
    BY <2>1, <2>3, <2>5, <2>6, <2>7, ZenonT(30) DEF Covered
  <2>8. CASE pool'[h][s][i].age = 0 /\ conn[c].reader # None
    <3>1. pool'[h][s][i].conn = c
      BY <2>1, <2>3, Zenon
    <3>2. conn'[c].quiet = 0
      BY <2>5, <2>6, <2>8, Zenon
    <3>3. 0 <= 0
      OBVIOUS
    <3> QED BY <2>8, <3>1, <3>2, <3>3, Zenon DEF Covered
  <2> QED BY <2>1, <2>3, <2>7, <2>8
<1> QED BY <1>1 DEF AgesOK

\* A step that does not touch the pool.
LEMMA SamePoolAges ==
    ASSUME IInv, AgesOK, IInv', pool' = pool,
           NEW new \in [Conns -> ConnRecords \cup {Closed}], KeepUsed(new),
           \A c \in Conns : InPool(c) =>
              /\ new[c].quiet = conn[c].quiet
              /\ conn[c].reader = None => new[c].reader = None
    PROVE  AgesOK'
<1>1. \A c \in Conns : InPool(c) /\ InPool(c)' =>
         /\ conn'[c].quiet = conn[c].quiet
         /\ conn[c].reader = None => conn'[c].reader = None
  BY KeepUsedFacts DEF Used
<1>2. \A h \in Hosts, s \in Schemes : Sorted(pool[h][s])'
  BY DEF AgesOK, Sorted
<1> QED BY <1>1, <1>2, AgesKept

LEMMA StayAges ==
    ASSUME IInv, AgesOK, IInv', NEW t \in Threads,
           ServerError(t) \/ Redirected(t) \/ Reconnect(t) \/ Read(t)
    PROVE  AgesOK'
<1>1. /\ PoolTypeOK /\ pool' = pool
      /\ conn \in [Conns -> ConnRecords \cup {Closed}]
  BY DEF IInv, PoolTypeOK, ServerError, Redirected, Reconnect, Read
<1>2. CASE ServerError(t) \/ Redirected(t)
  <2>1. KeepUsed(conn)
    BY <1>2 DEF ServerError, Redirected
  <2> QED BY <1>1, <2>1, SamePoolAges
<1>3. CASE Reconnect(t)
  <2>1. PICK c \in Conns : New(t, c, Own)
    BY <1>3 DEF Reconnect
  <2>2. thread[t].host \in Hosts
    BY <1>3 DEF Reconnect, IInv, Knows, Sending
  <2>3. ~InPool(c) /\ \A d \in Conns \ {c} : Used(d)' => conn'[d] = conn[d]
    BY <1>1, <2>1, <2>2, OpenedFacts DEF New
  <2>4. \A d \in Conns : InPool(d) /\ InPool(d)' => conn'[d] = conn[d]
    BY <2>3 DEF Used
  <2>5. \A h \in Hosts, s \in Schemes : Sorted(pool[h][s])'
    BY <1>1 DEF AgesOK, Sorted
  <2> QED BY <1>1, <2>4, <2>5, AgesKept
<1>4. CASE Read(t)
  <2>1. \A c \in Conns : InPool(c) /\ InPool(c)' =>
           /\ conn'[c].quiet = conn[c].quiet
           /\ conn[c].reader = None => conn'[c].reader = None
    BY <1>1, <1>4, ReadFacts
  <2>2. \A h \in Hosts, s \in Schemes : Sorted(pool[h][s])'
    BY <1>1 DEF AgesOK, Sorted
  <2> QED BY <1>1, <2>1, <2>2, AgesKept
<1> QED BY <1>2, <1>3, <1>4

LEMMA StartAges ==
    ASSUME IInv, AgesOK, IInv', NEW t \in Threads, Start(t)
    PROVE  AgesOK'
  BY SMTT(30) DEF Start, AgesOK, Sorted, Covered

LEMMA CleanAges ==
    ASSUME IInv, AgesOK, IInv', NEW t \in Threads, Clean(t)
    PROVE  AgesOK'
<1>1. /\ PoolTypeOK /\ KeepUsed(conn)
      /\ conn \in [Conns -> ConnRecords \cup {Closed}]
  BY DEF IInv, PoolTypeOK, Clean
<1>2. CASE pool' = pool
  BY <1>1, <1>2, SamePoolAges
<1>3. CASE pool' = [h \in Hosts |-> [s \in Schemes |-> Cleaned(pool[h][s])]]
  <2>1. \A c \in Conns : InPool(c) /\ InPool(c)' => conn'[c] = conn[c]
    <3>1. \A c \in Conns : Used(c)' => conn'[c] = conn[c]
      BY <1>1, KeepUsedFacts
    <3> QED BY <3>1 DEF Used
  <2>2. ASSUME NEW h \in Hosts, NEW s \in Schemes
        PROVE  /\ Sorted(pool[h][s])'
               /\ \A i \in 1..Len(pool'[h][s]) : \E k \in 1..Len(pool[h][s]) :
                     pool'[h][s][i] = pool[h][s][k]
    <3>1. pool[h][s] \in Seq(Entries) /\ Sorted(pool[h][s])
      BY <1>1, PoolTyped DEF AgesOK
    <3>2. pool'[h][s] = Cleaned(pool[h][s])
      BY <1>3
    <3>3. /\ Sorted(Cleaned(pool[h][s]))
          /\ \A i \in 1..Len(Cleaned(pool[h][s])) : \E k \in 1..Len(pool[h][s]) :
                Cleaned(pool[h][s])[i] = pool[h][s][k]
      BY <3>1, CleanedAges
    <3>4. Sorted(pool[h][s])'
      BY <3>2, <3>3 DEF Sorted
    <3> QED BY <3>2, <3>3, <3>4
  <2>3. ASSUME NEW h \in Hosts, NEW s \in Schemes, NEW i \in 1..Len(pool'[h][s])
        PROVE  \E k \in 1..Len(pool[h][s]) :
                  /\ pool'[h][s][i].conn = pool[h][s][k].conn
                  /\ pool'[h][s][i].age = pool[h][s][k].age
    <3>1. PICK k \in 1..Len(pool[h][s]) : pool'[h][s][i] = pool[h][s][k]
      BY <2>2
    <3> QED BY <3>1
  <2> QED BY <2>1, <2>2, <2>3, AgesKept
<1> QED BY <1>2, <1>3 DEF Clean

\* get sets anew the times of entries it finds not ready.
LEMMA GetAges ==
    ASSUME IInv, AgesOK, IInv', NEW t \in Threads, Get(t)
    PROVE  AgesOK'
<1>0. PICK h \in Hosts, s \in Schemes, q \in Seq(Entries) :
         /\ h = thread[t].host /\ s = thread[t].scheme
         /\ q = Cleaned(pool[h][s])
         /\ \/ \E i \in 1..Len(q) : GotOld(t, h, s, q, i)
            \/ \E c \in Conns : GotNew(t, h, s, q, c)
  BY GetShape
<1>1. /\ PoolTypeOK
      /\ conn \in [Conns -> ConnRecords \cup {Closed}]
      /\ pool \in [Hosts -> [Schemes -> Seq(Entries)]]
  BY DEF IInv, PoolTypeOK
<1>2. /\ q \in Seq(Entries) /\ Sorted(q) /\ Len(q) \in Nat
      /\ \A i \in 1..Len(q) : \E k \in 1..Len(pool[h][s]) : q[i] = pool[h][s][k]
  <2>1. PICK old \in Seq(Entries) : old = pool[h][s]
    BY <1>1
  <2>2. Sorted(old)
    BY <2>1 DEF AgesOK
  <2>3. q \in Seq(Entries)
    BY <1>0, <2>1, CleanedFacts
  <2>4. /\ Sorted(q)
        /\ \A i \in 1..Len(q) : \E k \in 1..Len(old) : q[i] = old[k]
    <3>1. /\ Sorted(Cleaned(old))
          /\ \A i \in 1..Len(Cleaned(old)) :
                /\ \E k \in 1..Len(old) : Cleaned(old)[i] = old[k]
                /\ Cleaned(old)[i].age <= StaleDuration
      BY <2>2, CleanedAges
    <3>2. q = Cleaned(old)
      BY <1>0, <2>1
    <3> QED BY <3>1, <3>2
  <2> QED BY <2>1, <2>3, <2>4, EntriesOf
<1>3. \A c \in Conns : InPool(c) /\ InPool(c)' => conn'[c] = conn[c]
  <2>1. CASE KeepUsed(conn)
    <3>1. \A c \in Conns : Used(c)' => conn'[c] = conn[c]
      BY <1>1, <2>1, KeepUsedFacts
    <3> QED BY <3>1 DEF Used
  <2>2. ASSUME NEW c \in Conns, New(t, c, s)
        PROVE  \A d \in Conns : InPool(d) /\ InPool(d)' => conn'[d] = conn[d]
    <3>1. ~InPool(c)
      BY <2>2 DEF New
    <3>2. \A d \in Conns \ {c} : Used(d)' => conn'[d] = conn[d]
      BY <1>0, <1>1, <2>2, OpenedFacts
    <3> QED BY <3>1, <3>2 DEF Used
  <2> QED BY <1>0, <2>1, <2>2, ZenonT(30) DEF GotOld, GotNew
<1>4. PICK i \in 1..Len(q) + 1 :
         /\ pool' = [pool EXCEPT ![h][s] = Rotated(q, i)]
         /\ \A k \in 1..Len(q) : k < i => ~ConnReady(q[k])
  <2>1. ASSUME NEW i \in 1..Len(q), GotOld(t, h, s, q, i)
        PROVE  \E j \in 1..Len(q) + 1 :
                  /\ pool' = [pool EXCEPT ![h][s] = Rotated(q, j)]
                  /\ \A k \in 1..Len(q) : k < j => ~ConnReady(q[k])
    <3>1. /\ \A k \in 1..i - 1 : ~ConnReady(q[k])
          /\ pool' = [pool EXCEPT ![h][s] = Rotated(q, i)]
      BY <2>1, Zenon DEF GotOld, FirstReady
    <3>2. \A k \in 1..Len(q) : k < i => k \in 1..i - 1
      BY <1>2
    <3>3. \A k \in 1..Len(q) : k < i => ~ConnReady(q[k])
      BY <3>1, <3>2, Zenon
    <3>4. i \in 1..Len(q) + 1
      BY <1>2
    <3> QED BY <3>1, <3>3, <3>4, Zenon
  <2>2. ASSUME NEW c \in Conns, GotNew(t, h, s, q, c)
        PROVE  \E j \in 1..Len(q) + 1 :
                  /\ pool' = [pool EXCEPT ![h][s] = Rotated(q, j)]
                  /\ \A k \in 1..Len(q) : k < j => ~ConnReady(q[k])
    <3>1. /\ \A k \in 1..Len(q) : ~FirstReady(q, k)
          /\ pool' = [pool EXCEPT ![h][s] = Rotated(q, Len(q) + 1)]
      BY <2>2, Zenon DEF GotNew
    <3>2. \A k \in 1..Len(q) : ~ConnReady(q[k])
      BY <1>2, <3>1, NoneIsReady
    <3>3. Len(q) + 1 \in 1..Len(q) + 1
      BY <1>2
    <3> QED BY <3>1, <3>2, <3>3, Zenon
  <2> QED BY <1>0, <2>1, <2>2, Zenon
<1>5. PICK left \in Seq(Entries) :
         /\ left = Rotated(q, i) /\ Sorted(left)
         /\ \A j \in 1..Len(left) : \E k \in 1..Len(q) :
               /\ left[j].conn = q[k].conn
               /\ left[j].age = q[k].age \/ (k < i /\ left[j].age = 0)
  <2>1. Rotated(q, i) \in Seq(Entries)
    BY <1>2, RotatedFacts
  <2>2. /\ Sorted(Rotated(q, i))
        /\ \A j \in 1..Len(Rotated(q, i)) : \E k \in 1..Len(q) :
              /\ Rotated(q, i)[j].conn = q[k].conn
              /\ \/ Rotated(q, i)[j].age = q[k].age
                 \/ k < i /\ Rotated(q, i)[j].age = 0
    BY <1>2, RotatedAges
  <2> QED BY <2>1, <2>2
<1>6. /\ pool'[h][s] = left
      /\ \A g \in Hosts, r \in Schemes :
            ~(g = h /\ r = s) => pool'[g][r] = pool[g][r]
  <2>1. pool' = [pool EXCEPT ![h][s] = left]
    BY <1>4, <1>5
  <2> QED BY <1>1, <2>1, QueueSet
<1>7. ASSUME NEW g \in Hosts, NEW r \in Schemes
      PROVE  /\ Sorted(pool[g][r])'
             /\ \A j \in 1..Len(pool'[g][r]) : \E k \in 1..Len(pool[g][r]) :
                   /\ pool'[g][r][j].conn = pool[g][r][k].conn
                   /\ \/ pool'[g][r][j].age = pool[g][r][k].age
                      \/ /\ pool'[g][r][j].age = 0
                         /\ conn[pool[g][r][k].conn].reader # None
  <2>1. CASE ~(g = h /\ r = s)
    <3>1. pool'[g][r] = pool[g][r]
      BY <1>6, <2>1
    <3>2. Sorted(pool[g][r])'
      BY <3>1 DEF AgesOK, Sorted
    <3> QED BY <3>1, <3>2
  <2>2. CASE g = h /\ r = s
    <3>1. Sorted(pool[g][r])'
      BY <1>5, <1>6, <2>2 DEF Sorted
    <3>2. ASSUME NEW j \in 1..Len(pool'[g][r])
          PROVE  \E k \in 1..Len(pool[g][r]) :
                    /\ pool'[g][r][j].conn = pool[g][r][k].conn
                    /\ \/ pool'[g][r][j].age = pool[g][r][k].age
                       \/ /\ pool'[g][r][j].age = 0
                          /\ conn[pool[g][r][k].conn].reader # None
      <4>0. pool'[g][r] = left
        BY <1>6, <2>2
      <4>1. PICK l \in 1..Len(q) :
               /\ pool'[g][r][j].conn = q[l].conn
               /\ \/ pool'[g][r][j].age = q[l].age
                  \/ l < i /\ pool'[g][r][j].age = 0
        BY <1>5, <4>0
      <4>2. PICK k \in 1..Len(pool[g][r]) : q[l] = pool[g][r][k]
        BY <1>2, <2>2
      <4>3. l < i => conn[q[l].conn].reader # None
        BY <1>4 DEF ConnReady
      <4> QED BY <4>1, <4>2, <4>3
    <3> QED BY <3>1, <3>2
  <2> QED BY <2>1, <2>2
<1>8. \A c \in Conns : InPool(c) /\ InPool(c)' =>
         /\ conn'[c].quiet = conn[c].quiet
         /\ conn[c].reader = None => conn'[c].reader = None
  BY <1>3
<1> QED BY <1>7, <1>8, AgesKept

\* The connection of an answer comes to the end of the queue, with no age yet.
LEMMA AnsweredAges ==
    ASSUME IInv, AgesOK, IInv', NEW t \in Threads, Answered(t)
    PROVE  AgesOK'
<1> DEFINE h == thread[t].host
           q == pool[h][Own]
<1>1. /\ PoolTypeOK /\ thread[t].pc = "send" /\ Sending(t)
      /\ conn \in [Conns -> ConnRecords \cup {Closed}]
      /\ pool \in [Hosts -> [Schemes -> Seq(Entries)]]
  BY DEF IInv, Knows, Answered, PoolTypeOK
<1>2. PICK c \in Conns : c = thread[t].conn
  BY <1>1 DEF Sending
<1>3. /\ h \in Hosts /\ ~InPool(c)
  BY <1>1, <1>2 DEF Sending
<1>4. /\ \A d \in Conns \ {c} : conn'[d] = conn[d]
      /\ conn'[c].quiet = 0
  <2>1. PICK reader \in {t, None} :
           conn' = [conn EXCEPT ![c].reader = reader, ![c].quiet = 0]
    BY <1>2 DEF Answered
  <2>2. PICK r \in ConnRecords : r = conn[c]
    BY <1>1, <1>2, OpenRecord DEF Sending, Right
  <2> DEFINE new == [r EXCEPT !.reader = reader, !.quiet = 0]
  <2>3. new.quiet = 0
    BY <2>2 DEF ConnRecords
  <2>4. conn' = [conn EXCEPT ![c] = new]
    BY <1>1, <2>1, <2>2
  <2> HIDE DEF new
  <2> QED BY <1>1, <2>3, <2>4
<1>5. /\ q \in Seq(Entries) /\ Len(q) \in Nat /\ Sorted(q)
      /\ \A j \in 1..Len(q) : q[j] \in Entries /\ q[j].age \in Nat
  BY <1>1, <1>3, EntriesOf DEF AgesOK
<1>6. PICK added \in Seq(Entries) :
         /\ added = Added(q, c) /\ Len(added) = Len(q) + 1
         /\ \A j \in 1..Len(q) : added[j] = q[j]
         /\ added[Len(q) + 1].conn = c
         /\ added[Len(q) + 1].age = 0
  <2>1. Entry(c, 0).age = 0
    BY DEF Entry
  <2> HIDE DEF q
  <2> QED BY <1>5, <2>1, AddedFacts
<1>7. /\ pool'[h][Own] = added
      /\ \A g \in Hosts, r \in Schemes :
            ~(g = h /\ r = Own) => pool'[g][r] = pool[g][r]
  <2>1. pool' = [pool EXCEPT ![h][Own] = added]
    BY <1>2, <1>6, ZenonT(60) DEF Answered
  <2> HIDE DEF h
  <2> QED BY <1>1, <1>3, <2>1
<1> HIDE DEF h, q
<1>8. Sorted(added)
  <2>1. ASSUME NEW i \in 1..Len(q) + 1, NEW j \in 1..Len(q) + 1, i <= j
        PROVE  added[j].age <= added[i].age
    <3>1. CASE j <= Len(q)
      <4>1. i \in 1..Len(q) /\ j \in 1..Len(q)
        BY <1>5, <2>1, <3>1
      <4>2. q[j].age <= q[i].age
        BY <1>5, <2>1, <4>1 DEF Sorted
      <4> QED BY <1>6, <4>1, <4>2
    <3>2. CASE j = Len(q) + 1
      <4>1. added[i] \in Entries /\ added[i].age \in Nat
        BY <1>6, EntriesOf
      <4> QED BY <1>6, <3>2, <4>1
    <3> QED BY <1>5, <3>1, <3>2
  <2> QED BY <1>6, <2>1 DEF Sorted
<1>9. ASSUME NEW g \in Hosts, NEW r \in Schemes, NEW i \in 1..Len(pool[g][r])
      PROVE  pool'[g][r][i] = pool[g][r][i] => Covered(pool[g][r][i])'
  <2>1. pool[g][r] \in Seq(Entries)
    BY <1>1
  <2>2. i \in DOMAIN pool[g][r] /\ pool[g][r][i].conn \in Conns
    BY <2>1, EntriesOf
  <2>3. pool[g][r][i].conn # c
    BY <1>3, <2>2 DEF InPool
  <2>4. conn'[pool[g][r][i].conn] = conn[pool[g][r][i].conn]
    BY <1>4, <2>2, <2>3
  <2>5. Covered(pool[g][r][i])
    BY DEF AgesOK
  <2> QED BY <2>4, <2>5 DEF Covered
<1>10. ASSUME NEW g \in Hosts, NEW r \in Schemes
       PROVE  /\ Sorted(pool[g][r])'
              /\ \A i \in 1..Len(pool'[g][r]) : Covered(pool[g][r][i])'
  <2>1. CASE ~(g = h /\ r = Own)
    <3>1. pool'[g][r] = pool[g][r]
      BY <1>7, <2>1
    <3>2. Sorted(pool[g][r])'
      BY <3>1 DEF AgesOK, Sorted
    <3> QED BY <1>9, <3>1, <3>2
  <2>2. CASE g = h /\ r = Own
    <3>1. Sorted(pool[g][r])'
      BY <1>7, <1>8, <2>2 DEF Sorted
    <3>2. ASSUME NEW i \in 1..Len(pool'[g][r])
          PROVE  Covered(pool[g][r][i])'
      <4>1. i \in 1..Len(q) + 1
        BY <1>6, <1>7, <2>2, <3>2
      <4>2. CASE i = Len(q) + 1
        <5>1. /\ pool'[g][r][i].conn = c /\ pool'[g][r][i].age = 0
          BY <1>6, <1>7, <2>2, <4>2
        <5>2. conn'[pool'[g][r][i].conn].quiet = 0
          BY <1>4, <5>1
        <5> QED BY <5>1, <5>2 DEF Covered
      <4>3. CASE i # Len(q) + 1
        <5>1. i \in 1..Len(q)
          <6>1. PICK n \in Nat : n = Len(q)
            BY <1>5
          <6>2. i \in 1..n + 1 /\ i # n + 1
            BY <4>1, <4>3, <6>1
          <6>3. i \in 1..n
            BY <6>2
          <6> QED BY <6>1, <6>3
        <5>2. pool'[g][r][i] = pool[g][r][i] /\ i \in 1..Len(pool[g][r])
          BY <1>6, <1>7, <2>2, <5>1 DEF q
        <5> QED BY <1>9, <5>2
      <4> QED BY <4>2, <4>3
    <3> QED BY <3>1, <3>2
  <2> QED BY <2>1, <2>2
<1> QED BY <1>10 DEF AgesOK

\* An entry grows older when its connection has been quiet for longer.
LEMMA TickAges ==
    ASSUME IInv, AgesOK, IInv', Tick
    PROVE  AgesOK'
<1>1. ASSUME NEW h \in Hosts, NEW s \in Schemes
      PROVE  /\ pool[h][s] \in Seq(Entries) /\ Len(pool'[h][s]) = Len(pool[h][s])
             /\ \A i \in 1..Len(pool[h][s]) :
                   /\ pool'[h][s][i].conn = pool[h][s][i].conn
                   /\ pool'[h][s][i].age = Older(pool[h][s][i].age, Stale)
  <2>1. pool[h][s] \in Seq(Entries) /\ pool'[h][s] \in Seq(Entries)
    BY DEF IInv, PoolTypeOK
  <2>2. pool'[h][s] = [j \in DOMAIN pool[h][s] |->
                          [pool[h][s][j] EXCEPT !.age = Older(pool[h][s][j].age, Stale)]]
    BY DEF Tick
  <2>3. DOMAIN pool'[h][s] = DOMAIN pool[h][s]
    BY <2>2
  <2>4. Len(pool'[h][s]) = Len(pool[h][s])
    BY <2>1, <2>3, EntriesOf
  <2>5. ASSUME NEW i \in 1..Len(pool[h][s])
        PROVE  /\ pool'[h][s][i].conn = pool[h][s][i].conn
               /\ pool'[h][s][i].age = Older(pool[h][s][i].age, Stale)
    <3>1. PICK e \in Entries : e = pool[h][s][i]
      BY <2>1, EntriesOf
    <3>2. i \in DOMAIN pool[h][s]
      BY <2>1, EntriesOf
    <3>3. pool'[h][s][i] = [e EXCEPT !.age = Older(e.age, Stale)]
      BY <2>2, <3>1, <3>2
    <3> QED BY <3>1, <3>3 DEF Entries
  <2> QED BY <2>1, <2>4, <2>5
<1>2. \A a, b \in Nat : a <= b => Older(a, Stale) <= Older(b, Stale)
  BY DEF Older, Stale
<1>3. \A a \in Nat : Older(a, Stale) \in Nat /\ a <= Older(a, Stale)
  BY DEF Older, Stale
<1>4. ASSUME NEW h \in Hosts, NEW s \in Schemes
      PROVE  Sorted(pool[h][s])'
  <2>1. ASSUME NEW i \in 1..Len(pool[h][s]), NEW j \in 1..Len(pool[h][s]), i <= j
        PROVE  pool'[h][s][j].age <= pool'[h][s][i].age
    <3>1. pool[h][s][j].age \in Nat /\ pool[h][s][i].age \in Nat
      BY <1>1, EntriesOf
    <3>2. pool[h][s][j].age <= pool[h][s][i].age
      BY <2>1 DEF AgesOK, Sorted
    <3> QED BY <1>1, <1>2, <3>1, <3>2
  <2> QED BY <1>1, <2>1 DEF Sorted
<1>5. ASSUME NEW h \in Hosts, NEW s \in Schemes, NEW i \in 1..Len(pool[h][s])
      PROVE  Covered(pool[h][s][i])'
  <2>1. PICK c \in Conns : c = pool[h][s][i].conn
    BY <1>1, EntriesOf
  <2>2. PICK a \in Nat : a = pool[h][s][i].age
    BY <1>1, EntriesOf
  <2>3. InPool(c) /\ conn[c] \in ConnRecords
    <3>1. i \in DOMAIN pool[h][s]
      BY <1>1, EntriesOf
    <3>2. Right(c, h)
      BY <2>1, <3>1 DEF IInv, PoolRight
    <3>3. conn[c].host \in Hosts
      BY <3>2 DEF Right
    <3> QED BY <2>1, <3>1, <3>3, OpenRecord DEF InPool, IInv
  <2>4. /\ conn[c].quiet <= a /\ conn[c].quiet \in Nat
        /\ conn[c].reader # None => conn[c].quiet = 0
    <3>1. Covered(pool[h][s][i])
      BY DEF AgesOK
    <3>2. conn[c].quiet \in Nat
      BY <2>3 DEF ConnRecords, Ages, Stale
    <3> QED BY <2>1, <2>2, <3>1, <3>2, Zenon DEF Covered
  <2>5. /\ conn'[c].quiet <= Older(a, Stale)
        /\ conn'[c].reader # None => conn'[c].quiet = 0
    <3>1. CASE conn[c].reader = None
      <4>1. conn'[c] = [conn[c] EXCEPT !.quiet = Older(conn[c].quiet, Stale)]
        BY <2>3, <3>1 DEF Tick
      <4>2. conn'[c].quiet = Older(conn[c].quiet, Stale) /\ conn'[c].reader = None
        BY <2>3, <3>1, <4>1 DEF ConnRecords
      <4> QED BY <1>2, <2>4, <4>2
    <3>2. CASE conn[c].reader # None
      <4>1. conn'[c] = conn[c]
        BY <3>2 DEF Tick
      <4>2. conn[c].quiet = 0
        BY <2>4, <3>2
      <4> QED BY <1>3, <4>1, <4>2
    <3> QED BY <3>1, <3>2
  <2>6. pool'[h][s][i].conn = c /\ pool'[h][s][i].age = Older(a, Stale)
    BY <1>1, <2>1, <2>2
  <2> QED BY <2>5, <2>6 DEF Covered
<1>6. \A h \in Hosts, s \in Schemes : 1..Len(pool'[h][s]) = 1..Len(pool[h][s])
  BY <1>1
<1> QED BY <1>4, <1>5, <1>6 DEF AgesOK

LEMMA StepAges == IInv /\ AgesOK /\ IInv' /\ [PoolNext]_poolVars => AgesOK'
<1> SUFFICES ASSUME IInv, AgesOK, IInv', [PoolNext]_poolVars PROVE AgesOK'
  OBVIOUS
<1>1. CASE Tick
  BY <1>1, TickAges
<1>2. ASSUME NEW t \in Threads, ThreadStep(t) PROVE AgesOK'
  BY <1>2, StartAges, CleanAges, GetAges, AnsweredAges, StayAges DEF ThreadStep
<1>3. CASE UNCHANGED poolVars
  BY <1>3 DEF poolVars, AgesOK, Sorted, Covered
<1> QED BY <1>1, <1>2, <1>3 DEF PoolNext

LEMMA InitAges == PoolInit => AgesOK
<1>1. Len(<<>>) = 0
  OBVIOUS
<1> QED BY <1>1 DEF PoolInit, AgesOK, Sorted

\* get_http_connection returns from the pool nothing that was last used longer
\* ago than the stale duration, whatever that and the cleaning interval are.
THEOREM NothingStale == PoolSpec => NotTimedOut
<1>1. IInv /\ AgesOK /\ [PoolNext]_poolVars =>
         [\A t \in Threads :
            LET c == thread'[t].conn IN
            /\ thread[t].pc = "get" /\ thread'[t].pc = "send" /\ InPool(c)
            => conn[c].quiet <= StaleDuration]_poolVars
  <2> SUFFICES ASSUME IInv, AgesOK, PoolNext, NEW t \in Threads, NEW c,
                      c = thread'[t].conn, thread[t].pc = "get",
                      thread'[t].pc = "send", InPool(c)
               PROVE  conn[c].quiet <= StaleDuration
    BY DEF poolVars
  <2>1. thread[t] # thread'[t]
    OBVIOUS
  <2>2. Get(t)
    <3>1. \A u \in Threads : ThreadStep(u) => (u # t => thread'[t] = thread[t])
      BY OnlyThread
    <3>2. ThreadStep(t)
      BY <2>1, <3>1 DEF PoolNext, Tick
    <3> QED BY <3>2 DEF ThreadStep, Start, Clean, Answered, ServerError, Redirected,
                        Reconnect, Read
  <2>3. PICK h \in Hosts, s \in Schemes, q \in Seq(Entries) :
           /\ q = Cleaned(pool[h][s])
           /\ \/ \E i \in 1..Len(q) : GotOld(t, h, s, q, i)
              \/ \E d \in Conns : GotNew(t, h, s, q, d)
    BY <2>2, GetShape
  <2>4. PICK old \in Seq(Entries) : old = pool[h][s]
    BY DEF IInv, PoolTypeOK
  <2>5. Sorted(old) /\ \A k \in 1..Len(old) : Covered(old[k])
    BY <2>4 DEF AgesOK
  <2>6. PoolTypeOK
    BY DEF IInv
  <2>7. CASE \E d \in Conns : GotNew(t, h, s, q, d)
    <3>1. PICK d \in Conns : /\ New(t, d, s)
                             /\ thread' = [thread EXCEPT ![t].pc = "send", ![t].conn = d]
      BY <2>7 DEF GotNew
    <3>2. thread'[t].conn = d
      BY <2>6, <3>1, GotFacts
    <3>3. ~InPool(d)
      BY <3>1 DEF New
    <3> QED BY <3>2, <3>3
  <2>8. ASSUME NEW i \in 1..Len(q), GotOld(t, h, s, q, i)
        PROVE  conn[c].quiet <= StaleDuration
    <3>1. /\ \E k \in 1..Len(old) : q[i] = old[k]
          /\ q[i].age <= StaleDuration
      BY <2>3, <2>4, <2>5, CleanedAges
    <3>2. PICK k \in 1..Len(old) : q[i] = old[k]
      BY <3>1
    <3>3. PICK e \in Entries : e = q[i] /\ e.conn \in Conns /\ e.age \in Nat
      BY <3>2, EntriesOf
    <3>4. thread' = [thread EXCEPT ![t].pc = "send", ![t].conn = e.conn]
      BY <2>8, <3>3 DEF GotOld
    <3>5. c = e.conn
      BY <2>6, <3>3, <3>4, GotFacts
    <3>6. Covered(e)
      BY <2>5, <3>2, <3>3
    <3>7. conn[c] \in ConnRecords \cup {Closed}
      BY <2>6, <3>3, <3>5 DEF PoolTypeOK
    <3>8. conn[c].quiet \in Nat
      BY <3>7 DEF ConnRecords, Closed, Ages, Stale
    <3>9. conn[c].quiet <= e.age /\ e.age <= StaleDuration
      BY <3>1, <3>3, <3>5, <3>6 DEF Covered
    <3> QED BY <3>3, <3>8, <3>9
  <2> QED BY <2>3, <2>7, <2>8
<1>2. PoolInit => IInv /\ AgesOK
  BY InitHolds, InitAges
<1>3. IInv /\ AgesOK /\ [PoolNext]_poolVars => IInv' /\ AgesOK'
  BY StepHolds, StepAges
<1> QED BY <1>1, <1>2, <1>3, PTL DEF PoolSpec, NotTimedOut

-----------------------------------------------------------------------------
(* When connections are made.                                              *)

\* Only a thread that sends has a connection.
Free == \A t \in Threads : thread[t].pc # "send" => thread[t].conn = None

LEMMA StepFree == IInv /\ Free /\ [PoolNext]_poolVars => Free'
<1> SUFFICES ASSUME IInv, Free, [PoolNext]_poolVars PROVE Free'
  OBVIOUS
<1>0. thread \in [Threads -> ThreadRecords] /\ PoolTypeOK
  BY DEF IInv, PoolTypeOK, ThreadRecords
<1>1. CASE Tick \/ UNCHANGED poolVars
  BY <1>1 DEF Tick, poolVars, Free
<1>2. ASSUME NEW t \in Threads, ThreadStep(t) PROVE Free'
  <2>1. \A u \in Threads \ {t} : thread'[u] = thread[u]
    BY <1>2, OnlyThread
  <2> SUFFICES ASSUME thread'[t].pc # "send" PROVE thread'[t].conn = None
    BY <2>1 DEF Free
  <2>2. PICK r \in ThreadRecords : r = thread[t]
    BY <1>0
  <2>3. r.pc # "send" => r.conn = None
    BY <2>2 DEF Free
  <2>4. CASE Start(t)
    <3>1. PICK h \in Hosts : thread' = [thread EXCEPT ![t] =
                                [Idle EXCEPT !.pc = "clean", !.host = h]]
      BY <2>4 DEF Start
    <3> QED BY <1>0, <3>1 DEF Idle
  <2>5. CASE Clean(t)
    <3>1. r.pc = "clean" /\ thread' = [thread EXCEPT ![t] = [r EXCEPT !.pc = "get"]]
      BY <1>0, <2>2, <2>5 DEF Clean
    <3>2. [r EXCEPT !.pc = "get"].conn = r.conn
      BY <2>2 DEF ThreadRecords
    <3> QED BY <1>0, <2>3, <3>1, <3>2
  <2>6. CASE Get(t)
    <3>1. PICK c : thread' = [thread EXCEPT ![t].pc = "send", ![t].conn = c]
      BY <2>6, ZenonT(30) DEF Get
    <3>2. thread' = [thread EXCEPT ![t] = [r EXCEPT !.pc = "send", !.conn = c]]
      BY <1>0, <2>2, <3>1
    <3>3. [r EXCEPT !.pc = "send", !.conn = c].pc = "send"
      BY <2>2 DEF ThreadRecords
    <3> QED BY <1>0, <3>2, <3>3
  <2>7. CASE Answered(t)
    BY <1>0, <2>7 DEF Answered, Idle
  <2>8. CASE ServerError(t)
    <3>1. thread[t].conn \in Conns
      BY <2>8 DEF ServerError, IInv, Knows, Sending
    <3> QED BY <1>0, <2>8, <3>1, RetryFacts DEF ServerError, Idle
  <2>9. CASE Redirected(t)
    <3>1. PICK h \in Hosts, s \in Schemes :
             thread' = [thread EXCEPT ![t].pc = "clean", ![t].conn = None,
                                      ![t].host = h, ![t].scheme = s]
      BY <2>9 DEF Redirected
    <3>2. PICK new : new = [r EXCEPT !.pc = "clean", !.conn = None, !.host = h,
                                     !.scheme = s]
      OBVIOUS
    <3>3. new.conn = None
      BY <3>2 DEF ThreadRecords
    <3>4. thread' = [thread EXCEPT ![t] = new]
      BY <1>0, <2>2, <3>1, <3>2
    <3> QED BY <1>0, <3>3, <3>4
  <2>10. CASE Reconnect(t)
    BY <1>0, <2>10, RetryFacts DEF Reconnect, Idle
  <2>11. CASE Read(t)
    BY <2>2, <2>3, <2>11 DEF Read
  <2> QED BY <1>2, <2>4, <2>5, <2>6, <2>7, <2>8, <2>9, <2>10, <2>11 DEF ThreadStep
<1> QED BY <1>1, <1>2 DEF PoolNext

\* A step that gives no connection another host.
LEMMA NoneMade ==
    ASSUME \A c \in Conns : conn'[c].host \in Hosts =>
              conn'[c].host = conn[c].host /\ conn'[c].crossed = conn[c].crossed
    PROVE  \A h \in Hosts : Counted(h)' \subseteq Counted(h)
BY DEF Counted

\* KeepUsed with the connections there are is one.
LEMMA KeepMakesNone ==
    ASSUME KeepUsed(conn)
    PROVE  \A h \in Hosts : Counted(h)' \subseteq Counted(h)
<1>1. \A c \in Conns : conn'[c] = conn[c] \/ conn'[c] = Closed
  BY DEF KeepUsed
<1>2. Closed.host \notin Hosts
  BY NoneAssumption DEF Closed
<1> QED BY <1>1, <1>2, NoneMade

\* What new_http_connection makes is the one it returns, and counts only if no
\* redirect was crossed.
LEMMA OneMade ==
    ASSUME PoolTypeOK, NEW t \in Threads, NEW c \in Conns, NEW s \in Schemes,
           thread[t].host \in Hosts, s = Own \/ thread[t].scheme = s,
           New(t, c, s), NEW h \in Hosts, NEW x \in Counted(h)' \ Counted(h)
    PROVE  /\ x = c /\ Used(c)' /\ h = thread[t].host /\ ~Crosses(t)
           /\ \A d \in Counted(h)' : Used(d)'
<1>1. /\ \A d \in Conns \ {c} : Used(d)' => conn'[d] = conn[d]
      /\ Used(c)' => /\ conn'[c].host = thread[t].host
                     /\ Crosses(t) => conn'[c].crossed = "yes"
  BY OpenedFacts
<1>2. \A d \in Conns : ~Used(d)' => conn'[d] = Closed
  BY DEF New, KeepUsed
<1>3. Closed.host \notin Hosts
  BY NoneAssumption DEF Closed
<1>4. ASSUME NEW d \in Counted(h)'
      PROVE  d \in Conns /\ Used(d)' /\ conn'[d].host = h /\ conn'[d].crossed = "no"
  BY <1>2, <1>3, <1>4 DEF Counted
<1>5. x = c
  BY <1>1, <1>4 DEF Counted
<1> QED BY <1>1, <1>4, <1>5

\* get makes one when it has found none ready.
LEMMA GetGrows ==
    ASSUME IInv, IInv', NEW t \in Threads, Get(t),
           NEW h \in Hosts, NEW c \in Counted(h)' \ Counted(h)
    PROVE  \A d \in Counted(h)' : Busy(d)'
<1>0. PICK g \in Hosts, s \in Schemes, q \in Seq(Entries) :
         /\ g = thread[t].host /\ s = thread[t].scheme
         /\ q = Cleaned(pool[g][s])
         /\ \/ \E i \in 1..Len(q) : GotOld(t, g, s, q, i)
            \/ \E b \in Conns : GotNew(t, g, s, q, b)
  BY GetShape
<1>1. /\ PoolTypeOK
      /\ pool \in [Hosts -> [Schemes -> Seq(Entries)]]
  BY DEF IInv, PoolTypeOK
<1>2. CASE \E i \in 1..Len(q) : GotOld(t, g, s, q, i)
  <2>1. KeepUsed(conn)
    BY <1>2 DEF GotOld
  <2> QED BY <2>1, KeepMakesNone
<1>3. ASSUME NEW b \in Conns, GotNew(t, g, s, q, b)
      PROVE  \A d \in Counted(h)' : Busy(d)'
  <2>1. /\ \A i \in 1..Len(q) : ~FirstReady(q, i)
        /\ pool' = [pool EXCEPT ![g][s] = Rotated(q, Len(q) + 1)]
        /\ New(t, b, s)
    BY <1>3, Zenon DEF GotNew
  <2>2. /\ c = b /\ h = g /\ ~Crosses(t) /\ \A d \in Counted(h)' : Used(d)'
    BY <1>0, <1>1, <2>1, OneMade
  <2>3. s = Own
    BY <1>0, <2>2 DEF Crosses
  <2>4. \A i \in 1..Len(q) : ~ConnReady(q[i])
    BY <2>1, NoneIsReady
  <2>5. PICK left \in Seq(Entries) :
           /\ left = Rotated(q, Len(q) + 1)
           /\ Drawn(left, q, 1..Len(q))
    <3>1. Len(q) \in Nat /\ Len(q) + 1 \in 1..Len(q) + 1
      BY LenProperties
    <3>2. PICK left \in Seq(Entries) :
             /\ left = Rotated(q, Len(q) + 1)
             /\ Drawn(left, q, (1..Len(q)) \ {Len(q) + 1})
      BY <3>1, RotatedFacts
    <3>3. (1..Len(q)) \ {Len(q) + 1} = 1..Len(q)
      BY <3>1
    <3> QED BY <3>2, <3>3
  <2>6. pool'[g][s] = left
    BY <1>1, <2>1, <2>5, QueueSet
  <2>7. \A d \in Conns \ {b} : Used(d)' => conn'[d] = conn[d]
    BY <1>0, <1>1, <2>1, OpenedFacts
  <2>8. ASSUME NEW d \in Counted(h)', InPool(d)'
        PROVE  conn'[d].reader # None
    <3>1. PICK k \in Hosts, r \in Schemes : \E j \in DOMAIN pool'[k][r] :
             pool'[k][r][j].conn = d
      BY <2>8 DEF InPool
    <3>2. PICK j \in DOMAIN pool'[k][r] : pool'[k][r][j].conn = d
      BY <3>1
    <3>3. r = Own /\ conn'[d].host = k
      BY <3>2 DEF IInv, PoolRight, Right
    <3>4. k = g /\ r = s
      BY <2>2, <2>3, <3>3 DEF Counted
    <3>5. j \in 1..Len(left) /\ left[j].conn = d
      BY <2>5, <2>6, <3>2, <3>4, EntriesOf
    <3>6. PICK i \in 1..Len(q) : q[i].conn = d
      BY <2>5, <3>5 DEF Drawn
    <3>7. conn[d].reader # None
      BY <2>4, <3>6 DEF ConnReady
    <3>8. InPool(d)
      <4>1. Drawn(q, pool[g][s], 1..Len(pool[g][s]))
        BY <1>0, <1>1, CleanedFacts
      <4>2. PICK l \in 1..Len(pool[g][s]) : pool[g][s][l].conn = d
        BY <3>6, <4>1 DEF Drawn
      <4>3. l \in DOMAIN pool[g][s]
        BY <1>1, EntriesOf
      <4> QED BY <4>2, <4>3 DEF InPool
    <3>9. d # b /\ d \in Conns
      BY <2>1, <3>8 DEF New, Counted
    <3> QED BY <2>2, <2>7, <3>7, <3>9
  <2> QED BY <2>2, <2>8 DEF Busy, Used
<1> QED BY <1>0, <1>2, <1>3

\* _mexe makes one in the place of its own.
LEMMA ReconnectGrows ==
    ASSUME IInv, Free, NEW t \in Threads, Reconnect(t),
           NEW h \in Hosts, NEW c \in Counted(h)' \ Counted(h)
    PROVE  thread[t].conn \in Counted(h) \ Counted(h)' /\ thread'[t].conn = c
<1>1. /\ PoolTypeOK /\ pool' = pool /\ thread[t].pc = "send" /\ Sending(t)
  BY DEF IInv, Knows, Reconnect
<1>2. PICK b \in Conns : RetryOrRaise(t, b) /\ New(t, b, Own)
  BY DEF Reconnect
<1>3. PICK y \in Conns : y = thread[t].conn
  BY <1>1 DEF Sending
<1>4. /\ c = b /\ Used(b)' /\ h = thread[t].host /\ ~Crosses(t)
      /\ \A d \in Counted(h)' : Used(d)'
  BY <1>1, <1>2, OneMade DEF Sending
<1>5. /\ ~InPool(b) /\ \A u \in Threads : thread[u].conn # b
  BY <1>2 DEF New
<1>6. /\ \A u \in Threads \ {t} : thread'[u] = thread[u]
      /\ thread'[t].conn = b \/ thread'[t] = Idle
  BY <1>1, <1>2, RetryFacts
<1>7. y \in Counted(h)
  <2>1. conn[y].host = h
    BY <1>1, <1>3, <1>4 DEF Sending, Right
  <2>2. conn[y] \in ConnRecords
    BY <1>1, <2>1, OpenRecord
  <2>3. conn[y].crossed # "yes"
    BY <1>3, <1>4, NoneAssumption DEF Crosses
  <2> QED BY <2>1, <2>2, <2>3 DEF Counted, ConnRecords
<1>8. thread'[t].conn = b
  <2>1. ~InPool(b)'
    BY <1>1, <1>5 DEF InPool
  <2>2. \E u \in Threads : thread'[u].conn = b
    BY <1>4, <2>1 DEF Used
  <2> QED BY <1>5, <1>6, <2>2
<1>9. ~Used(y)'
  <2>1. ~InPool(y)'
    BY <1>1, <1>3 DEF InPool, Sending
  <2>2. ASSUME NEW u \in Threads \ {t} PROVE thread'[u].conn # y
    <3>1. CASE thread[u].pc = "send"
      BY <1>1, <1>3, <1>6, <3>1 DEF IInv, Alone
    <3>2. CASE thread[u].pc # "send"
      BY <1>3, <1>6, <3>2, NoneAssumption DEF Free
    <3> QED BY <3>1, <3>2
  <2>3. thread'[t].conn # y
    BY <1>3, <1>5, <1>8
  <2> QED BY <2>1, <2>2, <2>3 DEF Used
<1> QED BY <1>3, <1>4, <1>7, <1>8, <1>9

LEMMA StepGrows ==
    ASSUME IInv, IInv', Free, [PoolNext]_poolVars,
           NEW h \in Hosts, NEW c \in Counted(h)' \ Counted(h)
    PROVE  \/ \A d \in Counted(h)' : Busy(d)'
           \/ \E t \in Threads : /\ thread[t].conn \in Counted(h) \ Counted(h)'
                                 /\ thread'[t].conn = c
<1>0. PoolTypeOK /\ conn \in [Conns -> ConnRecords \cup {Closed}]
  BY DEF IInv, PoolTypeOK
<1>1. CASE UNCHANGED poolVars
  BY <1>1, NoneMade DEF poolVars
<1>2. CASE Tick
  <2>1. ASSUME NEW d \in Conns
        PROVE  conn'[d].host = conn[d].host /\ conn'[d].crossed = conn[d].crossed
    <3>1. PICK r \in ConnRecords \cup {Closed} : r = conn[d]
      BY <1>0
    <3>2. \/ conn'[d] = r
          \/ conn'[d] = [r EXCEPT !.quiet = Older(r.quiet, Stale)]
      BY <1>2, <3>1 DEF Tick
    <3> QED BY <3>1, <3>2 DEF ConnRecords, Closed
  <2> QED BY <2>1, NoneMade
<1>3. ASSUME NEW t \in Threads, ThreadStep(t)
      PROVE  \/ \A d \in Counted(h)' : Busy(d)'
             \/ \E u \in Threads : /\ thread[u].conn \in Counted(h) \ Counted(h)'
                                   /\ thread'[u].conn = c
  <2>1. CASE Start(t)
    BY <2>1, NoneMade DEF Start
  <2>2. CASE Clean(t) \/ ServerError(t) \/ Redirected(t)
    BY <2>2, KeepMakesNone DEF Clean, ServerError, Redirected
  <2>3. CASE Get(t)
    BY <2>3, GetGrows
  <2>4. CASE Answered(t)
    <3>1. PICK reader \in {t, None} : conn' =
             [conn EXCEPT ![thread[t].conn].reader = reader,
                          ![thread[t].conn].quiet = 0]
      BY <2>4 DEF Answered
    <3>2. PICK x \in Conns : x = thread[t].conn
      BY <2>4 DEF Answered, IInv, Knows, Sending
    <3>3. PICK r \in ConnRecords : r = conn[x]
      BY <1>0, <2>4, <3>2, OpenRecord DEF Answered, IInv, Knows, Sending, Right
    <3>4. PICK new : new = [r EXCEPT !.reader = reader, !.quiet = 0]
      OBVIOUS
    <3>5. new.host = r.host /\ new.crossed = r.crossed
      BY <3>4 DEF ConnRecords
    <3>6. conn' = [conn EXCEPT ![x] = new]
      BY <1>0, <3>1, <3>2, <3>3, <3>4
    <3> QED BY <1>0, <3>3, <3>5, <3>6, NoneMade
  <2>5. CASE Reconnect(t)
    BY <2>5, ReconnectGrows
  <2>6. CASE Read(t)
    BY <1>0, <2>6, ReadFacts, NoneMade
  <2> QED BY <1>3, <2>1, <2>2, <2>3, <2>4, <2>5, <2>6 DEF ThreadStep
<1> QED BY <1>1, <1>2, <1>3 DEF PoolNext

\* A connection is made for a host only when those there are, and were not made
\* across a redirect, are in use or have an open response, or in the place of one
\* that failed: for any number of threads, responses left open, and retries.
THEOREM GrowsWhenBusy == PoolSpec => PoolGrowsWhenBusy
<1> DEFINE Grows == \A h \in Hosts : \A c \in Counted(h)' \ Counted(h) :
         \/ \A d \in Counted(h)' : Busy(d)'
         \/ \E t \in Threads : /\ thread[t].conn \in Counted(h) \ Counted(h)'
                               /\ thread'[t].conn = c
<1>1. IInv /\ Free /\ IInv' /\ [PoolNext]_poolVars => [Grows]_poolVars
  BY StepGrows
<1>2. PoolInit => IInv /\ Free
  BY InitHolds DEF PoolInit, Free, Idle
<1>3. IInv /\ Free /\ [PoolNext]_poolVars => IInv' /\ Free'
  BY StepHolds, StepFree
<1> HIDE DEF Grows
<1>4. PoolSpec => [][Grows]_poolVars
  BY <1>1, <1>2, <1>3, PTL DEF PoolSpec
<1> QED BY <1>4 DEF PoolGrowsWhenBusy, Grows
=============================================================================
