--------------------------- MODULE ConnectionPool ---------------------------
(***************************************************************************)
(* The connections of one AWSAuthConnection of boto/connection.py: its     *)
(* threads take them from a ConnectionPool, send requests on them in _mexe *)
(* and put them back before the body of the answer has been read.  A       *)
(* thread may have any number of responses open, and never read them.      *)
(*                                                                         *)
(* An action that touches the pool is what runs while its mutex is held.   *)
(* Time passes in ticks; an entry of the pool keeps its age in place of    *)
(* the time it was put, which stops at the first age that is stale.        *)
(***************************************************************************)
EXTENDS Integers, Sequences, FiniteSetsExt

CONSTANTS Threads,
          Hosts,
          Schemes,        \* "http" and "https", or one of them
          Own,            \* the scheme of the connection: is_secure
          Conns,          \* bound on the connections that exist at a time
          StaleDuration,
          CleanInterval,
          NumRetries,
          None            \* nobody, nothing

ASSUME SchemeAssumption == Own \in Schemes
ASSUME TimesAssumption == StaleDuration \in Nat /\ CleanInterval \in Nat
ASSUME RetriesAssumption == NumRetries \in Nat
ASSUME NoneAssumption == None \notin Threads \cup Hosts \cup Conns

VARIABLES pool,       \* pool[h][s]: the queue of the HostConnectionPool
          lastClean,  \* time since ConnectionPool.clean did its work
          conn,       \* conn[c]: what connection c is connected to
          thread      \* thread[t]: where _mexe is in thread t

poolVars == <<pool, lastClean, conn, thread>>

Stale == StaleDuration + 1
Ages  == 0..Stale

\* Time goes on to a bound, past which nothing depends on it.
Older(age, bound) == IF age < bound THEN age + 1 ELSE age

\* `reader' is the thread that has the response attached to the connection, or
\* None when it is closed; `quiet' is how long the pool has had it since then.
\* `crossed' tells connections opened while a redirect to another scheme was
\* followed, and those that replaced one.
ConnRecords == [host : Hosts, scheme : Schemes, crossed : {"no", "yes"},
                reader : Threads \cup {None}, quiet : Ages]
Closed == [host |-> None, scheme |-> Own, crossed |-> "no", reader |-> None,
           quiet |-> 0]

Entries == [conn : Conns, age : Ages]
Entry(c, age) == [conn |-> c, age |-> age]

Idle == [pc |-> "idle", host |-> None, scheme |-> Own, conn |-> None,
         tries |-> 0]

PoolInit == /\ pool = [h \in Hosts |-> [s \in Schemes |-> <<>>]]
            /\ lastClean = CleanInterval + 1
            /\ conn = [c \in Conns |-> Closed]
            /\ thread = [t \in Threads |-> Idle]

-----------------------------------------------------------------------------
(* HostConnectionPool: operators on its queue.                             *)

PairStale(entry) == entry.age > StaleDuration
ConnReady(entry) == conn[entry.conn].reader = None

\* clean discards stale entries from the front of the queue.  Mutated: none.
CleanedNever(q) == q
FirstFresh(q) == Min({j \in DOMAIN q : ~PairStale(q[j])} \cup {Len(q) + 1})
Cleaned(q) == [j \in 1..Len(q) + 1 - FirstFresh(q) |->
                 q[j + FirstFresh(q) - 1]]

\* get takes out the i-th entry, the first that is ready; those before it go to
\* the end of the queue with the time of now.  With i past the end, all do.
\* Mutated: none is taken out.
Unrotated(q, i) == q
Rotated(q, i) ==
    LET n == Len(q) IN
    [j \in 1..(IF i > n THEN n ELSE n - 1) |->
       IF i > n THEN Entry(q[j].conn, 0)
       ELSE IF j <= n - i THEN q[i + j] ELSE Entry(q[i + j - n].conn, 0)]

\* put
Added(q, c) == [j \in 1..Len(q) + 1 |->
                  IF j <= Len(q) THEN q[j] ELSE Entry(c, 0)]

-----------------------------------------------------------------------------
\* What refers to a connection: an entry of the pool, or a thread.
InPool(c) == \E h \in Hosts, s \in Schemes :
                \E j \in DOMAIN pool[h][s] : pool[h][s][j].conn = c
Used(c)   == InPool(c) \/ \E t \in Threads : thread[t].conn = c

\* The connections are those of `new'; Python closes one when nothing refers to
\* it any more.
KeepUsed(new) == conn' = [c \in Conns |-> IF Used(c)' THEN new[c] ELSE Closed]

-----------------------------------------------------------------------------
(* Getting a connection.                                                   *)

\* _mexe starts with a request to a host, under the scheme of the connection.
Start(t) ==
    /\ thread[t].pc = "idle"
    /\ \E h \in Hosts : thread' = [thread EXCEPT ![t] =
                           [Idle EXCEPT !.pc = "clean", !.host = h]]
    /\ UNCHANGED <<pool, lastClean, conn>>

\* ConnectionPool.clean, at most once per interval.
Clean(t) ==
    /\ thread[t].pc = "clean"
    /\ thread' = [thread EXCEPT ![t].pc = "get"]
    /\ IF lastClean > CleanInterval
       THEN /\ pool' = [h \in Hosts |->
                          [s \in Schemes |-> Cleaned(pool[h][s])]]
            /\ lastClean' = 0
       ELSE UNCHANGED <<pool, lastClean>>
    /\ KeepUsed(conn)

\* new_http_connection, for thread t: a connection nothing refers to.
Crosses(t) == \/ thread[t].scheme # Own
              \/ thread[t].conn # None /\ conn[thread[t].conn].crossed = "yes"
New(t, c, s) ==
    /\ ~InPool(c) /\ \A u \in Threads : thread[u].conn # c
    /\ KeepUsed([conn EXCEPT ![c] =
                    [host |-> thread[t].host, scheme |-> s,
                     crossed |-> IF Crosses(t) THEN "yes" ELSE "no",
                     reader |-> None, quiet |-> 0]])

\* Whether the i-th entry of q is the one get returns.  Mutated: none
\* ever is.
NoneReady(q, i)  == FALSE
FirstReady(q, i) == ConnReady(q[i]) /\ \A j \in 1..i - 1 : ~ConnReady(q[j])

\* get_http_connection: from the pool, or a new one.
Get(t) ==
    LET h == thread[t].host
        s == thread[t].scheme
        q == Cleaned(pool[h][s])
    IN
    /\ thread[t].pc = "get"
    /\ \/ \E i \in 1..Len(q) :
             /\ FirstReady(q, i)
             /\ pool' = [pool EXCEPT ![h][s] = Rotated(q, i)]
             /\ thread' = [thread EXCEPT ![t].pc = "send",
                                         ![t].conn = q[i].conn]
             /\ KeepUsed(conn)
       \/ /\ \A i \in 1..Len(q) : ~FirstReady(q, i)
          /\ pool' = [pool EXCEPT ![h][s] = Rotated(q, Len(q) + 1)]
          /\ \E c \in Conns :
                /\ thread' = [thread EXCEPT ![t].pc = "send", ![t].conn = c]
                /\ New(t, c, s)
    /\ UNCHANGED lastClean

-----------------------------------------------------------------------------
(* Using it: the loop of _mexe.                                            *)

\* An answer for the caller: the connection goes back into the pool, under the
\* scheme of the connection, and t has the response, unless it has no body.
Answered(t) ==
    LET h == thread[t].host
        c == thread[t].conn
    IN
    /\ thread[t].pc = "send"
    /\ \E reader \in {t, None} :
          conn' = [conn EXCEPT ![c].reader = reader, ![c].quiet = 0]
    /\ pool' = [pool EXCEPT ![h][Own] = Added(@, c)]
    /\ thread' = [thread EXCEPT ![t] = Idle]
    /\ UNCHANGED lastClean

\* The next attempt, or the end of them.  Mutated: one more.
OneMoreTry(t, next) ==
    thread' = [thread EXCEPT ![t] =
                 IF @.tries <= NumRetries
                 THEN [@ EXCEPT !.tries = thread[t].tries + 1, !.conn = next]
                 ELSE Idle]
RetryOrRaise(t, next) ==
    thread' = [thread EXCEPT ![t] =
                 IF @.tries < NumRetries
                 THEN [@ EXCEPT !.tries = thread[t].tries + 1, !.conn = next]
                 ELSE Idle]

\* A 500 or 503: its body is read, and the connection is used again.
ServerError(t) == /\ thread[t].pc = "send"
                  /\ RetryOrRaise(t, thread[t].conn)
                  /\ UNCHANGED <<pool, lastClean>>
                  /\ KeepUsed(conn)

\* A redirect: the connection is dropped and another one is got, for the host
\* and the scheme of the new location.  It is no attempt.  Mutated: it is kept.
RedirectedOn(t) ==
    /\ thread[t].pc = "send"
    /\ \E h \in Hosts, s \in Schemes :
          thread' = [thread EXCEPT ![t].host = h, ![t].scheme = s]
    /\ UNCHANGED <<pool, lastClean, conn>>
Redirected(t) ==
    /\ thread[t].pc = "send"
    /\ \E h \in Hosts, s \in Schemes :
          thread' = [thread EXCEPT ![t].pc = "clean", ![t].conn = None,
                                   ![t].host = h, ![t].scheme = s]
    /\ UNCHANGED <<pool, lastClean>>
    /\ KeepUsed(conn)

\* An exception: a new connection replaces the one in use.
Reconnect(t) ==
    /\ thread[t].pc = "send"
    /\ UNCHANGED <<pool, lastClean>>
    /\ \E c \in Conns : RetryOrRaise(t, c) /\ New(t, c, Own)

\* A response has been read to its end, or closed; t may be in the middle of
\* another call, or have other responses.
Read(t) ==
    /\ \E c \in Conns : /\ conn[c].reader = t
                        /\ conn' = [conn EXCEPT ![c].reader = None]
    /\ UNCHANGED <<pool, lastClean, thread>>

Tick == /\ pool' = [h \in Hosts |-> [s \in Schemes |->
                      [j \in DOMAIN pool[h][s] |->
                         [pool[h][s][j] EXCEPT !.age = Older(@, Stale)]]]]
        /\ lastClean' = Older(lastClean, CleanInterval + 1)
        /\ conn' = [c \in Conns |->
                      IF InPool(c) /\ conn[c].reader = None
                      THEN [conn[c] EXCEPT !.quiet = Older(@, Stale)]
                      ELSE conn[c]]
        /\ UNCHANGED thread

ThreadStep(t) == \/ Start(t) \/ Clean(t) \/ Get(t) \/ Answered(t)
                 \/ ServerError(t) \/ Redirected(t) \/ Reconnect(t)
                 \/ Read(t)

PoolNext == Tick \/ \E t \in Threads : ThreadStep(t)

PoolSpec == PoolInit /\ [][PoolNext]_poolVars

-----------------------------------------------------------------------------
(* Properties.                                                             *)

ThreadPCs == {"idle", "clean", "get", "send"}

PoolTypeOK ==
    /\ pool \in [Hosts -> [Schemes -> Seq(Entries)]]
    /\ lastClean \in 0..CleanInterval + 1
    /\ conn \in [Conns -> ConnRecords \cup {Closed}]
    /\ thread \in [Threads -> [pc : ThreadPCs, host : Hosts \cup {None},
                               scheme : Schemes, conn : Conns \cup {None},
                               tries : 0..NumRetries]]

\* A connection on which a request is under way is used by no other thread and
\* is not in the pool, nor does the pool hold a connection twice; and its last
\* response is closed, or httplib would refuse the answer (ResponseNotReady).  So
\* answers reach the thread that asked, with threads, retries, redirects and the
\* clean-up of the pool in any order.
ExclusiveUse ==
    /\ \A t \in Threads : thread[t].pc = "send" =>
          /\ ~InPool(thread[t].conn)
          /\ conn[thread[t].conn].reader = None
          /\ \A u \in Threads \ {t} :
                thread[u].pc = "send" => thread[u].conn # thread[t].conn
    /\ \A g, h \in Hosts, r, s \in Schemes :
          \A i \in DOMAIN pool[g][r], j \in DOMAIN pool[h][s] :
             pool[g][r][i].conn = pool[h][s][j].conn
             => g = h /\ r = s /\ i = j

\* A request goes to its own host, and whatever the pool holds for a host is
\* connected to it; under the other scheme the pool holds nothing, and a
\* connection of the wrong scheme comes from a redirect.
RightHost ==
    /\ \A t \in Threads : thread[t].pc = "send" =>
          conn[thread[t].conn].host = thread[t].host
    /\ \A h \in Hosts, s \in Schemes : \A i \in DOMAIN pool[h][s] :
          LET c == conn[pool[h][s][i].conn] IN
          c.host = h /\ s = Own /\ (c.scheme # Own => c.crossed = "yes")

\* A connection taken from the pool was in use no longer ago than the stale
\* duration, although only the front of the queue is looked at for stale
\* entries and the times of entries are set anew while they are not ready.
NotTimedOut ==
    [][\A t \in Threads :
         LET c == thread'[t].conn IN
         /\ thread[t].pc = "get" /\ thread'[t].pc = "send" /\ InPool(c)
         => conn[c].quiet <= StaleDuration]_poolVars

\* The connections to a host, but for those made while following a redirect to
\* another scheme, and those that replaced one of them: for these get does not
\* look in the pool where they are put.
Counted(h) == {c \in Conns : conn[c].host = h /\ conn[c].crossed = "no"}

\* A request is under way on it, or its last response is still open.
Busy(c) == \/ conn[c].reader # None
           \/ \E t \in Threads : thread[t].conn = c

\* A connection to a host is made only when all there are are busy, or to replace
\* the one that failed in the same thread.  So there are never more than were in
\* use at one time, however retries, redirects, readers and the clean-up of the
\* pool follow each other; but a thread that does not read its responses has as
\* many.
PoolGrowsWhenBusy ==
    [][\A h \in Hosts : \A c \in Counted(h)' \ Counted(h) :
         \/ \A d \in Counted(h)' : Busy(d)'
         \/ \E t \in Threads : /\ thread[t].conn \in Counted(h) \ Counted(h)'
                               /\ thread'[t].conn = c]_poolVars
=============================================================================
