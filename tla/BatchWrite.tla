----------------------------- MODULE BatchWrite -----------------------------
(***************************************************************************)
(* BatchTable of boto/dynamodb2/table.py, the context manager of           *)
(* Table.batch_write: it collects writes and sends them 25 at a time, and  *)
(* what is left when the with statement is left.                           *)
(*                                                                         *)
(* Writes are numbered in the order of the caller.                         *)
(***************************************************************************)
EXTENDS Integers, Sequences, SequencesExt

CONSTANTS MaxCalls,    \* bound: writes of the caller
          BatchSize    \* 25, and the most DynamoDB takes

ASSUME BatchAssumption == MaxCalls \in Nat /\ BatchSize \in Nat \ {0}

VARIABLES block,     \* where the with statement is
          pending,   \* _to_put and _to_delete
          called,    \* how many writes the caller has made
          written,   \* the writes DynamoDB has carried out
          mishaps    \* ghost: what has gone wrong with a request

batchVars == <<block, pending, called, written, mishaps>>

BatchInit == /\ block = "inside"
             /\ pending = <<>>
             /\ called = 0
             /\ written = {}
             /\ mishaps = {}

\* put_item and delete_item take a write, and flush a full batch.  Mutated: one
\* that is more than full.
FlushLate   == Len(pending) > BatchSize
ShouldFlush == Len(pending) = BatchSize

CallWrite ==
    /\ block = "inside" /\ called < MaxCalls
    /\ called' = called + 1
    /\ pending' = Append(pending, called + 1)
    /\ block' = "called"
    /\ UNCHANGED <<written, mishaps>>

NoFlush == /\ block = "called" /\ ~ShouldFlush
           /\ block' = "inside"
           /\ UNCHANGED <<pending, called, written, mishaps>>

\* flush: DynamoDB may leave some writes of a request for later; what it answers
\* is not looked at.
NonePending == <<>>

Flushed(next) ==
    /\ Len(pending) <= BatchSize
    /\ \E done \in SUBSET ToSet(pending) :
          /\ written' = written \cup done
          /\ mishaps' = IF done = ToSet(pending) THEN mishaps
                        ELSE mishaps \cup {"unprocessed"}
    /\ pending' = NonePending
    /\ block' = next
    /\ UNCHANGED called

\* A request fails, before or after it was carried out; one that is too large is
\* refused.
FlushFails(next) ==
    /\ \/ UNCHANGED written
       \/ /\ Len(pending) <= BatchSize
          /\ written' = written \cup ToSet(pending)
    /\ mishaps' = mishaps \cup {IF Len(pending) > BatchSize THEN "refused"
                                                            ELSE "failed"}
    /\ block' = next
    /\ UNCHANGED <<pending, called>>

\* The exception of a flush in put_item or delete_item leaves the block, unless
\* the caller catches it and goes on.
FlushInside == /\ block = "called" /\ ShouldFlush
               /\ Flushed("inside") \/ FlushFails("exit") \/ FlushFails("inside")

\* The end of the block, or another exception in it.
LeaveBlock == /\ block = "inside"
              /\ block' = "exit"
              /\ UNCHANGED <<pending, called, written, mishaps>>

\* __exit__ flushes what is left, whatever left the block.  Mutated: it does not.
ExitOnly == /\ block = "exit"
            /\ block' = "left"
            /\ UNCHANGED <<pending, called, written, mishaps>>
ExitBlock ==
    /\ block = "exit"
    /\ IF pending = <<>>
       THEN block' = "left" /\ UNCHANGED <<pending, called, written, mishaps>>
       ELSE Flushed("left") \/ FlushFails("left")

BatchNext == CallWrite \/ NoFlush \/ FlushInside \/ LeaveBlock \/ ExitBlock

BatchSpec == BatchInit /\ [][BatchNext]_batchVars

-----------------------------------------------------------------------------
(* Properties.                                                             *)

BatchTypeOK ==
    /\ block \in {"inside", "called", "exit", "left"}
    /\ pending \in Seq(1..MaxCalls) /\ called \in 0..MaxCalls
    /\ written \subseteq 1..called
    /\ block = "inside" /\ mishaps = {} => Len(pending) < BatchSize
    /\ mishaps \subseteq {"unprocessed", "failed", "refused"}

\* A block that was left, by an exception too, has written all that was put into
\* it, however many batches that took, and what waits has not been written; but
\* for requests that failed and writes that DynamoDB left for later.  No request
\* is refused for its size unless another failed and the caller went on: the batch
\* is then past the size at which it is flushed.
BlockWritesAll ==
    /\ mishaps = {} =>
          /\ block = "left" => written = 1..called
          /\ \A i \in DOMAIN pending : pending[i] \notin written
    /\ "refused" \in mishaps => "failed" \in mishaps
=============================================================================
