------------------------ MODULE ConcurrentTransfer ------------------------
(***************************************************************************)
(* ConcurrentUploader and ConcurrentDownloader of                          *)
(* boto/glacier/concurrent.py: the caller puts the parts of an archive and *)
(* one sentinel for each thread into a worker queue, starts the threads,   *)
(* and collects as many results as there are parts.                        *)
(*                                                                         *)
(* Sizes are scaled: Megabyte is a unit, a part size is a multiple.        *)
(***************************************************************************)
EXTENDS Integers, Sequences, FiniteSets, SequencesExt, FiniteSetsExt

CONSTANTS Workers,
          ArchiveSizes,   \* sizes of the file, or of the archive
          DefaultSize,    \* DEFAULT_PART_SIZE, the part size asked for
          Megabyte,
          MaximumParts,   \* MAXIMUM_NUMBER_OF_PARTS
          WRetries        \* attempts of a thread at a part, after the first

ASSUME WorkersAssumption == IsFiniteSet(Workers)
ASSUME SizesAssumption == /\ ArchiveSizes \subseteq Nat
                          /\ {DefaultSize, Megabyte, MaximumParts, WRetries}
                                \subseteq Nat \ {0}
\* Above that minimum_part_size raises a ValueError, before anything has begun.
ASSUME LargestAssumption ==
    \A length \in ArchiveSizes : length <= 4096 * Megabyte * MaximumParts

VARIABLES way,      \* "up" or "down"
          total,    \* total_parts
          caller,   \* where upload or download is, and how many results it has
          hashed,   \* hash_chunks: the parts whose result was collected
          work,     \* worker_queue
          results,  \* result_queue
          worker,   \* worker[w]: where run is, and its part
          go,       \* should_continue, of all threads
          remote    \* the upload at Glacier and its parts; for a download, the
                    \* parts written to the file

transferVars == <<way, total, caller, hashed, work, results, worker, go, remote>>

Ceiling(a, b) == (a + b - 1) \div b

\* The sizes minimum_part_size tries: a megabyte, then eight of them, doubled.
PartSizes == {Megabyte * p : p \in {1, 8, 16, 32, 64, 128, 256, 512, 1024, 2048, 4096}}

\* minimum_part_size, with the division that rounds down; the part size is that
\* or the default, whichever is greater.
RoundedDown(a) == a \div MaximumParts
MinimumPartSize(length) ==
    IF DefaultSize * MaximumParts < length
    THEN Min({bytes \in PartSizes : bytes >= RoundedDown(length)})
    ELSE DefaultSize
TotalParts(length) ==
    LET part == IF DefaultSize >= MinimumPartSize(length) THEN DefaultSize
                                                          ELSE MinimumPartSize(length)
    IN Ceiling(length, part)

End == 0   \* _END_SENTINEL
Parts == 1..total
\* Whether a result is an exception.  Mutated: it is not looked at.
NoFailure(r) == FALSE
Failure(r)   == r = End

TransferInit ==
    /\ way \in {"up", "down"}
    /\ \E length \in ArchiveSizes : total = TotalParts(length)
    /\ caller = [pc |-> "initiate", got |-> 0, next |-> "none"]
    /\ hashed = {}
    /\ work = <<>>
    /\ results = <<>>
    /\ worker = [w \in Workers |-> [pc |-> "off", part |-> End, tries |-> 0]]
    /\ go = TRUE
    /\ remote = [state |-> "none", parts |-> {}]

CallerTo(pc) == caller' = [caller EXCEPT !.pc = pc]
Becomes(state) == remote' = [remote EXCEPT !.state = state]

-----------------------------------------------------------------------------
(* The caller.                                                             *)

\* initiate_multipart_upload, for an upload, and _add_work_items_to_queue.
\* Mutated: one sentinel for all threads.
OneSentinel == <<End>>
Sentinels   == [i \in 1..Cardinality(Workers) |-> End]
Initiate ==
    /\ caller.pc = "initiate"
    /\ \/ /\ CallerTo("spawn")
          /\ work' = [i \in Parts |-> i] \o Sentinels
          /\ Becomes("open")
       \/ /\ way = "up"
          /\ CallerTo("raised")
          /\ UNCHANGED <<work, remote>>
    /\ UNCHANGED <<way, total, hashed, results, worker, go>>

\* Threads are started one by one; that of an upload opens the file, which may
\* fail.  An error leaves those started to themselves.
Spawn ==
    LET off == {w \in Workers : worker[w].pc = "off"} IN
    /\ caller.pc = "spawn"
    /\ \/ /\ off = {} /\ CallerTo("wait")
          /\ UNCHANGED worker
       \/ /\ \E w \in off : worker' = [worker EXCEPT ![w].pc = "run"]
          /\ UNCHANGED caller
       \/ /\ off # {} /\ way = "up" /\ CallerTo("raised")
          /\ UNCHANGED worker
    /\ UNCHANGED <<way, total, hashed, work, results, go, remote>>

\* _wait_for_upload_threads and _wait_for_download_threads: a result, or all.
\* Writing the part of a download may fail, as may opening the file.
Collect ==
    /\ caller.pc = "wait" /\ caller.got < total /\ results # <<>>
    /\ results' = Tail(results)
    /\ \/ /\ Failure(Head(results))
          /\ caller' = [caller EXCEPT !.pc = "join", !.next = "abort"]
          /\ go' = FALSE
          /\ UNCHANGED <<hashed, remote>>
       \/ /\ ~Failure(Head(results))
          /\ caller' = [caller EXCEPT !.got = @ + 1]
          /\ hashed' = hashed \cup {Head(results)}
          /\ remote' = IF way = "up" THEN remote ELSE
                         [remote EXCEPT !.parts = @ \cup {Head(results)}]
          /\ UNCHANGED go
       \/ /\ way = "down" /\ CallerTo("raised")
          /\ UNCHANGED <<hashed, go, remote>>
    /\ UNCHANGED <<way, total, work, worker>>

\* All results are there.  A download computes the hash of the whole before the
\* threads are shut down, which raises when there are no parts.
Collected ==
    /\ caller.pc = "wait" /\ caller.got = total
    /\ IF way = "down" /\ total = 0
       THEN CallerTo("raised") /\ UNCHANGED go
       ELSE /\ \E next \in {"finish"} \cup (IF way = "up" THEN {} ELSE {"abort"}) :
                  caller' = [caller EXCEPT !.pc = "join", !.next = next]
            /\ go' = FALSE
    /\ UNCHANGED <<way, total, hashed, work, results, worker, remote>>

\* _shutdown_threads joins the threads.
AllHaveLeft == \A w \in Workers : worker[w].pc = "left"
Joined == /\ caller.pc = "join" /\ AllHaveLeft
          /\ CallerTo(caller.next)
          /\ UNCHANGED <<way, total, hashed, work, results, worker, go, remote>>

\* complete_multipart_upload, which may fail before or after Glacier completed
\* the upload; without parts there is no hash, and the upload stays open.
Finish ==
    /\ caller.pc = "finish"
    /\ \/ /\ way = "down" \/ total > 0
          /\ \E pc \in {"done", "raised"} :
                CallerTo(IF way = "down" THEN "done" ELSE pc)
          /\ Becomes("complete")
       \/ /\ way = "up"
          /\ CallerTo("raised")
          /\ UNCHANGED remote
    /\ UNCHANGED <<way, total, hashed, work, results, worker, go>>

\* abort_multipart_upload, which may fail.
AbortUpload ==
    /\ caller.pc = "abort"
    /\ CallerTo("raised")
    /\ (way = "up" /\ Becomes("aborted")) \/ UNCHANGED remote
    /\ UNCHANGED <<way, total, hashed, work, results, worker, go>>

-----------------------------------------------------------------------------
(* TransferThread.run.                                                     *)

\* The queue is waited for at most a second, so that `go' is seen.
Take(w) ==
    /\ worker[w].pc = "run"
    /\ \/ /\ ~go
          /\ worker' = [worker EXCEPT ![w].pc = "left"]
          /\ UNCHANGED work
       \/ /\ work # <<>>
          /\ worker' = [worker EXCEPT
                          ![w] = IF Head(work) = End
                                 THEN [@ EXCEPT !.pc = "left"]
                                 ELSE [pc |-> "busy", part |-> Head(work),
                                       tries |-> 0]]
          /\ work' = Tail(work)
    /\ UNCHANGED <<way, total, caller, hashed, results, go, remote>>

\* What the thread puts into the result queue: the part, or its last exception.
Put(w, result) == /\ worker' = [worker EXCEPT ![w].pc = "run"]
                  /\ results' = Append(results, result)

\* The attempts at a part: one less for a download.
Attempts == IF way = "up" THEN WRetries + 1 ELSE WRetries

\* _process_chunk: a part goes up or comes down; the answer to a part that went
\* up may be lost, and the data that came down not fit its hash.
PartDone(w) ==
    /\ worker[w].pc = "busy"
    /\ Put(w, worker[w].part)
    /\ remote' = IF way = "up"
                 THEN [remote EXCEPT !.parts = @ \cup {worker[w].part}]
                 ELSE remote
    /\ UNCHANGED <<way, total, caller, hashed, work, go>>

PartFails(w) ==
    /\ worker[w].pc = "busy"
    /\ IF worker[w].tries + 1 < Attempts
       THEN /\ worker' = [worker EXCEPT ![w].tries = @ + 1]
            /\ UNCHANGED results
       ELSE Put(w, End)
    /\ \/ /\ way = "up"
          /\ remote' = [remote EXCEPT !.parts = @ \cup {worker[w].part}]
       \/ UNCHANGED remote
    /\ UNCHANGED <<way, total, caller, hashed, work, go>>

CallerStep    == \/ Initiate \/ Spawn \/ Collect \/ Collected \/ Joined
                 \/ Finish \/ AbortUpload
WorkerStep(w) == Take(w) \/ PartDone(w) \/ PartFails(w)

TransferNext == CallerStep \/ \E w \in Workers : WorkerStep(w)

TransferFairness == /\ WF_transferVars(CallerStep)
                    /\ \A w \in Workers : WF_transferVars(WorkerStep(w))

TransferSpec == TransferInit /\ [][TransferNext]_transferVars

-----------------------------------------------------------------------------
(* Properties.                                                             *)

TransferTypeOK ==
    /\ way \in {"up", "down"} /\ total \in Nat
    /\ caller.pc \in {"initiate", "spawn", "wait", "join", "finish", "abort",
                      "done", "raised"}
    /\ caller.got \in 0..total
    /\ hashed \subseteq Parts
    /\ work \in Seq(Parts \cup {End}) /\ results \in Seq(Parts \cup {End})
    /\ worker \in [Workers -> [pc : {"off", "run", "busy", "left"},
                               part : Parts \cup {End}, tries : 0..WRetries]]
    /\ go \in BOOLEAN
    /\ remote \in [state : {"none", "open", "complete", "aborted"},
                   parts : SUBSET Parts]

\* An upload is completed, and a download successful, only with every part there
\* and every hash computed, each once, in whatever order threads, retries and
\* results come; and no thread still works when it is completed or aborted, so no
\* part is sent to an upload that has ended.
CompleteHasAll ==
    /\ remote.state = "complete" => remote.parts = Parts /\ hashed = Parts
    /\ caller.pc = "done" => remote.state = "complete"
    /\ remote.state \in {"complete", "aborted"} =>
          \A w \in Workers : worker[w].pc = "left"

\* upload and download return or raise: there is a result for every part, or an
\* error before, and no thread outlives the sentinels.
TransferEnds ==
    caller.pc = "spawn" ~> /\ caller.pc \in {"done", "raised"}
                           /\ \A w \in Workers : worker[w].pc \in {"off", "left"}
=============================================================================
