------------------------- MODULE ResumableDownload -------------------------
(***************************************************************************)
(* ResumableDownloadHandler of boto/s3/resumable_download_handler.py: a    *)
(* file is fetched in several attempts, of several processes, each going   *)
(* on where the last one stopped.  A tracker file names the version (the   *)
(* ETag) of which the file holds the beginning.                            *)
(*                                                                         *)
(* A version v of the object has Size[v] chunks, the i-th is <<v, i>>.     *)
(* The file is one opened for appending.  A response that ends early is    *)
(* what httplib of Python 2.7.4 and later makes of it: end of file.        *)
(***************************************************************************)
EXTENDS Integers, Sequences, SequencesExt

CONSTANTS Versions,     \* ETags the object has had or will have
          Size,         \* Size[v]: the chunks of version v
          DRetries,     \* num_retries
          MaxOverwrites,\* bound: how often the object is overwritten
          NoTag,        \* no tracker file, or no ETag read from it
          Cut           \* a tracker file that was opened and not written

ASSUME SizeAssumption == Size \in [Versions -> Nat \ {0}]
ASSUME DRetriesAssumption == DRetries \in Nat /\ MaxOverwrites \in Nat
ASSUME TagsAssumption == NoTag \notin Versions /\ Cut \notin Versions
                         /\ NoTag # Cut

VARIABLES object,   \* the version the service has
          overwrites,
          file,
          tracker,
          getter,   \* the process: where get_file is and what it remembers
          faults    \* ghost: what went wrong since the file was last empty

downloadVars == <<object, overwrites, file, tracker, getter, faults>>

Whole(v) == [i \in 1..Size[v] |-> <<v, i>>]

\* The response attached to the key: none, one cut off, or chunks from..to.
NoResponse == [kind |-> "none"]
CutOff     == [kind |-> "cut"]
Body(v, from, to) == [kind |-> "body", version |-> v, from |-> from, to |-> to]

Down == [pc |-> "down", etag |-> NoTag, key |-> object, resp |-> NoResponse,
         before |-> 0, first |-> 0, tries |-> 0, again |-> "no"]

DownloadInit ==
    /\ object \in Versions
    /\ overwrites = 0
    /\ file \in {<<>>} \cup {Whole(v) : v \in Versions \ {object}}
    /\ tracker = NoTag
    /\ getter = Down
    /\ faults = {}

At(pc) == getter.pc = pc
Go(pc) == getter' = [getter EXCEPT !.pc = pc]

\* Exceptions: out of get_file, with ABORT also without the tracker file, or to
\* the end of the loop that retries.  What the second get_file raises, in the
\* handler of a broken pipe, no one catches.
Raised    == Go("raised") /\ UNCHANGED tracker
Aborted   == Go("raised") /\ tracker' = NoTag
Retryable == Go(IF getter.again = "yes" THEN "raised" ELSE "failed")

-----------------------------------------------------------------------------
\* A process: the constructor reads the tracker file, if it can; its caller has
\* looked the key up and opened the file.
Launch ==
    /\ getter.pc \in {"down", "raised"}
    /\ \E etag \in {tracker, NoTag} :
          getter' = [Down EXCEPT !.pc = "attempt", !.etag = etag]
    /\ UNCHANGED <<object, overwrites, file, tracker, faults>>

\* Whether an attempt goes on with the file.  Mutated: any tracker file will do.
AnyTag  == getter.etag \notin {NoTag, Cut}
SameTag == getter.etag \notin {NoTag, Cut} /\ getter.etag = getter.key

\* _attempt_resumable_download: what it does with the file.
Attempt ==
    LET n == Len(file) IN
    /\ At("attempt")
    /\ \/ /\ n > 0 /\ SameTag /\ n > Size[getter.key]
          /\ Aborted
       \/ /\ n > 0 /\ SameTag /\ n = Size[getter.key]
          /\ Go("done")
          /\ tracker' = NoTag
       \/ /\ n > 0 /\ SameTag /\ n < Size[getter.key]
          /\ getter' = [getter EXCEPT !.pc = "open", !.before = n, !.first = n]
          /\ UNCHANGED tracker
       \/ /\ ~(n > 0 /\ SameTag)
          /\ getter' = [getter EXCEPT !.pc = "save", !.before = n, !.first = 0]
          /\ UNCHANGED tracker
    /\ UNCHANGED <<object, overwrites, file, faults>>

\* _save_tracker_info; the tracker file may not be writable.
Save ==
    /\ At("save")
    /\ \/ /\ getter' = [getter EXCEPT !.pc = "truncate", !.etag = getter.key]
          /\ tracker' = getter.key
       \/ Aborted
    /\ UNCHANGED <<object, overwrites, file, faults>>

\* fp.truncate(0)
Emptied == <<>>

Truncate ==
    /\ At("truncate")
    /\ Go("open")
    /\ file' = Emptied
    /\ faults' = IF getter.key = object THEN {} ELSE {"overwritten"}
    /\ UNCHANGED <<object, overwrites, tracker>>

\* The handler of a broken pipe: the whole object is asked for.
Piped == /\ getter.again = "no"
         /\ getter' = [getter EXCEPT !.again = "yes", !.first = 0]
         /\ faults' = faults \cup {"pipe"}

\* Key.open_read: a request, unless the key still has a response.  An answer
\* brings the ETag and the size of the object as it is now, and the bytes from
\* the end of the file to the size that was known.
Open ==
    LET last == IF getter.first = 0 \/ Size[object] < Size[getter.key]
                THEN Size[object] ELSE Size[getter.key]
    IN
    /\ At("open")
    /\ \/ /\ getter.resp = NoResponse /\ getter.first < Size[object]
          /\ getter' = [getter EXCEPT
                          !.pc = "read", !.key = object,
                          !.resp = Body(object, getter.first + 1, last)]
          /\ UNCHANGED faults
       \/ /\ getter.resp # NoResponse
          /\ Go("read")
          /\ UNCHANGED faults
       \/ /\ getter.resp = NoResponse
          /\ \/ Go("raised") /\ UNCHANGED faults  \* 416, 404, 500, ...
             \/ Retryable /\ UNCHANGED faults     \* no answer
             \/ Piped
    /\ UNCHANGED <<object, overwrites, file, tracker>>

\* A chunk of the response goes to the file.
Chunk ==
    LET r == getter.resp IN
    /\ At("read") /\ r.kind = "body" /\ r.from <= r.to
    /\ file' = Append(file, <<r.version, r.from>>)
    /\ getter' = [getter EXCEPT !.resp.from = @ + 1]
    /\ UNCHANGED <<object, overwrites, tracker, faults>>

\* The response has ended, whether all of it came or not: the attempt, or the
\* one in the handler of the broken pipe, has succeeded.
EndOfBody ==
    LET r == getter.resp IN
    /\ At("read")
    /\ faults' = faults \cup
          CASE r.kind = "cut" -> {"incomplete"}
            [] r.kind = "body" -> IF r.from <= r.to THEN {"eof"} ELSE {}
    /\ IF getter.again = "yes"
       THEN /\ getter' = [getter EXCEPT !.pc = "failed", !.resp = NoResponse]
            /\ UNCHANGED tracker
       ELSE /\ getter' = [getter EXCEPT !.pc = "done", !.resp = NoResponse]
            /\ tracker' = NoTag
    /\ UNCHANGED <<object, overwrites, file>>

\* An error from the connection or the disk, or no space left on it.
ReadFails == /\ At("read") /\ getter.resp.kind = "body"
             /\ Retryable \/ Go("raised")
             /\ UNCHANGED <<object, overwrites, file, tracker, faults>>

\* What counts as progress.
Progress == Len(file) > getter.before

\* Whether to give up.  Mutated: one attempt late.
OneTryMore(tries) == tries > DRetries + 1
OutOfTries(tries) == tries > DRetries

\* The end of the loop.
Count ==
    LET tries == IF Progress THEN 0 ELSE getter.tries + 1 IN
    /\ At("failed")
    /\ getter' = IF OutOfTries(tries)
                 THEN [getter EXCEPT !.pc = "raised"]
                 ELSE [getter EXCEPT !.pc = "close", !.tries = tries,
                                     !.again = "no"]
    /\ UNCHANGED <<object, overwrites, file, tracker, faults>>

\* key.close() reads what is left of the response, and keeps the response when
\* that raises; IncompleteRead is ignored, anything else is not.
CloseKey ==
    /\ At("close")
    /\ \/ getter' = [getter EXCEPT !.pc = "attempt", !.resp = NoResponse]
       \/ /\ getter.resp # NoResponse
          /\ \/ getter' = [getter EXCEPT !.pc = "attempt", !.resp = CutOff]
             \/ Go("raised")
    /\ UNCHANGED <<object, overwrites, file, tracker, faults>>

DownloadStep == \/ Attempt \/ Save \/ Truncate \/ Open \/ Chunk \/ EndOfBody
                \/ ReadFails \/ Count \/ CloseKey

\* The process is killed; while it writes the tracker file, that may be empty.
DownloadKilled ==
    /\ getter.pc \notin {"down", "raised", "done"}
    /\ getter' = Down
    /\ tracker' \in {tracker} \cup (IF At("save") THEN {Cut} ELSE {})
    /\ faults' = faults \cup (IF At("truncate") THEN {"untruncated"} ELSE {})
    /\ UNCHANGED <<object, overwrites, file>>

\* The object is overwritten; between two processes that does no harm.
Overwrite ==
    /\ overwrites < MaxOverwrites
    /\ overwrites' = overwrites + 1
    /\ object' \in Versions \ {object}
    /\ faults' = faults \cup (IF getter.pc \in {"down", "raised", "done"}
                             THEN {} ELSE {"overwritten"})
    /\ UNCHANGED <<file, tracker, getter>>

DownloadNext == Launch \/ DownloadStep \/ DownloadKilled \/ Overwrite

DownloadSpec == DownloadInit /\ [][DownloadNext]_downloadVars

-----------------------------------------------------------------------------
(* Properties.                                                             *)

Faults == {"overwritten", "untruncated", "pipe", "eof", "incomplete"}

DownloadTypeOK ==
    /\ object \in Versions
    /\ overwrites \in 0..MaxOverwrites
    /\ file \in Seq(Versions \X Nat)
    /\ tracker \in Versions \cup {NoTag, Cut}
    /\ getter.pc \in {"down", "attempt", "save", "truncate", "open", "read",
                      "failed", "close", "raised", "done"}
    /\ getter.etag \in Versions \cup {NoTag, Cut}
    /\ getter.key \in Versions
    /\ getter.tries \in 0..DRetries
    /\ getter.before \in Nat /\ getter.first \in Nat
    /\ getter.again \in {"no", "yes"}
    /\ faults \subseteq Faults

\* A download that succeeds, after failures, kills and resumed attempts in any
\* number, on top of whatever the file held, leaves the file as the object is.
\* Between processes the tracker file does not mislead the next one: when it
\* names the version the object has, the file is the beginning of that version,
\* or the whole of it.  Only the five faults named can prevent that: the object
\* is overwritten while a process fetches it, a kill between tracker file and
\* truncation, a broken pipe, a response that ends early, and an IncompleteRead
\* that close ignored.
DownloadWhole ==
    faults = {} =>
        /\ At("done") => file = Whole(getter.key)
        /\ getter.pc \in {"down", "raised"} /\ tracker = object
           => IsPrefix(file, Whole(object))

\* Every process ends: attempts without progress are counted, and progress is
\* bounded by the size of the object.
DownloadEnds == At("attempt") ~> getter.pc \in {"done", "raised", "down"}
=============================================================================
