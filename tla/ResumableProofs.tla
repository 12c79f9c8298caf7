-------------------------- MODULE ResumableProofs --------------------------
(***************************************************************************)
(* That a resumable download and a resumable upload put together what they *)
(* should, for any versions, sizes, retries, sessions and edits.           *)
(*                                                                         *)
(* Of a download: as long as none of the faults named has happened, the    *)
(* file is a beginning of the version the tracker file names, except       *)
(* between tracker file and truncation; a working process has the ETag it  *)
(* found there or none; and the response being read continues the file.    *)
(*                                                                         *)
(* Of an upload: unless one of the troubles has occurred, each session of  *)
(* the service has a beginning of the file, all of it when it is complete; *)
(* a sender at work is as far as its session, its digest is of what the    *)
(* service has, its buffer is what comes next, and what is rolled back to  *)
(* is the digest of nothing.                                               *)
(*                                                                         *)
(* Each step of either brings it closer to its end, as long as the object, *)
(* or the file, is not changed by others.                                  *)
(***************************************************************************)
EXTENDS ResumableDownload, ResumableUpload, SequenceTheorems, TLAPS

-----------------------------------------------------------------------------
(* Sequences.                                                              *)

LEMMA FunctionIsSeq ==
    ASSUME NEW S, NEW n \in Nat, NEW f \in [1..n -> S]
    PROVE  f \in Seq(S) /\ Len(f) = n /\ DOMAIN f = 1..n
<1>1. f \in Seq(S)
  BY SeqDef
<1>2. DOMAIN f = 1..n
  OBVIOUS
<1>3. Len(f) \in Nat /\ DOMAIN f = 1..Len(f)
  BY <1>1, LenProperties
<1> QED BY <1>1, <1>2, <1>3

LEMMA BeginningOf ==
    ASSUME NEW S, NEW s \in Seq(S), NEW n \in 0..Len(s)
    PROVE  /\ SubSeq(s, 1, n) \in Seq(S)
           /\ Len(SubSeq(s, 1, n)) = n
           /\ \A i \in 1..n : SubSeq(s, 1, n)[i] = s[i]
  OBVIOUS

\* A prefix agrees with the sequence as far as it goes.
LEMMA PrefixElements ==
    ASSUME NEW S, NEW s \in Seq(S), NEW t \in Seq(S)
    PROVE  IsPrefix(s, t) <=> /\ Len(s) <= Len(t)
                              /\ \A i \in 1..Len(s) : s[i] = t[i]
<1>1. /\ Len(s) \in Nat /\ Len(t) \in Nat
      /\ \A i \in 1..Len(s) : s[i] \in S
      /\ \A i \in 1..Len(t) : t[i] \in S
  BY LenProperties
<1>2. SubSeq(s, 1, Len(s)) = s
  BY SubSeqFull
<1>3. CASE Len(s) <= Len(t)
  <2>1. PICK u \in Seq(S) : /\ u = SubSeq(t, 1, Len(s))
                            /\ Len(u) = Len(s)
                            /\ \A i \in 1..Len(s) : u[i] = t[i]
    <3>1. Len(s) \in 0..Len(t)
      BY <1>1, <1>3
    <3> QED BY <3>1, BeginningOf, Zenon
  <2>2. s = u <=> \A i \in 1..Len(s) : s[i] = u[i]
    BY <2>1, SeqEqual
  <2> QED BY <1>2, <1>3, <2>1, <2>2 DEF IsPrefix
<1>4. CASE ~(Len(s) <= Len(t))
  BY <1>4 DEF IsPrefix
<1> QED BY <1>3, <1>4

-----------------------------------------------------------------------------
(* The download.                                                           *)

USE SizeAssumption, DRetriesAssumption, TagsAssumption

DownloadPCs == {"down", "attempt", "save", "truncate", "open", "read", "failed",
                "close", "raised", "done"}
Bodies == [kind : {"body"}, version : Versions, from : Nat, to : Nat]
Responses == {NoResponse, CutOff} \cup Bodies
Tags == Versions \cup {NoTag, Cut}
Getters == [pc : DownloadPCs, etag : Tags, key : Versions, resp : Responses,
            before : Nat, first : Nat, tries : 0..DRetries, again : {"no", "yes"}]

Chunks == Versions \X Nat

DownloadTyped ==
    /\ object \in Versions
    /\ overwrites \in 0..MaxOverwrites
    /\ file \in Seq(Chunks)
    /\ tracker \in Tags
    /\ getter \in Getters
    /\ faults \subseteq Faults

Working == getter.pc \notin {"down", "raised", "done"}

\* What a process knows at each place.
GetterKnows ==
    /\ Working => getter.etag \in {tracker, NoTag}
    /\ At("truncate") => getter.etag = getter.key
    /\ getter.pc \in {"close", "attempt", "save", "truncate"} => getter.again = "no"
    /\ getter.pc \in {"save", "truncate"} => getter.first = 0
    /\ getter.pc \in {"attempt", "save", "truncate", "open"}
       => getter.resp \in {NoResponse, CutOff}
    /\ At("read") => getter.resp # NoResponse

Prefixed(v) == Len(file) <= Size[v] /\ \A i \in 1..Len(file) : file[i] = <<v, i>>

\* The response r goes on where the file ends, to the end of the object.
Continues(r) == /\ r \in Bodies /\ r.version = getter.key
                /\ r.from = Len(file) + 1 /\ r.to = Size[getter.key]

FileAgrees ==
    /\ tracker \in Versions /\ ~At("truncate") => Prefixed(tracker)
    /\ Working => getter.key = object /\ getter.again = "no"
    /\ getter.pc \in {"open", "read"} => getter.etag = getter.key
    /\ At("open") => getter.first = Len(file)
    /\ At("read") => getter.resp = CutOff \/ Continues(getter.resp)
    /\ At("done") => file = Whole(getter.key)

DownloadInv == DownloadTyped /\ GetterKnows /\ (faults = {} => FileAgrees)

LEMMA SizesAreNat == ASSUME NEW v \in Versions PROVE Size[v] \in Nat /\ Size[v] > 0
  OBVIOUS

LEMMA WholeIsSeq ==
    ASSUME NEW v \in Versions
    PROVE  Whole(v) \in Seq(Chunks) /\ Len(Whole(v)) = Size[v]
<1>1. Size[v] \in Nat
  BY SizesAreNat
<1>2. Whole(v) \in [1..Size[v] -> Chunks]
  BY <1>1 DEF Whole, Chunks
<1> QED BY <1>1, <1>2, FunctionIsSeq

LEMMA PrefixedIsPrefix ==
    ASSUME file \in Seq(Chunks), NEW v \in Versions
    PROVE  /\ Prefixed(v) <=> IsPrefix(file, Whole(v))
           /\ Prefixed(v) /\ Len(file) = Size[v] => file = Whole(v)
<1>1. /\ Whole(v) \in Seq(Chunks) /\ Len(Whole(v)) = Size[v]
      /\ \A i \in 1..Size[v] : Whole(v)[i] = <<v, i>>
  BY WholeIsSeq DEF Whole
<1>2. Len(file) \in Nat /\ Size[v] \in Nat
  BY SizesAreNat, LenProperties
<1>3. Prefixed(v) <=> IsPrefix(file, Whole(v))
  <2>1. \A i \in 1..Len(file) : Len(file) <= Size[v] => Whole(v)[i] = <<v, i>>
    BY <1>1, <1>2
  <2>2. IsPrefix(file, Whole(v)) <=>
           /\ Len(file) <= Size[v]
           /\ \A i \in 1..Len(file) : file[i] = Whole(v)[i]
    BY <1>1, PrefixElements
  <2> QED BY <2>1, <2>2 DEF Prefixed
<1>4. ASSUME Prefixed(v), Len(file) = Size[v] PROVE file = Whole(v)
  BY <1>1, <1>2, <1>4, SeqEqual DEF Prefixed
<1> QED BY <1>3, <1>4

LEMMA ResponseTypes == /\ NoResponse \in Responses /\ CutOff \in Responses
                       /\ Bodies \subseteq Responses
                       /\ NoResponse # CutOff
                       /\ \A r \in Bodies : r.kind = "body"
                       /\ NoResponse.kind = "none" /\ CutOff.kind = "cut"
                       /\ NoTag \in Tags /\ Cut \in Tags /\ Versions \subseteq Tags
  BY DEF Responses, NoResponse, CutOff, Bodies, Tags

LEMMA DownTyped == DownloadTyped => Down \in Getters
  BY ResponseTypes DEF DownloadTyped, Down, Getters, DownloadPCs

LEMMA GoTyped ==
    ASSUME getter \in Getters, NEW pc \in DownloadPCs
    PROVE  /\ [getter EXCEPT !.pc = pc] \in Getters
           /\ Go(pc) => getter' \in Getters
  BY DEF Getters, Go

LEMMA LaunchTyped == DownloadTyped /\ (Launch \/ DownloadKilled) => DownloadTyped'
<1> SUFFICES ASSUME DownloadTyped, Launch \/ DownloadKilled PROVE DownloadTyped'
  OBVIOUS
<1> USE DEF DownloadTyped
<1>1. getter' \in Getters
  <2>1. \A etag \in Tags : [Down EXCEPT !.pc = "attempt", !.etag = etag] \in Getters
    BY DownTyped DEF Getters, DownloadPCs
  <2> QED BY <2>1, DownTyped, ResponseTypes DEF Launch, DownloadKilled
<1>2. tracker' \in Tags
  BY ResponseTypes DEF Launch, DownloadKilled
<1>3. faults' \subseteq Faults
  BY DEF Launch, DownloadKilled, Faults
<1> QED BY <1>1, <1>2, <1>3 DEF Launch, DownloadKilled

LEMMA AttemptTyped ==
    DownloadTyped /\ (Attempt \/ Save \/ Truncate) => DownloadTyped'
<1> SUFFICES ASSUME DownloadTyped, Attempt \/ Save \/ Truncate PROVE DownloadTyped'
  OBVIOUS
<1> USE DEF DownloadTyped
<1>1. Len(file) \in Nat
  BY LenProperties
<1>2. getter' \in Getters
  <2>1. CASE Attempt
    <3>1. \A first \in Nat, pc \in {"open", "save"} :
             [getter EXCEPT !.pc = pc, !.before = Len(file), !.first = first] \in Getters
      BY <1>1 DEF Getters, DownloadPCs
    <3>2. \A pc \in {"raised", "done"} : Go(pc) => getter' \in Getters
      BY DEF Getters, DownloadPCs, Go
    <3> QED BY <1>1, <2>1, <3>1, <3>2 DEF Attempt, Aborted
  <2>2. CASE Save
    <3>1. [getter EXCEPT !.pc = "truncate", !.etag = getter.key] \in Getters
      BY ResponseTypes DEF Getters, DownloadPCs
    <3>2. Go("raised") => getter' \in Getters
      BY DEF Getters, DownloadPCs, Go
    <3> QED BY <2>2, <3>1, <3>2 DEF Save, Aborted
  <2>3. CASE Truncate
    BY <2>3 DEF Truncate, Go, Getters, DownloadPCs
  <2> QED BY <2>1, <2>2, <2>3
<1>3. tracker' \in Tags
  BY ResponseTypes DEF Attempt, Save, Truncate, Aborted, Getters
<1>4. faults' \subseteq Faults
  BY DEF Attempt, Save, Truncate, Faults
<1>5. file' \in Seq(Chunks)
  BY EmptySeq DEF Attempt, Save, Truncate, Emptied
<1> QED BY <1>2, <1>3, <1>4, <1>5 DEF Attempt, Save, Truncate

LEMMA OpenTyped == DownloadTyped /\ Open => DownloadTyped'
<1> SUFFICES ASSUME DownloadTyped, Open PROVE DownloadTyped'
  OBVIOUS
<1> USE DEF DownloadTyped
<1>1. PICK last \in Nat : last = IF getter.first = 0 \/ Size[object] < Size[getter.key]
                                 THEN Size[object] ELSE Size[getter.key]
  BY DEF Getters
<1>2. Body(object, getter.first + 1, last) \in Responses
  <2>1. Body(object, getter.first + 1, last) \in Bodies
    BY <1>1 DEF Body, Bodies, Getters
  <2> QED BY <2>1, ResponseTypes
<1>3. \A resp \in Responses :
         [getter EXCEPT !.pc = "read", !.key = object, !.resp = resp] \in Getters
  BY DEF Getters, DownloadPCs
<1>4. \A pc \in {"read", "raised", "failed"} : Go(pc) => getter' \in Getters
  BY DEF Getters, DownloadPCs, Go
<1>5. [getter EXCEPT !.again = "yes", !.first = 0] \in Getters
  BY DEF Getters
<1>6. getter' \in Getters
  BY <1>1, <1>2, <1>3, <1>4, <1>5 DEF Open, Retryable, Piped
<1>7. faults' \subseteq Faults
  BY DEF Open, Piped, Faults
<1> QED BY <1>6, <1>7 DEF Open

LEMMA ChunkTyped ==
    DownloadTyped /\ Chunk =>
        /\ DownloadTyped'
        /\ \E r \in Bodies :
              /\ r = getter.resp /\ r.from <= r.to
              /\ file' = Append(file, <<r.version, r.from>>)
              /\ getter' = [getter EXCEPT !.resp = [r EXCEPT !.from = @ + 1]]
              /\ [r EXCEPT !.from = @ + 1] \in Bodies
<1> SUFFICES ASSUME DownloadTyped, Chunk
             PROVE  /\ DownloadTyped'
                    /\ \E r \in Bodies :
                          /\ r = getter.resp /\ r.from <= r.to
                          /\ file' = Append(file, <<r.version, r.from>>)
                          /\ getter' = [getter EXCEPT !.resp = [r EXCEPT !.from = @ + 1]]
                          /\ [r EXCEPT !.from = @ + 1] \in Bodies
  OBVIOUS
<1> USE DEF DownloadTyped
<1>1. PICK r \in Bodies : r = getter.resp
  BY DEF Chunk, Getters, Responses, NoResponse, CutOff
<1>2. <<r.version, r.from>> \in Chunks /\ [r EXCEPT !.from = r.from + 1] \in Bodies
  <2>1. r.version \in Versions /\ r.from \in Nat
    BY DEF Bodies
  <2>2. PICK n \in Nat : n = r.from + 1
    BY <2>1
  <2>3. [r EXCEPT !.from = n] \in Bodies
    BY DEF Bodies
  <2> QED BY <2>1, <2>2, <2>3 DEF Chunks
<1>3. file' \in Seq(Chunks)
  BY <1>1, <1>2, AppendProperties DEF Chunk
<1>4. getter' = [getter EXCEPT !.resp = [r EXCEPT !.from = r.from + 1]]
  BY <1>1 DEF Chunk, Getters
<1>5. [r EXCEPT !.from = r.from + 1] \in Responses
  BY <1>2, ResponseTypes
<1>6. getter' \in Getters
  BY <1>4, <1>5 DEF Getters
<1> QED BY <1>1, <1>2, <1>3, <1>4, <1>6 DEF Chunk

LEMMA ReadTyped ==
    DownloadTyped /\ GetterKnows /\ (EndOfBody \/ ReadFails) => DownloadTyped'
<1> SUFFICES ASSUME DownloadTyped, GetterKnows, EndOfBody \/ ReadFails
             PROVE  DownloadTyped'
  OBVIOUS
<1> USE DEF DownloadTyped
<1>1. \A pc \in {"failed", "done"} :
         [getter EXCEPT !.pc = pc, !.resp = NoResponse] \in Getters
  BY ResponseTypes DEF Getters, DownloadPCs
<1>2. \A pc \in {"raised", "failed"} : Go(pc) => getter' \in Getters
  BY DEF Getters, DownloadPCs, Go
<1>3. getter' \in Getters /\ tracker' \in Tags
  BY <1>1, <1>2, ResponseTypes DEF EndOfBody, ReadFails, Retryable
<1>4. faults' \subseteq Faults
  <2>1. CASE EndOfBody
    <3>1. getter.resp \in {CutOff} \cup Bodies
      BY <2>1 DEF EndOfBody, GetterKnows, At, Getters, Responses
    <3>2. getter.resp.kind \in {"cut", "body"}
      BY <3>1, ResponseTypes
    <3> QED BY <2>1, <3>2 DEF EndOfBody, Faults
  <2>2. CASE ReadFails
    BY <2>2 DEF ReadFails
  <2> QED BY <2>1, <2>2
<1> QED BY <1>3, <1>4 DEF EndOfBody, ReadFails

LEMMA CountTyped == DownloadTyped /\ (Count \/ CloseKey) => DownloadTyped'
<1> SUFFICES ASSUME DownloadTyped, Count \/ CloseKey PROVE DownloadTyped'
  OBVIOUS
<1> USE DEF DownloadTyped
<1>1. CASE Count
  <2>1. PICK tries \in Nat : tries = IF Progress THEN 0 ELSE getter.tries + 1
    BY DEF Getters
  <2>2. getter' = IF tries > DRetries
                  THEN [getter EXCEPT !.pc = "raised"]
                  ELSE [getter EXCEPT !.pc = "close", !.tries = tries, !.again = "no"]
    BY <1>1, <2>1 DEF Count, OutOfTries
  <2>3. CASE tries > DRetries
    BY <1>1, <2>2, <2>3, SMTT(60) DEF Count, Getters, DownloadPCs
  <2>4. CASE ~(tries > DRetries)
    <3>1. tries \in 0..DRetries
      BY <2>4
    <3> QED BY <1>1, <2>2, <2>4, <3>1, ZenonT(60) DEF Count, Getters, DownloadPCs
  <2> QED BY <2>3, <2>4
<1>2. CASE CloseKey
  <2>1. \A resp \in Responses :
           [getter EXCEPT !.pc = "attempt", !.resp = resp] \in Getters
    BY DEF Getters, DownloadPCs
  <2>2. Go("raised") => getter' \in Getters
    BY DEF Getters, DownloadPCs, Go
  <2> QED BY <1>2, <2>1, <2>2, ResponseTypes DEF CloseKey
<1> QED BY <1>1, <1>2

LEMMA OverwriteTyped == DownloadTyped /\ Overwrite => DownloadTyped'
  BY DEF DownloadTyped, Overwrite, Faults

LEMMA DownloadTypes ==
    DownloadTyped /\ GetterKnows /\ [DownloadNext]_downloadVars => DownloadTyped'
<1>1. DownloadTyped /\ UNCHANGED downloadVars => DownloadTyped'
  BY DEF DownloadTyped, downloadVars
<1> QED BY <1>1, LaunchTyped, AttemptTyped, OpenTyped, ChunkTyped, ReadTyped,
           CountTyped, OverwriteTyped DEF DownloadNext, DownloadStep

LEMMA KnowsKept ==
    DownloadTyped /\ GetterKnows /\ [DownloadNext]_downloadVars => GetterKnows'
<1> SUFFICES ASSUME DownloadTyped, GetterKnows, [DownloadNext]_downloadVars
             PROVE  GetterKnows'
  OBVIOUS
<1>0. getter \in Getters
  BY DEF DownloadTyped
<1> USE DEF GetterKnows, Working, At
<1>1. CASE Launch
  BY <1>1 DEF Launch, Down
<1>2. CASE Attempt
  BY <1>0, <1>2 DEF Attempt, Aborted, Go, Getters
<1>3. CASE Save \/ Truncate
  BY <1>0, <1>3 DEF Save, Truncate, Aborted, Go, Getters
<1>4. CASE Open
  <2>1. \A v, m, n : Body(v, m, n) # NoResponse
    BY DEF Body, NoResponse
  <2>2. CASE getter' = [getter EXCEPT !.again = "yes", !.first = 0]
    BY <1>0, <1>4, <2>2 DEF Open, Getters
  <2>3. ASSUME NEW last,
               getter' = [getter EXCEPT !.pc = "read", !.key = object,
                            !.resp = Body(object, getter.first + 1, last)]
        PROVE  GetterKnows'
    BY <1>0, <1>4, <2>1, <2>3 DEF Open, Getters
  <2>4. ASSUME NEW pc \in {"read", "raised", "failed"}, Go(pc),
               pc = "read" => getter.resp # NoResponse
        PROVE  GetterKnows'
    BY <1>0, <1>4, <2>4 DEF Open, Go, Getters
  <2> QED BY <1>4, <2>2, <2>3, <2>4 DEF Open, Retryable, Piped
<1>5. CASE Chunk
  <2>1. PICK r \in Bodies : getter' = [getter EXCEPT !.resp = r]
    BY <1>5, ChunkTyped
  <2>2. getter'.resp # NoResponse /\ getter'.pc = "read"
    BY <1>0, <1>5, <2>1, ResponseTypes, SMTT(60) DEF Chunk, Getters
  <2>3. getter'.etag = getter.etag /\ tracker' = tracker
    BY <1>0, <1>5, <2>1 DEF Chunk, Getters
  <2> QED BY <1>5, <2>2, <2>3 DEF Chunk
<1>6. CASE EndOfBody \/ ReadFails
  BY <1>0, <1>6, ZenonT(60) DEF EndOfBody, ReadFails, Go, Retryable, Getters
<1>7. CASE Count
  BY <1>0, <1>7 DEF Count, Getters
<1>8. CASE CloseKey
  BY <1>0, <1>8 DEF CloseKey, Go, Getters
<1>9. CASE DownloadKilled
  BY <1>9 DEF DownloadKilled, Down
<1>10. CASE Overwrite \/ UNCHANGED downloadVars
  BY <1>10 DEF Overwrite, downloadVars
<1> QED BY <1>1, <1>2, <1>3, <1>4, <1>5, <1>6, <1>7, <1>8, <1>9, <1>10
        DEF DownloadNext, DownloadStep

LEMMA DownloadInitHolds == DownloadInit => DownloadInv
<1> SUFFICES ASSUME DownloadInit PROVE DownloadInv
  OBVIOUS
<1>1. file \in Seq(Chunks)
  BY WholeIsSeq, EmptySeq DEF DownloadInit
<1>2. getter \in Getters /\ getter.pc = "down"
  BY ResponseTypes DEF DownloadInit, Down, Getters, DownloadPCs
<1>3. DownloadTyped
  BY <1>1, <1>2, ResponseTypes DEF DownloadInit, DownloadTyped
<1> QED BY <1>2, <1>3, TagsAssumption DEF DownloadInit, DownloadInv, GetterKnows,
                                          FileAgrees, Working, At



-----------------------------------------------------------------------------
(* Each step keeps FileAgrees, as long as no fault happens.                *)

LEMMA LaunchAgrees ==
    DownloadInv /\ faults' = {} /\ (Launch \/ DownloadKilled) => FileAgrees'
<1> SUFFICES ASSUME DownloadInv, faults' = {}, Launch \/ DownloadKilled
             PROVE  FileAgrees'
  OBVIOUS
<1> USE DEF At, Working
<1>1. /\ faults = {} /\ ~At("truncate")
      /\ object' = object /\ file' = file
      /\ tracker' \in {tracker, Cut} /\ getter'.pc \in {"attempt", "down"}
      /\ getter'.key = object /\ getter'.again = "no"
  <2>1. CASE Launch
    BY <2>1 DEF Launch, Down
  <2>2. CASE DownloadKilled
    BY <2>2 DEF DownloadKilled, Down
  <2> QED BY <2>1, <2>2
<1> QED BY <1>1, TagsAssumption DEF DownloadInv, FileAgrees, Prefixed

LEMMA AttemptAgrees ==
    DownloadInv /\ faults' = {} /\ (Attempt \/ Save) => FileAgrees'
<1> SUFFICES ASSUME DownloadInv, faults' = {}, Attempt \/ Save
             PROVE  FileAgrees'
  OBVIOUS
<1> USE DEF At, Working
<1>0. /\ DownloadTyped /\ getter \in Getters /\ FileAgrees /\ file \in Seq(Chunks)
      /\ file' = file /\ object' = object /\ GetterKnows
  BY DEF DownloadInv, DownloadTyped, Attempt, Save
<1>1. Len(file) \in Nat /\ getter.key \in Versions
  BY <1>0, LenProperties DEF Getters
<1>2. CASE Attempt /\ getter'.pc = "done"
  <2>1. SameTag /\ Len(file) = Size[getter.key]
        /\ getter' = [getter EXCEPT !.pc = "done"] /\ tracker' = NoTag
    BY <1>0, <1>2 DEF Attempt, Go, Aborted, Getters
  <2>2. tracker = getter.key
    BY <1>0, <1>2, <2>1 DEF Attempt, GetterKnows, SameTag
  <2>3. file = Whole(getter.key)
    BY <1>0, <1>1, <1>2, <2>1, <2>2, PrefixedIsPrefix DEF Attempt, FileAgrees
  <2>4. getter'.pc = "done" /\ getter'.key = getter.key
    BY <1>0, <2>1 DEF Getters
  <2>5. Whole(getter.key)' = Whole(getter.key)
    BY <2>4 DEF Whole
  <2> QED BY <1>0, <2>1, <2>3, <2>4, <2>5, TagsAssumption DEF FileAgrees
<1>3. CASE Attempt /\ getter'.pc = "raised"
  BY <1>0, <1>3, TagsAssumption DEF Attempt, Go, Aborted, Getters, FileAgrees, Prefixed
<1>4. CASE Attempt /\ getter'.pc = "open"
  <2>1. /\ SameTag /\ tracker' = tracker
        /\ getter' = [getter EXCEPT !.pc = "open", !.before = Len(file),
                                    !.first = Len(file)]
    BY <1>0, <1>4 DEF Attempt, Go, Aborted, Getters
  <2>2. /\ getter'.pc = "open" /\ getter'.first = Len(file)
        /\ getter'.key = getter.key /\ getter'.etag = getter.etag
        /\ getter'.again = getter.again
    BY <1>0, <2>1 DEF Getters
  <2> QED BY <1>0, <1>4, <2>1, <2>2 DEF Attempt, SameTag, FileAgrees, Prefixed
<1>5. CASE Attempt /\ getter'.pc = "save"
  <2>1. /\ getter'.key = getter.key /\ getter'.again = getter.again
        /\ tracker' = tracker
    BY <1>0, <1>5 DEF Attempt, Go, Aborted, Getters
  <2> QED BY <1>0, <1>5, <2>1 DEF Attempt, FileAgrees, Prefixed
<1>6. CASE Save
  BY <1>0, <1>6, TagsAssumption DEF Save, Aborted, Go, Getters, FileAgrees, Prefixed
<1>7. Attempt => getter'.pc \in {"done", "raised", "open", "save"}
  BY <1>0 DEF Attempt, Aborted, Go, Getters
<1> QED BY <1>2, <1>3, <1>4, <1>5, <1>6, <1>7

\* Whatever had happened before, the file is now the beginning, of no length.
LEMMA TruncateAgrees ==
    DownloadInv /\ faults' = {} /\ Truncate => FileAgrees'
<1> SUFFICES ASSUME DownloadInv, faults' = {}, Truncate PROVE FileAgrees'
  OBVIOUS
<1> USE DEF At, Working
<1>1. /\ getter \in Getters /\ object' = object /\ tracker' = tracker
      /\ getter' = [getter EXCEPT !.pc = "open"]
      /\ file' = <<>> /\ Len(<<>>) = 0 /\ getter.key = object
  BY EmptySeq DEF DownloadInv, DownloadTyped, Truncate, Go, Emptied
<1>2. /\ getter'.pc = "open" /\ getter'.key = object /\ getter'.again = "no"
      /\ getter'.etag = getter'.key
  BY <1>1 DEF DownloadInv, GetterKnows, Truncate, Getters
<1>3. tracker \in Versions => Prefixed(tracker)'
  BY <1>1, SizesAreNat DEF Prefixed
<1>4. getter'.first = 0
  BY <1>1 DEF Truncate, DownloadInv, GetterKnows, Getters
<1> QED BY <1>1, <1>2, <1>3, <1>4 DEF FileAgrees

LEMMA OpenAgrees == DownloadInv /\ faults' = {} /\ Open => FileAgrees'
<1> SUFFICES ASSUME DownloadInv, faults' = {}, Open PROVE FileAgrees'
  OBVIOUS
<1> USE DEF At, Working
<1>1. /\ getter \in Getters /\ file \in Seq(Chunks) /\ object \in Versions
      /\ file' = file /\ object' = object /\ tracker' = tracker
      /\ getter.pc = "open" /\ faults = {} /\ FileAgrees
      /\ getter.resp \in {NoResponse, CutOff}
  <2>1. faults = {}
    BY DEF Open, Piped
  <2> QED BY <2>1 DEF DownloadInv, DownloadTyped, GetterKnows, Open
<1>2. /\ getter.key = object /\ getter.again = "no" /\ getter.etag = object
      /\ getter.first = Len(file)
  BY <1>1 DEF FileAgrees
<1>3. tracker \in Versions => Prefixed(tracker) /\ Prefixed(tracker)'
  BY <1>1 DEF FileAgrees, Prefixed
<1>4. CASE getter' = [getter EXCEPT !.pc = "read", !.key = object,
                                    !.resp = Body(object, Len(file) + 1, Size[object])]
  <2>1. PICK n \in Nat : n = Len(file)
    BY <1>1, LenProperties
  <2>2. /\ getter'.key = object /\ getter'.pc = "read" /\ getter'.etag = object
        /\ getter'.again = "no" /\ getter'.resp = Body(object, n + 1, Size[object])
    BY <1>1, <1>2, <1>4, <2>1 DEF Getters
  <2>3. Continues(getter.resp)'
    BY <1>1, <2>1, <2>2, SizesAreNat DEF Continues, Body, Bodies
  <2> QED BY <1>1, <1>3, <2>2, <2>3 DEF FileAgrees
<1>5. ASSUME NEW pc \in {"read", "raised", "failed"}, Go(pc),
             pc = "read" => getter.resp # NoResponse
      PROVE  FileAgrees'
  <2>1. /\ getter'.key = object /\ getter'.pc = pc /\ getter'.etag = object
        /\ getter'.again = "no" /\ getter'.resp = getter.resp
    BY <1>1, <1>2, <1>5 DEF Getters, Go
  <2> QED BY <1>1, <1>3, <1>5, <2>1 DEF FileAgrees
<1>6. ~Piped
  BY DEF Piped
<1> QED BY <1>2, <1>4, <1>5, <1>6 DEF Open, Retryable

LEMMA ChunkAgrees == DownloadInv /\ faults' = {} /\ Chunk => FileAgrees'
<1> SUFFICES ASSUME DownloadInv, faults' = {}, Chunk PROVE FileAgrees'
  OBVIOUS
<1> USE DEF At, Working
<1>1. /\ DownloadTyped /\ getter \in Getters /\ file \in Seq(Chunks)
      /\ object' = object /\ tracker' = tracker /\ FileAgrees /\ GetterKnows
      /\ getter.pc = "read"
  BY DEF DownloadInv, DownloadTyped, Chunk
<1>2. PICK r \in Bodies :
         /\ r = getter.resp /\ r.from <= r.to
         /\ file' = Append(file, <<r.version, r.from>>)
         /\ getter' = [getter EXCEPT !.resp = [r EXCEPT !.from = @ + 1]]
         /\ [r EXCEPT !.from = @ + 1] \in Bodies
  BY <1>1, ChunkTyped
<1>3. PICK n \in Nat : n = Len(file)
  BY <1>1, LenProperties
<1>4. /\ getter.key = object /\ getter.again = "no" /\ getter.etag = getter.key
      /\ object \in Versions
  BY <1>1 DEF FileAgrees, DownloadTyped
<1>5. r.version = object /\ r.from = n + 1 /\ r.to = Size[object]
  BY <1>1, <1>2, <1>3, <1>4, ResponseTypes DEF FileAgrees, Continues
<1>6. /\ getter'.pc = "read" /\ getter'.key = object /\ getter'.again = "no"
      /\ getter'.etag = object
      /\ getter'.resp = [r EXCEPT !.from = n + 1 + 1]
  BY <1>1, <1>2, <1>4, <1>5 DEF Getters
<1>7. /\ Len(file') = n + 1 /\ file'[n + 1] = <<object, n + 1>>
      /\ \A i \in 1..n : file'[i] = file[i]
  <2>1. <<object, n + 1>> \in Chunks
    BY <1>4 DEF Chunks
  <2> QED BY <1>1, <1>2, <1>3, <1>5, <2>1, AppendProperties
<1>8. Continues(getter.resp)'
  <2>1. PICK q \in Bodies : q = [r EXCEPT !.from = n + 1 + 1]
    BY <1>2, <1>5
  <2>2. q.version = object /\ q.from = n + 1 + 1 /\ q.to = Size[object]
    BY <1>5, <2>1 DEF Bodies
  <2> QED BY <1>6, <1>7, <2>1, <2>2 DEF Continues
<1>9. ASSUME tracker \in Versions PROVE Prefixed(tracker)'
  <2>1. Prefixed(tracker) /\ tracker = object
    BY <1>1, <1>4, <1>9, TagsAssumption DEF FileAgrees, GetterKnows
  <2>2. Len(file') <= Size[object]
    BY <1>2, <1>4, <1>5, <1>7, SizesAreNat
  <2>3. \A i \in 1..n + 1 : i = n + 1 \/ i \in 1..n
    BY <1>3
  <2>4. \A i \in 1..n + 1 : file'[i] = <<object, i>>
    BY <1>3, <1>7, <2>1, <2>3 DEF Prefixed
  <2> QED BY <1>1, <1>7, <2>1, <2>2, <2>4 DEF Prefixed
<1> QED BY <1>1, <1>6, <1>8, <1>9 DEF FileAgrees

LEMMA EndOfBodyAgrees == DownloadInv /\ faults' = {} /\ EndOfBody => FileAgrees'
<1> SUFFICES ASSUME DownloadInv, faults' = {}, EndOfBody PROVE FileAgrees'
  OBVIOUS
<1> USE DEF At, Working
<1>1. /\ getter \in Getters /\ file \in Seq(Chunks) /\ object' = object
      /\ object \in Versions /\ file' = file
      /\ getter.pc = "read" /\ GetterKnows
  BY DEF DownloadInv, DownloadTyped, EndOfBody
<1>2. faults = {} /\ FileAgrees
  BY DEF DownloadInv, EndOfBody
<1>3. /\ getter.key = object /\ getter.again = "no" /\ getter.etag = getter.key
      /\ getter.resp # CutOff /\ tracker \in {object}
  <2>1. getter.resp # CutOff
    BY ResponseTypes DEF EndOfBody
  <2> QED BY <1>1, <1>2, <2>1, TagsAssumption DEF FileAgrees, GetterKnows
<1>4. PICK r \in Bodies : r = getter.resp /\ Continues(r)
  BY <1>1, <1>2, <1>3 DEF FileAgrees, Continues
<1>5. ~(r.from <= r.to)
  BY <1>4, ResponseTypes DEF EndOfBody
<1>6. Len(file) = Size[object]
  <2>1. Prefixed(object)
    BY <1>1, <1>2, <1>3 DEF FileAgrees
  <2> QED BY <1>1, <1>3, <1>4, <1>5, <2>1, LenProperties, SizesAreNat
          DEF Continues, Prefixed
<1>7. file = Whole(object)
  BY <1>1, <1>2, <1>3, <1>6, PrefixedIsPrefix DEF FileAgrees
<1>8. getter'.pc = "done" /\ getter'.key = object /\ tracker' = NoTag
  BY <1>1, <1>3 DEF EndOfBody, Getters
<1>9. Whole(getter.key)' = Whole(object)
  BY <1>8 DEF Whole
<1> QED BY <1>1, <1>7, <1>8, <1>9, TagsAssumption DEF FileAgrees

LEMMA OthersAgree ==
    /\ DownloadInv /\ faults' = {}
    /\ ReadFails \/ Count \/ CloseKey \/ Overwrite \/ UNCHANGED downloadVars
    => FileAgrees'
<1> SUFFICES ASSUME DownloadInv, faults' = {},
                    ReadFails \/ Count \/ CloseKey \/ Overwrite
                    \/ UNCHANGED downloadVars
             PROVE  FileAgrees'
  OBVIOUS
<1> USE DEF At, Working
<1>1. /\ getter \in Getters /\ faults = {} /\ FileAgrees
      /\ file' = file /\ tracker' = tracker
  BY DEF DownloadInv, DownloadTyped, ReadFails, Count, CloseKey, Overwrite,
         downloadVars
<1>2. tracker \in Versions /\ getter.pc # "truncate" => Prefixed(tracker)'
  BY <1>1 DEF FileAgrees, Prefixed
<1>3. CASE ReadFails \/ Count \/ CloseKey
  <2>1. /\ getter.key = object /\ getter.again = "no" /\ object' = object
        /\ getter.pc # "truncate"
    BY <1>1, <1>3 DEF ReadFails, Count, CloseKey, FileAgrees
  <2>2. /\ getter'.pc \in {"failed", "raised", "close", "attempt"}
        /\ getter'.key = object /\ getter'.again = "no"
    BY <1>1, <1>3, <2>1 DEF ReadFails, Count, CloseKey, Go, Retryable, Getters
  <2> QED BY <1>1, <1>2, <2>1, <2>2 DEF FileAgrees
<1>4. CASE Overwrite
  <2>1. getter.pc \in {"down", "raised", "done"} /\ getter' = getter
    BY <1>4 DEF Overwrite
  <2>2. Whole(getter.key)' = Whole(getter.key)
    BY <2>1 DEF Whole
  <2> QED BY <1>1, <1>2, <2>1, <2>2 DEF FileAgrees
<1>5. CASE UNCHANGED downloadVars
  <2>1. /\ Whole(getter.key)' = Whole(getter.key)
        /\ Continues(getter.resp) => Continues(getter.resp)'
    BY <1>5 DEF downloadVars, Whole, Continues
  <2> QED BY <1>1, <1>2, <1>5, <2>1 DEF downloadVars, FileAgrees
<1> QED BY <1>3, <1>4, <1>5

LEMMA DownloadStepHolds ==
    DownloadInv /\ [DownloadNext]_downloadVars => DownloadInv'
<1>1. DownloadInv /\ [DownloadNext]_downloadVars /\ faults' = {} => FileAgrees'
  BY LaunchAgrees, AttemptAgrees, TruncateAgrees, OpenAgrees, ChunkAgrees,
     EndOfBodyAgrees, OthersAgree DEF DownloadNext, DownloadStep
<1> QED BY <1>1, DownloadTypes, KnowsKept DEF DownloadInv

\* Whatever is fetched in however many attempts and processes is, without one of
\* the faults named, the object as it was when the last began; and a tracker file
\* never misleads the next process (resumable_download_handler.py).
THEOREM Downloaded == DownloadSpec => []DownloadWhole
<1>1. DownloadInv => DownloadWhole
  <2> SUFFICES ASSUME DownloadInv, faults = {} , ~DownloadWhole PROVE FALSE
    BY DEF DownloadWhole
  <2>1. FileAgrees /\ file \in Seq(Chunks) /\ object \in Versions
    BY DEF DownloadInv, DownloadTyped
  <2> QED BY <2>1, PrefixedIsPrefix DEF FileAgrees, DownloadWhole, At
<1> QED BY <1>1, DownloadInitHolds, DownloadStepHolds, PTL DEF DownloadSpec

\* The parts of a download keep their types, whatever its constants are.
THEOREM DownloadTyping == DownloadSpec => []DownloadTypeOK
<1>1. DownloadInv => DownloadTypeOK
  BY DEF DownloadInv, DownloadTyped, DownloadTypeOK, Getters, DownloadPCs, Tags, Chunks
<1> QED BY <1>1, DownloadInitHolds, DownloadStepHolds, PTL DEF DownloadSpec

-----------------------------------------------------------------------------
(* Downloads come to their end.                                            *)

\* What a process knows of the sizes: it asks for more of a file that is shorter than
\* the version it goes on with, and the file has less than that version on top of
\* what has come of the response.
SizesKnown ==
    /\ At("open") =>
          /\ getter.etag = getter.key /\ Len(file) < Size[getter.key]
          /\ getter.first = IF getter.again = "yes" THEN 0 ELSE Len(file)
    /\ At("read") => getter.etag \in Versions
    /\ At("read") /\ getter.resp.kind = "body" =>
          /\ getter.resp.from \in 1..getter.resp.to + 1
          /\ getter.resp.to <= Size[getter.key]
          /\ Len(file) + 1 < Size[getter.etag] + getter.resp.from

DownloadSized == DownloadTyped /\ GetterKnows /\ SizesKnown

\* The chunks that the file may still be given: of the response at hand, and of those
\* to come.  A process that has the object's ETag in both places goes on with a file
\* that has at most two lengths of it; to come there it may have to open the key,
\* and to save the ETag.
Coming == IF At("read") /\ getter.resp.kind = "body"
          THEN getter.resp.to + 1 - getter.resp.from ELSE 0
Wanting == IF getter.pc \in {"save", "truncate"} THEN 2 * Size[object]
           ELSE IF Len(file) < 2 * Size[object] THEN 2 * Size[object] - Len(file) ELSE 0
Credit == CASE getter.key # object  -> 3 * Size[object] + 2 + Coming
            [] /\ getter.key = object
               /\ getter.etag # object -> 2 * Size[object] + 1 + Coming
            [] OTHER -> Wanting

\* The failures that may still be counted, and the steps of an attempt but for those
\* that bring a chunk.
FailuresLeft == IF getter.pc \notin {"close", "attempt"} /\ Progress THEN DRetries + 1
                ELSE DRetries - getter.tries
Stage == CASE getter.pc = "close"    -> 10
           [] getter.pc = "attempt"  -> 9
           [] getter.pc = "save"     -> 8
           [] getter.pc = "truncate" -> 7
           [] getter.pc = "open"     -> IF getter.again = "no" THEN 6 ELSE 5
           [] getter.pc = "read"     -> 4
           [] getter.pc = "failed"   -> 3
           [] OTHER -> 0

DownloadLeft == IF Working THEN Credit * (11 * DRetries + 22) + 11 * FailuresLeft + Stage
                ELSE 0

DownloadComesCloser ==
    /\ DownloadStep \/ DownloadKilled => DownloadLeft' < DownloadLeft
    /\ Launch => DownloadLeft' < (2 * Size[object] + 2) * (11 * DRetries + 22)
DownloadNumbered == DownloadLeft \in Nat

LEMMA FileLength == DownloadTyped => Len(file) \in Nat /\ (file = <<>> => Len(file) = 0)
  BY LenProperties DEF DownloadTyped

\* The field that a step changes, and those it leaves.
LEMMA GoFields ==
    ASSUME getter \in Getters, NEW pc \in DownloadPCs, Go(pc)
    PROVE  /\ getter'.pc = pc /\ getter'.etag = getter.etag /\ getter'.key = getter.key
           /\ getter'.resp = getter.resp /\ getter'.before = getter.before
           /\ getter'.first = getter.first /\ getter'.tries = getter.tries
           /\ getter'.again = getter.again
  BY DEF Getters, Go

LEMMA RespFields ==
    ASSUME getter \in Getters, NEW pc \in DownloadPCs, NEW resp,
           getter' = [getter EXCEPT !.pc = pc, !.resp = resp]
    PROVE  /\ getter'.pc = pc /\ getter'.etag = getter.etag /\ getter'.key = getter.key
           /\ getter'.resp = resp /\ getter'.before = getter.before
           /\ getter'.first = getter.first /\ getter'.tries = getter.tries
           /\ getter'.again = getter.again
  BY DEF Getters

LEMMA AttemptFields ==
    ASSUME DownloadSized, Attempt
    PROVE  /\ object' = object /\ file' = file /\ getter.pc = "attempt"
           /\ getter'.key = getter.key /\ getter'.etag = getter.etag
           /\ getter'.tries = getter.tries /\ getter'.again = "no"
           /\ \/ getter'.pc \in {"raised", "done"}
              \/ /\ getter'.pc = "open" /\ SameTag /\ Len(file) < Size[getter.key]
                 /\ getter'.before = Len(file) /\ getter'.first = Len(file)
              \/ /\ getter'.pc = "save" /\ (SameTag => Len(file) = 0)
                 /\ getter'.before = Len(file) /\ getter'.first = 0
<1>1. /\ getter \in Getters /\ getter.pc = "attempt" /\ getter.again = "no"
      /\ object' = object /\ file' = file
  BY DEF DownloadSized, DownloadTyped, GetterKnows, Attempt, At
<1>2. CASE Go("raised") \/ Go("done")
  BY <1>1, <1>2, GoFields DEF DownloadPCs
<1>3. CASE /\ SameTag /\ Len(file) < Size[getter.key]
           /\ getter' = [getter EXCEPT !.pc = "open", !.before = Len(file),
                                       !.first = Len(file)]
  BY <1>1, <1>3 DEF Getters
<1>4. CASE /\ ~(Len(file) > 0 /\ SameTag)
           /\ getter' = [getter EXCEPT !.pc = "save", !.before = Len(file), !.first = 0]
  <2>1. Len(file) \in Nat
    BY FileLength DEF DownloadSized
  <2> QED BY <1>1, <1>4, <2>1 DEF Getters
<1> QED BY <1>1, <1>2, <1>3, <1>4 DEF Attempt, Aborted

LEMMA OpenFields ==
    ASSUME DownloadSized, Open
    PROVE  /\ object' = object /\ file' = file /\ getter.pc = "open"
           /\ getter'.etag = getter.etag /\ getter'.before = getter.before
           /\ getter'.tries = getter.tries
           /\ \/ getter'.pc \in {"raised", "failed"} /\ getter'.key = getter.key
              \/ /\ getter'.pc = "read" /\ getter'.key = getter.key
                 /\ getter'.resp = CutOff
              \/ /\ getter'.pc = "open" /\ getter'.key = getter.key
                 /\ getter.again = "no" /\ getter'.again = "yes" /\ getter'.first = 0
              \/ /\ getter'.pc = "read" /\ getter'.key = object
                 /\ getter.first < Size[object]
                 /\ \E r \in Bodies :
                       /\ getter'.resp = r /\ r.from = getter.first + 1
                       /\ r.to = IF getter.first = 0 \/ Size[object] < Size[getter.key]
                                 THEN Size[object] ELSE Size[getter.key]
<1>1. /\ getter \in Getters /\ getter.pc = "open" /\ object \in Versions
      /\ getter.resp \in {NoResponse, CutOff} /\ object' = object /\ file' = file
  BY DEF DownloadSized, DownloadTyped, GetterKnows, Open, At
<1>2. PICK last \in Nat : last = IF getter.first = 0 \/ Size[object] < Size[getter.key]
                                 THEN Size[object] ELSE Size[getter.key]
  BY <1>1, SizesAreNat DEF Getters
<1>3. CASE Go("raised") \/ Go("failed")
  BY <1>1, <1>3, GoFields DEF DownloadPCs
<1>4. CASE getter.resp # NoResponse /\ Go("read")
  BY <1>1, <1>4, GoFields DEF DownloadPCs
<1>5. CASE Piped
  <2>1. /\ getter.again = "no"
        /\ getter' = [getter EXCEPT !.again = "yes", !.first = 0]
    BY <1>5 DEF Piped
  <2> QED BY <1>1, <2>1 DEF Getters
<1>6. CASE /\ getter.first < Size[object]
           /\ getter' = [getter EXCEPT !.pc = "read", !.key = object,
                                       !.resp = Body(object, getter.first + 1, last)]
  <2>1. PICK n \in Nat : n = getter.first + 1
    BY <1>1 DEF Getters
  <2>2. PICK r \in Bodies : r = Body(object, n, last) /\ r.from = n /\ r.to = last
    <3>1. Body(object, n, last) \in Bodies
      BY <1>1 DEF Body, Bodies
    <3>2. Body(object, n, last).from = n /\ Body(object, n, last).to = last
      BY DEF Body
    <3> QED BY <3>1, <3>2
  <2>3. getter' = [getter EXCEPT !.pc = "read", !.key = object, !.resp = r]
    BY <1>6, <2>1, <2>2
  <2>4. /\ getter'.pc = "read" /\ getter'.key = object /\ getter'.resp = r
        /\ getter'.etag = getter.etag /\ getter'.before = getter.before
        /\ getter'.tries = getter.tries
    BY <1>1, <2>3 DEF Getters
  <2> QED BY <1>1, <1>2, <1>6, <2>1, <2>2, <2>4
<1> QED BY <1>2, <1>3, <1>4, <1>5, <1>6 DEF Open, Retryable

LEMMA ChunkFields ==
    ASSUME DownloadSized, Chunk
    PROVE  /\ object' = object /\ getter.pc = "read" /\ getter'.pc = "read"
           /\ getter'.key = getter.key /\ getter'.etag = getter.etag
           /\ getter'.tries = getter.tries
           /\ Len(file') = Len(file) + 1
           /\ \E r, q \in Bodies : /\ r = getter.resp /\ q = getter'.resp
                                   /\ r.from <= r.to
                                   /\ q.from = r.from + 1 /\ q.to = r.to
<1>1. /\ getter \in Getters /\ getter.pc = "read" /\ object' = object
      /\ file \in Seq(Chunks) /\ DownloadTyped
  BY DEF DownloadSized, DownloadTyped, Chunk, At
<1>2. PICK r \in Bodies :
         /\ r = getter.resp /\ r.from <= r.to
         /\ file' = Append(file, <<r.version, r.from>>)
         /\ getter' = [getter EXCEPT !.resp = [r EXCEPT !.from = @ + 1]]
         /\ [r EXCEPT !.from = @ + 1] \in Bodies
  BY <1>1, ChunkTyped
<1>3. PICK q \in Bodies : q = [r EXCEPT !.from = r.from + 1]
  BY <1>2
<1>4. q.from = r.from + 1 /\ q.to = r.to
  BY <1>3 DEF Bodies
<1>5. getter' = [getter EXCEPT !.resp = q]
  BY <1>2, <1>3
<1>6. /\ getter'.pc = "read" /\ getter'.key = getter.key /\ getter'.etag = getter.etag
      /\ getter'.tries = getter.tries /\ getter'.resp = q
  BY <1>1, <1>5 DEF Getters
<1>7. Len(file') = Len(file) + 1
  <2>1. <<r.version, r.from>> \in Chunks
    BY DEF Bodies, Chunks
  <2> QED BY <1>1, <1>2, <2>1, AppendProperties
<1> QED BY <1>1, <1>2, <1>4, <1>6, <1>7

\* The end of a response, of an attempt and of the key that was open.
LEMMA EndFields ==
    ASSUME DownloadSized, EndOfBody \/ ReadFails \/ Count \/ CloseKey
    PROVE  /\ object' = object /\ file' = file
           /\ getter'.key = getter.key /\ getter'.etag = getter.etag
           /\ getter'.before = getter.before
           /\ \/ getter'.pc \in {"raised", "done"} /\ Working
              \/ /\ getter.pc = "read" /\ getter'.pc = "failed"
                 /\ getter'.tries = getter.tries
              \/ /\ getter.pc = "failed" /\ getter'.pc = "close"
                 /\ getter'.tries = IF Progress THEN 0 ELSE getter.tries + 1
                 /\ getter'.tries <= DRetries
              \/ /\ getter.pc = "close" /\ getter'.pc = "attempt"
                 /\ getter'.tries = getter.tries
<1> USE DEF At, Working
<1>1. getter \in Getters /\ object' = object /\ file' = file
  BY DEF DownloadSized, DownloadTyped, EndOfBody, ReadFails, Count, CloseKey
<1>2. CASE EndOfBody
  <2>1. PICK pc \in {"failed", "done"} :
           getter' = [getter EXCEPT !.pc = pc, !.resp = NoResponse]
    BY <1>2 DEF EndOfBody
  <2> QED BY <1>1, <1>2, <2>1, RespFields DEF EndOfBody, DownloadPCs
<1>3. CASE ReadFails
  <2>1. PICK pc \in {"failed", "raised"} : Go(pc)
    BY <1>3 DEF ReadFails, Retryable
  <2> QED BY <1>1, <1>3, <2>1, GoFields DEF ReadFails, DownloadPCs
<1>4. CASE Count
  <2>1. PICK tries : tries = IF Progress THEN 0 ELSE getter.tries + 1
    OBVIOUS
  <2>2. tries \in Nat
    BY <1>1, <2>1 DEF Getters
  <2>3. /\ getter.pc = "failed"
        /\ getter' = IF tries > DRetries
                     THEN [getter EXCEPT !.pc = "raised"]
                     ELSE [getter EXCEPT !.pc = "close", !.tries = tries, !.again = "no"]
    BY <1>4, <2>1 DEF Count, OutOfTries
  <2>4. CASE tries > DRetries
    BY <1>1, <2>3, <2>4 DEF Getters
  <2>5. CASE tries <= DRetries
    <3>1. getter' = [getter EXCEPT !.pc = "close", !.tries = tries, !.again = "no"]
      BY <2>2, <2>3, <2>5
    <3>2. /\ getter'.pc = "close" /\ getter'.tries = tries /\ getter'.key = getter.key
          /\ getter'.etag = getter.etag /\ getter'.before = getter.before
      BY <1>1, <3>1 DEF Getters
    <3> QED BY <1>1, <2>1, <2>3, <2>5, <3>2
  <2> QED BY <2>2, <2>4, <2>5
<1>5. CASE CloseKey
  <2>1. CASE Go("raised")
    BY <1>1, <1>5, <2>1, GoFields DEF CloseKey, DownloadPCs
  <2>2. CASE ~Go("raised")
    <3>1. PICK resp \in Responses : getter' = [getter EXCEPT !.pc = "attempt", !.resp = resp]
      BY <1>5, <2>2, ResponseTypes DEF CloseKey
    <3> QED BY <1>1, <1>5, <3>1, RespFields DEF CloseKey, DownloadPCs
  <2> QED BY <2>1, <2>2
<1> QED BY <1>2, <1>3, <1>4, <1>5

LEMMA SaveFields ==
    ASSUME DownloadSized, Save
    PROVE  /\ object' = object /\ file' = file /\ getter.pc = "save"
           /\ getter'.key = getter.key /\ getter'.before = getter.before
           /\ getter'.tries = getter.tries
           /\ \/ getter'.pc = "raised"
              \/ getter'.pc = "truncate" /\ getter'.etag = getter.key
<1>1. getter \in Getters /\ getter.pc = "save" /\ object' = object /\ file' = file
  BY DEF DownloadSized, DownloadTyped, Save, At
<1>2. CASE Go("raised")
  BY <1>1, <1>2, GoFields DEF DownloadPCs
<1>3. CASE getter' = [getter EXCEPT !.pc = "truncate", !.etag = getter.key]
  BY <1>1, <1>3 DEF Getters
<1> QED BY <1>2, <1>3 DEF Save, Aborted

LEMMA TruncateFields ==
    ASSUME DownloadSized, Truncate
    PROVE  /\ object' = object /\ Len(file') = 0
           /\ getter.pc = "truncate" /\ getter'.pc = "open"
           /\ getter'.key = getter.key /\ getter'.before = getter.before
           /\ getter'.tries = getter.tries /\ getter'.etag = getter.etag
           /\ getter'.etag = getter'.key /\ getter'.first = 0 /\ getter'.again = "no"
<1>1. /\ getter \in Getters /\ getter.pc = "truncate" /\ object' = object
      /\ file' = <<>> /\ Go("open") /\ getter.etag = getter.key
      /\ getter.first = 0 /\ getter.again = "no"
  BY DEF DownloadSized, DownloadTyped, GetterKnows, Truncate, At, Emptied
<1>2. Len(file') = 0
  BY <1>1
<1> QED BY <1>1, <1>2, GoFields DEF DownloadPCs

LEMMA LaunchFields ==
    ASSUME Launch
    PROVE  /\ object' = object /\ getter.pc \in {"down", "raised"}
           /\ getter'.pc = "attempt" /\ getter'.key = object /\ getter'.tries = 0
  BY DEF Launch, Down

LEMMA KilledFields ==
    ASSUME DownloadKilled PROVE Working /\ getter'.pc = "down"
  BY DEF DownloadKilled, Down, Working

LEMMA SizesFacts ==
    ASSUME DownloadSized
    PROVE  /\ Len(file) \in Nat /\ object \in Versions /\ getter.key \in Versions
           /\ Size[object] \in Nat /\ Size[object] > 0
           /\ Size[getter.key] \in Nat /\ Size[getter.key] > 0
           /\ getter.tries \in 0..DRetries /\ DRetries \in Nat
           /\ getter.before \in Nat /\ getter.first \in Nat
           /\ getter.pc \in DownloadPCs /\ getter.again \in {"no", "yes"}
  BY FileLength, SizesAreNat DEF DownloadSized, DownloadTyped, Getters

LEMMA SizedInit == DownloadInit => DownloadSized
<1> SUFFICES ASSUME DownloadInit PROVE DownloadSized
  OBVIOUS
<1>1. getter.pc = "down"
  BY DEF DownloadInit, Down
<1> QED BY <1>1, DownloadInitHolds DEF DownloadInv, DownloadSized, SizesKnown, At

LEMMA OpenSized == DownloadSized /\ Open => SizesKnown'
<1> SUFFICES ASSUME DownloadSized, Open PROVE SizesKnown'
  OBVIOUS
<1> USE DEF At
<1>1. /\ object' = object /\ file' = file /\ getter.pc = "open"
      /\ getter'.etag = getter.etag
      /\ \/ getter'.pc \in {"raised", "failed"}
         \/ getter'.pc = "read" /\ getter'.resp = CutOff
         \/ /\ getter'.pc = "open" /\ getter'.key = getter.key
            /\ getter'.again = "yes" /\ getter'.first = 0
         \/ /\ getter'.pc = "read" /\ getter'.key = object
            /\ getter.first < Size[object]
            /\ \E r \in Bodies :
                  /\ getter'.resp = r /\ r.from = getter.first + 1
                  /\ r.to = IF getter.first = 0 \/ Size[object] < Size[getter.key]
                            THEN Size[object] ELSE Size[getter.key]
  BY OpenFields
<1>2. /\ getter.etag = getter.key /\ Len(file) < Size[getter.key]
      /\ getter.first \in {0, Len(file)}
  BY <1>1 DEF DownloadSized, SizesKnown
<1>3. /\ Len(file) \in Nat /\ getter.key \in Versions /\ Size[getter.key] \in Nat
      /\ Size[object] \in Nat
  BY SizesFacts
<1>4. CASE getter'.pc \in {"raised", "failed"}
  BY <1>4 DEF SizesKnown
<1>5. CASE getter'.pc = "read" /\ getter'.resp = CutOff
  <2>1. getter'.resp.kind = "cut"
    BY <1>5, ResponseTypes
  <2> QED BY <1>1, <1>2, <1>3, <1>5, <2>1 DEF SizesKnown
<1>6. CASE /\ getter'.pc = "open" /\ getter'.key = getter.key
           /\ getter'.again = "yes" /\ getter'.first = 0
  BY <1>1, <1>2, <1>6 DEF SizesKnown
<1>7. ASSUME getter'.pc = "read", getter'.key = object, getter.first < Size[object],
             NEW r \in Bodies, getter'.resp = r, r.from = getter.first + 1,
             r.to = IF getter.first = 0 \/ Size[object] < Size[getter.key]
                    THEN Size[object] ELSE Size[getter.key]
      PROVE  SizesKnown'
  <2>1. r.from \in 1..r.to + 1 /\ r.to <= Size[object]
    BY <1>2, <1>3, <1>7
  <2>2. Len(file) + 1 < Size[getter.etag] + r.from
    BY <1>2, <1>3, <1>7
  <2> QED BY <1>1, <1>2, <1>3, <1>7, <2>1, <2>2 DEF SizesKnown
<1> QED BY <1>1, <1>4, <1>5, <1>6, <1>7

LEMMA ChunkSized == DownloadSized /\ Chunk => SizesKnown'
<1> SUFFICES ASSUME DownloadSized, Chunk PROVE SizesKnown'
  OBVIOUS
<1> USE DEF At
<1>1. PICK r, q \in Bodies : /\ r = getter.resp /\ q = getter'.resp /\ r.from <= r.to
                             /\ q.from = r.from + 1 /\ q.to = r.to
  BY ChunkFields
<1>2. /\ getter.pc = "read" /\ getter'.pc = "read" /\ Len(file') = Len(file) + 1
      /\ getter'.key = getter.key /\ getter'.etag = getter.etag
  BY ChunkFields
<1>3. r.from \in Nat /\ r.to \in Nat /\ r.kind = "body" /\ Len(file) \in Nat
  BY SizesFacts DEF Bodies
<1>4. /\ getter.etag \in Versions /\ r.from \in 1..r.to + 1 /\ r.to <= Size[getter.key]
      /\ Len(file) + 1 < Size[getter.etag] + r.from
  BY <1>1, <1>2, <1>3 DEF DownloadSized, SizesKnown
<1>5. Size[getter.etag] \in Nat
  BY <1>4, SizesAreNat
<1>6. /\ q.from \in 1..q.to + 1 /\ q.to <= Size[getter.key]
      /\ Len(file') + 1 < Size[getter.etag] + q.from
  <2>1. PICK a \in Nat, b \in Nat : a = r.from /\ b = r.to
    BY <1>3
  <2>2. a >= 1 /\ a <= b /\ q.from = a + 1 /\ q.to = b
    BY <1>1, <1>4, <2>1
  <2>3. q.from \in 1..q.to + 1
    BY <2>2
  <2>4. Len(file') + 1 < Size[getter.etag] + q.from
    BY <1>2, <1>3, <1>4, <1>5, <2>1, <2>2
  <2> QED BY <1>4, <2>1, <2>2, <2>3, <2>4
<1> QED BY <1>1, <1>2, <1>4, <1>6 DEF SizesKnown

LEMMA SizedKept == DownloadSized /\ [DownloadNext]_downloadVars => DownloadSized'
<1> SUFFICES ASSUME DownloadSized, [DownloadNext]_downloadVars PROVE DownloadSized'
  OBVIOUS
<1> USE DEF At
<1>0. DownloadTyped /\ GetterKnows /\ SizesKnown /\ DownloadTyped' /\ GetterKnows'
  BY DownloadTypes, KnowsKept DEF DownloadSized
<1>1. CASE Open \/ Chunk
  BY <1>1, OpenSized, ChunkSized, <1>0 DEF DownloadSized
<1>2. CASE Attempt
  <2>1. /\ file' = file /\ getter'.key = getter.key /\ getter'.etag = getter.etag
        /\ getter'.again = "no"
        /\ \/ getter'.pc \in {"raised", "done", "save"}
           \/ /\ getter'.pc = "open" /\ SameTag /\ Len(file) < Size[getter.key]
              /\ getter'.first = Len(file)
    BY <1>2, AttemptFields
  <2> QED BY <1>0, <2>1 DEF DownloadSized, SizesKnown, SameTag
<1>3. CASE Truncate
  <2>1. /\ getter'.pc = "open" /\ Len(file') = 0 /\ getter'.etag = getter'.key
        /\ getter'.again = "no" /\ getter'.first = 0
    BY <1>3, TruncateFields
  <2>2. Size[getter'.key] > 0
    BY <1>0, SizesAreNat DEF DownloadTyped, Getters
  <2> QED BY <1>0, <2>1, <2>2 DEF DownloadSized, SizesKnown
<1>4. CASE Save \/ EndOfBody \/ ReadFails \/ Count \/ CloseKey
  <2>1. getter'.pc \notin {"open", "read"}
    BY <1>4, SaveFields, EndFields
  <2> QED BY <1>0, <2>1 DEF DownloadSized, SizesKnown
<1>5. CASE Launch \/ DownloadKilled
  <2>1. getter'.pc \notin {"open", "read"}
    BY <1>5, LaunchFields, KilledFields
  <2> QED BY <1>0, <2>1 DEF DownloadSized, SizesKnown
<1>6. CASE Overwrite \/ UNCHANGED downloadVars
  <2>1. file' = file /\ getter' = getter
    BY <1>6 DEF Overwrite, downloadVars
  <2> QED BY <1>0, <2>1 DEF DownloadSized, SizesKnown
<1> QED BY <1>1, <1>2, <1>3, <1>4, <1>5, <1>6 DEF DownloadNext, DownloadStep

\* What is left, and each of its parts, is a number.
LeftTyped == /\ Coming \in Nat /\ Wanting \in Nat /\ Credit \in Nat
             /\ FailuresLeft \in 0..DRetries + 1
             /\ Stage \in 0..10
             /\ Working => Stage > 0
             /\ Size[object] \in Nat /\ Size[object] > 0

LEMMA LeftFacts == DownloadSized => LeftTyped
<1> SUFFICES ASSUME DownloadSized PROVE LeftTyped
  OBVIOUS
<1>1. /\ Len(file) \in Nat /\ Size[object] \in Nat /\ Size[object] > 0
      /\ getter.tries \in 0..DRetries /\ DRetries \in Nat
      /\ getter.pc \in DownloadPCs /\ getter.again \in {"no", "yes"}
  BY SizesFacts
<1>2. Coming \in Nat
  <2>1. CASE At("read") /\ getter.resp.kind = "body"
    <3>1. getter.resp \in Bodies
      BY <2>1, ResponseTypes DEF DownloadSized, DownloadTyped, Getters, Responses
    <3>2. getter.resp.from \in 1..getter.resp.to + 1 /\ getter.resp.to \in Nat
      BY <2>1, <3>1 DEF DownloadSized, SizesKnown, Bodies
    <3>3. getter.resp.to + 1 - getter.resp.from \in Nat
      BY <3>2
    <3> QED BY <2>1, <3>3 DEF Coming
  <2> QED BY <2>1 DEF Coming
<1>3. Wanting \in Nat
  BY <1>1 DEF Wanting
<1>4. Credit \in Nat
  <2>1. \/ Credit = 3 * Size[object] + 2 + Coming
        \/ Credit = 2 * Size[object] + 1 + Coming
        \/ Credit = Wanting
    BY Zenon DEF Credit
  <2> QED BY <1>1, <1>2, <1>3, <2>1
<1>5. FailuresLeft \in 0..DRetries + 1
  BY <1>1 DEF FailuresLeft
<1>6. Stage \in 0..10 /\ (Working => Stage > 0)
  BY <1>1 DEF Stage, Working, DownloadPCs
<1> QED BY <1>1, <1>2, <1>3, <1>4, <1>5, <1>6 DEF LeftTyped

LEMMA LeftNext == DownloadSized' => LeftTyped'
  BY LeftFacts, PTL

\* What a step of a process does: it ends, goes on in its attempt, has a failure
\* counted, or brings a chunk, or a new ETag.
GetterMoves ==
    /\ Working
    /\ \/ ~Working'
       \/ Credit' <= Credit /\ FailuresLeft' <= FailuresLeft /\ Stage' < Stage
       \/ Credit' <= Credit /\ FailuresLeft' < FailuresLeft
       \/ Credit' < Credit

LEMMA CreditKept ==
    ASSUME DownloadSized, object' = object,
           getter'.key = getter.key, getter'.etag = getter.etag, Coming' = 0,
           getter.key = object /\ getter.etag = object => Wanting' <= Wanting
    PROVE  Credit' <= Credit
<1>1. Coming \in Nat /\ Wanting \in Nat /\ Size[object] \in Nat
  BY LeftFacts DEF LeftTyped
<1>2. CASE getter.key # object
  <2>1. Credit = 3 * Size[object] + 2 + Coming /\ Credit' = 3 * Size[object] + 2 + 0
    BY <1>2 DEF Credit
  <2> QED BY <1>1, <2>1
<1>3. CASE getter.key = object /\ getter.etag # object
  <2>1. Credit = 2 * Size[object] + 1 + Coming /\ Credit' = 2 * Size[object] + 1 + 0
    BY <1>3 DEF Credit
  <2> QED BY <1>1, <2>1
<1>4. CASE getter.key = object /\ getter.etag = object
  <2>1. Credit = Wanting /\ Credit' = Wanting'
    BY <1>4 DEF Credit
  <2> QED BY <1>4, <2>1
<1> QED BY <1>2, <1>3, <1>4

LEMMA AttemptMoves == DownloadSized /\ Attempt => GetterMoves
<1> SUFFICES ASSUME DownloadSized, Attempt PROVE GetterMoves
  OBVIOUS
<1>1. /\ object' = object /\ file' = file /\ getter.pc = "attempt"
      /\ getter'.key = getter.key /\ getter'.etag = getter.etag
      /\ getter'.tries = getter.tries /\ getter'.again = "no"
      /\ \/ getter'.pc \in {"raised", "done"}
         \/ getter'.pc = "open" /\ getter'.before = Len(file)
         \/ /\ getter'.pc = "save" /\ (SameTag => Len(file) = 0)
            /\ getter'.before = Len(file)
  BY AttemptFields, Zenon
<1>2. CASE getter'.pc \in {"raised", "done"}
  BY <1>1, <1>2 DEF GetterMoves, Working
<1>3. CASE getter'.pc \in {"open", "save"}
  <2>0. /\ getter'.before = Len(file)
        /\ getter'.pc = "save" => (SameTag => Len(file) = 0)
    BY <1>1, <1>3
  <2>1. Coming = 0 /\ Coming' = 0
    BY <1>1, <1>3 DEF Coming, At
  <2>2. /\ Len(file) \in Nat /\ getter.tries \in 0..DRetries /\ DRetries \in Nat
        /\ Size[object] \in Nat /\ Size[object] > 0 /\ getter.key \in Versions
    BY SizesFacts
  <2>3. getter.key = object /\ getter.etag = object => Wanting' <= Wanting
    <3>1. getter.key = object /\ getter.etag = object => SameTag
      BY <2>2, TagsAssumption DEF SameTag
    <3> QED BY <1>1, <1>3, <2>0, <2>2, <3>1 DEF Wanting
  <2>4. Credit' <= Credit
    BY <1>1, <2>1, <2>3, CreditKept
  <2>5. ~Progress'
    BY <1>1, <2>0, <2>2 DEF Progress
  <2>6. FailuresLeft' = FailuresLeft /\ FailuresLeft \in Nat
    BY <1>1, <1>3, <2>2, <2>5 DEF FailuresLeft
  <2>7. Stage' < Stage
    BY <1>1, <1>3 DEF Stage
  <2> QED BY <1>1, <2>4, <2>6, <2>7 DEF GetterMoves, Working
<1> QED BY <1>1, <1>2, <1>3

LEMMA SaveMoves == DownloadSized /\ Save => GetterMoves
<1> SUFFICES ASSUME DownloadSized, Save PROVE GetterMoves
  OBVIOUS
<1>1. /\ object' = object /\ file' = file /\ getter.pc = "save"
      /\ getter'.key = getter.key /\ getter'.before = getter.before
      /\ getter'.tries = getter.tries
      /\ \/ getter'.pc = "raised"
         \/ getter'.pc = "truncate" /\ getter'.etag = getter.key
  BY SaveFields
<1>2. CASE getter'.pc = "raised"
  BY <1>1, <1>2 DEF GetterMoves, Working
<1>3. CASE getter'.pc = "truncate" /\ getter'.etag = getter.key
  <2>1. Coming = 0 /\ Coming' = 0 /\ Wanting' = 2 * Size[object]
    BY <1>1, <1>3 DEF Coming, Wanting, At
  <2>2. Size[object] \in Nat /\ Wanting = 2 * Size[object]
    BY <1>1, SizesFacts DEF Wanting
  <2>3. Credit' <= Credit
    BY <1>1, <1>3, <2>1, <2>2 DEF Credit
  <2>4. FailuresLeft' = FailuresLeft /\ FailuresLeft \in Nat
    <3>1. Progress' = Progress
      BY <1>1 DEF Progress
    <3> QED BY <1>1, <1>3, <3>1, LeftFacts DEF FailuresLeft, LeftTyped
  <2>5. Stage' < Stage
    BY <1>1, <1>3 DEF Stage
  <2> QED BY <1>1, <2>3, <2>4, <2>5 DEF GetterMoves, Working
<1> QED BY <1>1, <1>2, <1>3

LEMMA TruncateMoves == DownloadSized /\ Truncate => GetterMoves
<1> SUFFICES ASSUME DownloadSized, Truncate PROVE GetterMoves
  OBVIOUS
<1>1. /\ object' = object /\ Len(file') = 0
      /\ getter.pc = "truncate" /\ getter'.pc = "open"
      /\ getter'.key = getter.key /\ getter'.before = getter.before
      /\ getter'.tries = getter.tries /\ getter'.etag = getter.etag
      /\ getter'.again = "no"
  BY TruncateFields
<1>2. /\ Size[object] \in Nat /\ getter.before \in Nat /\ getter.tries \in 0..DRetries
      /\ DRetries \in Nat
  BY SizesFacts
<1>3. Coming = 0 /\ Coming' = 0 /\ Wanting' <= Wanting
  BY <1>1, <1>2 DEF Coming, Wanting, At
<1>4. Credit' <= Credit
  BY <1>1, <1>3, CreditKept
<1>5. ~Progress'
  BY <1>1, <1>2 DEF Progress
<1>6. FailuresLeft' <= FailuresLeft
  BY <1>1, <1>2, <1>5 DEF FailuresLeft
<1>7. Stage' < Stage
  BY <1>1 DEF Stage
<1> QED BY <1>1, <1>4, <1>6, <1>7 DEF GetterMoves, Working

LEMMA OpenMoves == DownloadSized /\ Open => GetterMoves
<1> SUFFICES ASSUME DownloadSized, Open PROVE GetterMoves
  OBVIOUS
<1>1. /\ object' = object /\ file' = file /\ getter.pc = "open"
      /\ getter'.etag = getter.etag /\ getter'.before = getter.before
      /\ getter'.tries = getter.tries /\ getter'.pc \in {"raised", "failed", "read", "open"}
  BY OpenFields
<1>2. /\ Size[object] \in Nat /\ LeftTyped /\ getter.etag = getter.key /\ Working
      /\ getter.first \in Nat /\ getter.key \in Versions
  BY <1>1, SizesFacts, LeftFacts DEF DownloadSized, SizesKnown, At, Working
<1>3. Coming = 0 /\ Wanting' = Wanting
  BY <1>1 DEF Coming, Wanting, At
<1>4. FailuresLeft' = FailuresLeft
  BY <1>1 DEF FailuresLeft, Progress
<1>5. CASE /\ getter'.key = getter.key
           /\ \/ getter'.pc \in {"raised", "failed"}
              \/ getter'.pc = "read" /\ getter'.resp = CutOff
              \/ getter'.pc = "open" /\ getter.again = "no" /\ getter'.again = "yes"
  <2>1. Coming' = 0
    BY <1>5, ResponseTypes DEF Coming, At
  <2>2. Credit' <= Credit
    BY <1>1, <1>2, <1>3, <1>5, <2>1, CreditKept DEF LeftTyped
  <2>3. Stage' < Stage
    BY <1>1, <1>5 DEF Stage
  <2> QED BY <1>2, <1>4, <2>2, <2>3 DEF GetterMoves, LeftTyped
<1>6. ASSUME getter'.pc = "read", getter'.key = object,
             NEW r \in Bodies, getter'.resp = r, r.from = getter.first + 1,
             r.to = IF getter.first = 0 \/ Size[object] < Size[getter.key]
                    THEN Size[object] ELSE Size[getter.key]
      PROVE  GetterMoves
  <2>1. r.to <= Size[object] /\ r.to \in Nat /\ r.from \in Nat /\ r.from > 0
    BY <1>2, <1>6, SizesAreNat DEF Bodies
  <2>2. Coming' <= Size[object]
    BY <1>2, <1>6, <2>1 DEF Coming, At
  <2>3. Coming' \in Int
    BY <1>6, <2>1 DEF Coming, At
  <2>4. CASE getter.key # object
    <3>1. Credit = 3 * Size[object] + 2
      BY <1>2, <1>3, <2>4 DEF Credit
    <3>2. Credit' = 2 * Size[object] + 1 + Coming'
      BY <1>1, <1>2, <1>6, <2>4 DEF Credit
    <3>3. Credit' < Credit
      BY <1>2, <2>2, <2>3, <3>1, <3>2
    <3> QED BY <1>2, <3>3 DEF GetterMoves
  <2>5. CASE getter.key = object
    <3>1. Credit' = Credit
      BY <1>1, <1>2, <1>3, <1>6, <2>5 DEF Credit
    <3>2. Stage' < Stage
      BY <1>1, <1>6 DEF Stage
    <3> QED BY <1>2, <1>4, <3>1, <3>2 DEF GetterMoves, LeftTyped
  <2> QED BY <2>4, <2>5
<1> QED BY <1>5, <1>6, OpenFields

LEMMA ChunkMoves == DownloadSized /\ Chunk => GetterMoves
<1> SUFFICES ASSUME DownloadSized, Chunk PROVE GetterMoves
  OBVIOUS
<1>1. PICK r, q \in Bodies : /\ r = getter.resp /\ q = getter'.resp /\ r.from <= r.to
                             /\ q.from = r.from + 1 /\ q.to = r.to
  BY ChunkFields
<1>2. /\ object' = object /\ getter.pc = "read" /\ getter'.pc = "read"
      /\ Len(file') = Len(file) + 1
      /\ getter'.key = getter.key /\ getter'.etag = getter.etag
  BY ChunkFields
<1>3. /\ Len(file) \in Nat /\ Size[object] \in Nat /\ LeftTyped /\ Working
      /\ r.from \in Nat /\ r.to \in Nat /\ r.kind = "body" /\ q.kind = "body"
  BY <1>2, SizesFacts, LeftFacts DEF Bodies, Working
<1>4. Coming = r.to + 1 - r.from /\ Coming' = r.to - r.from
  <2>1. Coming = r.to + 1 - r.from
    BY <1>1, <1>2, <1>3 DEF Coming, At
  <2>2. Coming' = q.to + 1 - q.from
    BY <1>1, <1>2, <1>3 DEF Coming, At
  <2>3. q.to + 1 - q.from = r.to - r.from
    BY <1>1, <1>3
  <2> QED BY <2>1, <2>2, <2>3
<1>5. CASE getter.key # object \/ getter.etag # object
  <2>1. PICK k \in Nat : Credit = k + Coming /\ Credit' = k + Coming'
    <3>1. CASE getter.key # object
      <4>1. /\ Credit = 3 * Size[object] + 2 + Coming
            /\ Credit' = 3 * Size[object] + 2 + Coming'
        BY <1>2, <3>1 DEF Credit
      <4> QED BY <1>3, <4>1
    <3>2. CASE getter.key = object
      <4>1. /\ Credit = 2 * Size[object] + 1 + Coming
            /\ Credit' = 2 * Size[object] + 1 + Coming'
        BY <1>2, <1>5, <3>2 DEF Credit
      <4> QED BY <1>3, <4>1
    <3> QED BY <3>1, <3>2
  <2>2. Credit' < Credit
    BY <1>3, <1>4, <2>1
  <2> QED BY <1>3, <2>2 DEF GetterMoves
<1>6. CASE getter.key = object /\ getter.etag = object
  <2>1. r.to <= Size[object] /\ Len(file) + 1 < Size[object] + r.from
    BY <1>1, <1>2, <1>3, <1>6 DEF DownloadSized, SizesKnown, At
  <2>2. Len(file) < 2 * Size[object]
    BY <1>1, <1>3, <2>1
  <2>3. Wanting' < Wanting
    BY <1>2, <1>3, <2>2 DEF Wanting
  <2> QED BY <1>2, <1>3, <1>6, <2>3 DEF Credit, GetterMoves
<1> QED BY <1>5, <1>6

LEMMA EndMoves ==
    DownloadSized /\ (EndOfBody \/ ReadFails \/ Count \/ CloseKey) => GetterMoves
<1> SUFFICES ASSUME DownloadSized, EndOfBody \/ ReadFails \/ Count \/ CloseKey
             PROVE  GetterMoves
  OBVIOUS
<1>1. /\ object' = object /\ file' = file
      /\ getter'.key = getter.key /\ getter'.etag = getter.etag
      /\ getter'.before = getter.before
      /\ \/ getter'.pc \in {"raised", "done"} /\ Working
         \/ /\ getter.pc = "read" /\ getter'.pc = "failed"
            /\ getter'.tries = getter.tries
         \/ /\ getter.pc = "failed" /\ getter'.pc = "close"
            /\ getter'.tries = IF Progress THEN 0 ELSE getter.tries + 1
            /\ getter'.tries <= DRetries
         \/ /\ getter.pc = "close" /\ getter'.pc = "attempt"
            /\ getter'.tries = getter.tries
  BY EndFields
<1>2. /\ LeftTyped /\ getter.tries \in 0..DRetries /\ DRetries \in Nat
  BY SizesFacts, LeftFacts
<1>3. CASE getter'.pc \in {"raised", "done"} /\ Working
  BY <1>3 DEF GetterMoves, Working
<1>4. CASE getter'.pc \in {"failed", "close", "attempt"}
  <2>1. Coming' = 0 /\ Wanting' = Wanting
    BY <1>1, <1>4 DEF Coming, Wanting, At
  <2>2. Credit' <= Credit
    BY <1>1, <1>2, <2>1, CreditKept DEF LeftTyped
  <2>3. Progress' = Progress
    BY <1>1 DEF Progress
  <2>4. CASE \/ getter.pc = "read" /\ getter'.pc = "failed"
             \/ getter.pc = "close" /\ getter'.pc = "attempt"
    <3>1. FailuresLeft' = FailuresLeft
      BY <1>1, <2>3, <2>4 DEF FailuresLeft
    <3>2. Stage' < Stage
      BY <2>4 DEF Stage
    <3>3. Working
      BY <2>4 DEF Working
    <3> QED BY <1>2, <2>2, <3>1, <3>2, <3>3 DEF GetterMoves, LeftTyped
  <2>5. CASE getter.pc = "failed" /\ getter'.pc = "close"
    <3>1. FailuresLeft' < FailuresLeft
      BY <1>1, <1>2, <2>5 DEF FailuresLeft
    <3> QED BY <2>2, <2>5, <3>1 DEF GetterMoves, Working
  <2> QED BY <1>1, <1>4, <2>4, <2>5
<1> QED BY <1>1, <1>3, <1>4

\* Numbers: a product that has a smaller factor.
LEMMA Paid ==
    ASSUME NEW c \in Nat, NEW d \in Nat, NEW m \in Nat
    PROVE  /\ c <= d => c * m <= d * m
           /\ c < d => c * m + m <= d * m
           /\ c * m \in Nat
<1>1. ASSUME c <= d PROVE c * m <= d * m
  <2>1. PICK e \in Nat : d = c + e
    <3>1. d - c \in Nat /\ d = c + (d - c)
      BY <1>1
    <3> QED BY <3>1
  <2>2. d * m = c * m + e * m /\ c * m \in Nat /\ e * m \in Nat
    BY <2>1
  <2> QED BY <2>2
<1>2. ASSUME c < d PROVE c * m + m <= d * m
  <2>1. PICK e \in Nat : d = c + 1 + e
    <3>1. d - c - 1 \in Nat /\ d = c + 1 + (d - c - 1)
      BY <1>2
    <3> QED BY <3>1
  <2>2. d * m = c * m + m + e * m /\ c * m \in Nat /\ e * m \in Nat
    BY <2>1
  <2> QED BY <2>2
<1>3. c * m \in Nat
  OBVIOUS
<1> QED BY <1>1, <1>2, <1>3

LEMMA Weighed ==
    ASSUME NEW x \in Nat, NEW y \in Nat, NEW f \in Nat, NEW ff \in Nat,
           NEW s \in Nat, NEW ss \in Nat, NEW d \in Nat,
           f <= d + 1, ff <= d + 1, s > 0, ss <= 10,
           \/ y <= x /\ ff <= f /\ ss < s
           \/ y <= x /\ ff < f
           \/ y + (11 * d + 22) <= x
    PROVE  y + 11 * ff + ss < x + 11 * f + s
  OBVIOUS

LEMMA GetterCloser ==
    DownloadSized /\ DownloadSized' /\ GetterMoves => DownloadLeft' < DownloadLeft
<1> SUFFICES ASSUME DownloadSized, DownloadSized', GetterMoves
             PROVE  DownloadLeft' < DownloadLeft
  OBVIOUS
<1>1. PICK m \in Nat : m = 11 * DRetries + 22
  BY DRetriesAssumption
<1>2. PICK c \in Nat, f \in Nat, s \in Nat :
         /\ c = Credit /\ f = FailuresLeft /\ s = Stage
         /\ f <= DRetries + 1 /\ s <= 10 /\ s > 0
  BY LeftFacts DEF LeftTyped, GetterMoves
<1>3. PICK cc \in Nat, ff \in Nat, ss \in Nat :
         /\ cc = Credit' /\ ff = FailuresLeft' /\ ss = Stage'
         /\ ff <= DRetries + 1 /\ ss <= 10
  BY LeftNext DEF LeftTyped
<1>4. PICK x \in Nat, y \in Nat :
         /\ x = c * m /\ y = cc * m
         /\ cc <= c => y <= x
         /\ cc < c => y + m <= x
  BY Paid
<1>5. DownloadLeft = x + 11 * f + s
  BY <1>1, <1>2, <1>4 DEF DownloadLeft, GetterMoves
<1>6. CASE ~Working'
  <2>1. DownloadLeft' = 0
    BY <1>6 DEF DownloadLeft
  <2> QED BY <1>2, <1>5, <2>1
<1>7. CASE Working'
  <2>1. DownloadLeft' = y + 11 * ff + ss
    BY <1>1, <1>3, <1>4, <1>7 DEF DownloadLeft
  <2>2. \/ cc <= c /\ ff <= f /\ ss < s
        \/ cc <= c /\ ff < f
        \/ cc < c
    BY <1>2, <1>3, <1>7 DEF GetterMoves
  <2>3. \/ y <= x /\ ff <= f /\ ss < s
        \/ y <= x /\ ff < f
        \/ y + (11 * DRetries + 22) <= x
    BY <1>1, <1>4, <2>2
  <2>4. y + 11 * ff + ss < x + 11 * f + s
    BY <1>2, <1>3, <2>3, Weighed, DRetriesAssumption
  <2> QED BY <1>5, <2>1, <2>4
<1> QED BY <1>6, <1>7

\* Each step of a process brings the download closer to its end, unless the object is
\* overwritten meanwhile: failures are counted until a chunk has come, and there are
\* only so many chunks that the process can go on to ask for, even when it begins
\* anew because of another ETag, or a broken pipe makes it fetch the object on top of
\* the file (get_file, _attempt_resumable_download).
THEOREM DownloadBounded ==
    DownloadSpec => [][DownloadComesCloser]_downloadVars /\ []DownloadNumbered
<1>1. DownloadSized => DownloadNumbered
  <2> SUFFICES ASSUME DownloadSized PROVE DownloadLeft \in Nat
    BY DEF DownloadNumbered
  <2>1. PICK c \in Nat, f \in Nat, s \in Nat :
           c = Credit /\ f = FailuresLeft /\ s = Stage
    BY LeftFacts, DRetriesAssumption DEF LeftTyped
  <2>2. 11 * DRetries + 22 \in Nat
    BY DRetriesAssumption
  <2>3. c * (11 * DRetries + 22) \in Nat
    BY <2>2, Paid
  <2> QED BY <2>1, <2>3 DEF DownloadLeft
<1>2. DownloadSized /\ [DownloadNext]_downloadVars => [DownloadComesCloser]_downloadVars
  <2> SUFFICES ASSUME DownloadSized, DownloadNext PROVE DownloadComesCloser
    BY DEF DownloadComesCloser
  <2>1. DownloadSized'
    BY SizedKept
  <2>2. ASSUME DownloadStep PROVE DownloadLeft' < DownloadLeft
    BY <2>1, <2>2, GetterCloser, AttemptMoves, SaveMoves, TruncateMoves, OpenMoves,
       ChunkMoves, EndMoves DEF DownloadStep
  <2>3. ASSUME DownloadKilled PROVE DownloadLeft' < DownloadLeft
    BY <2>1, <2>3, GetterCloser, KilledFields DEF GetterMoves, Working
  <2>4. ASSUME Launch
        PROVE  DownloadLeft' < (2 * Size[object] + 2) * (11 * DRetries + 22)
    <3>1. /\ object' = object /\ getter'.pc = "attempt" /\ getter'.key = object
          /\ getter'.tries = 0
      BY <2>4, LaunchFields
    <3>2. PICK m \in Nat : m = 11 * DRetries + 22
      BY DRetriesAssumption
    <3>3. PICK n \in Nat : n = Size[object]
      BY SizesFacts
    <3>4. PICK c \in Nat : c = Credit' /\ c <= 2 * n + 1
      <4>1. Credit' \in Nat /\ Len(file') \in Nat
        BY <2>1, LeftNext, FileLength DEF LeftTyped, DownloadSized
      <4>2. Coming' = 0 /\ Wanting' <= 2 * n
        BY <3>1, <3>3, <4>1 DEF Coming, Wanting, At
      <4>3. Credit' <= 2 * n + 1
        <5>1. Credit' = Wanting' \/ Credit' = 2 * n + 1 + Coming'
          BY <3>1, <3>3 DEF Credit
        <5>2. Wanting' \in Nat
          BY <2>1, LeftNext DEF LeftTyped
        <5> QED BY <4>2, <5>1, <5>2
      <4> QED BY <4>1, <4>3
    <3>5. FailuresLeft' = DRetries /\ Stage' = 9 /\ Working'
      BY <3>1, DRetriesAssumption DEF FailuresLeft, Stage, Working
    <3>6. DownloadLeft' = c * m + 11 * DRetries + 9
      BY <3>2, <3>4, <3>5 DEF DownloadLeft
    <3>7. c * m + m <= (2 * n + 2) * m /\ c * m \in Nat
      <4>1. 2 * n + 2 \in Nat /\ c < 2 * n + 2
        BY <3>4
      <4> QED BY <4>1, Paid
    <3>8. DownloadLeft' < (2 * n + 2) * m
      <4>1. PICK x \in Nat, y \in Nat : x = c * m /\ y = (2 * n + 2) * m /\ x + m <= y
        BY <3>7
      <4> QED BY <3>2, <3>6, <4>1, DRetriesAssumption
    <3> QED BY <3>2, <3>3, <3>8
  <2> QED BY <2>2, <2>3, <2>4 DEF DownloadComesCloser
<1> QED BY <1>1, <1>2, SizedInit, SizedKept, PTL DEF DownloadSpec

-----------------------------------------------------------------------------
(* The upload: bytes of the file.                                          *)

USE FileAssumption, BufferAssumption, UBoundsAssumption

Byte == Nat \X Nat

SessionRecords == [bytes : Seq(Byte), state : {"open", "complete", "gone"},
                   length : Nat]
UploadPCs == {"down", "attempt", "start", "save", "put", "body", "answer", "changed",
              "query", "failed", "delete", "raised", "done"}
Senders == [pc : UploadPCs, uri : Nat, length : Nat, pos : Nat, buf : Seq(Byte),
            sent : Nat, had : Nat, digest : Seq(Byte), saved : Seq(Byte), tries : 0..URetries]

UploadTyped ==
    /\ local \in [rev : 0..MaxEdits, len : FileSizes]
    /\ sessions \in Seq(SessionRecords) /\ Len(sessions) <= MaxSessions
    /\ sender \in Senders
    /\ uriFile \in 0..Len(sessions) /\ sender.uri \in 0..Len(sessions)
    /\ sender.pc \in {"save", "put", "body", "answer", "query", "changed", "delete"}
       => sender.uri # 0
    /\ troubles \subseteq {"onebyte", "startover", "edited"}

\* b is what the first n bytes of the file are.
Holds(b, n) == Len(b) = n /\ \A i \in 1..n : b[i] = <<local.rev, i>>

LEMMA LocalTypes == UploadTyped => local.rev \in Nat /\ local.len \in Nat
<1> SUFFICES ASSUME UploadTyped PROVE local.rev \in Nat /\ local.len \in Nat
  OBVIOUS
<1>1. local.rev \in 0..MaxEdits /\ local.len \in FileSizes
  BY DEF UploadTyped
<1>2. local.rev \in Nat
  BY <1>1, SMT
<1>3. local.len \in Nat
  BY <1>1, Zenon
<1> QED BY <1>2, <1>3

LEMMA BytesFacts ==
    ASSUME UploadTyped, NEW p \in Nat, NEW k \in Nat
    PROVE  \E b \in Seq(Byte) : /\ b = Bytes(p + 1, p + k)
                                /\ Len(b) = k
                                /\ \A i \in 1..k : b[i] = <<local.rev, p + i>>
<1>1. PICK b \in [1..k -> Byte] : b = [i \in 1..k |-> <<local.rev, p + i>>]
  <2>1. \A i \in 1..k : <<local.rev, p + i>> \in Byte
    BY LocalTypes DEF Byte
  <2> QED BY <2>1
<1>2. b = Bytes(p + 1, p + k)
  <2>1. p + k + 1 - (p + 1) = k
    OBVIOUS
  <2>2. \A i \in 1..k : p + 1 + i - 1 = p + i
    OBVIOUS
  <2> QED BY <1>1, <2>1, <2>2 DEF Bytes
<1>3. b \in Seq(Byte) /\ Len(b) = k
  BY FunctionIsSeq
<1> QED BY <1>1, <1>2, <1>3

\* What is read next, which is nothing only when fp stands at the end or beyond.
LEMMA ToReadFacts ==
    ASSUME UploadTyped
    PROVE  \E b \in Seq(Byte), k \in Nat :
              /\ b = ToRead /\ Len(b) = k /\ b = Bytes(sender.pos + 1, sender.pos + k)
              /\ sender.pos <= local.len => sender.pos + k <= local.len
              /\ b = <<>> <=> k = 0
              /\ k = 0 => sender.pos >= local.len
              /\ k # 0 => sender.pos + k <= local.len
<1>1. PICK p \in Nat, n \in Nat : p = sender.pos /\ n = local.len
  BY LocalTypes DEF UploadTyped, Senders
<1>2. PICK to \in Nat : to = Least(p + BufferSize, n) /\ to <= n
                        /\ (to = n \/ to = p + BufferSize)
  BY <1>1 DEF Least
<1>3. PICK k \in Nat : IF p <= to THEN to = p + k ELSE k = 0
  <2>1. CASE p <= to
    <3>1. PICK k \in Nat : k = to - p
      BY <2>1
    <3> QED BY <2>1, <3>1
  <2> QED BY <2>1
<1>4. ToRead = Bytes(p + 1, p + k)
  <2>1. 1..to + 1 - (p + 1) = 1..p + k + 1 - (p + 1)
    BY <1>3
  <2> QED BY <1>1, <1>2, <2>1 DEF ToRead, Bytes
<1>5. PICK b \in Seq(Byte) : b = Bytes(p + 1, p + k) /\ Len(b) = k
  BY BytesFacts, Zenon
<1>6. b = <<>> <=> k = 0
  BY <1>5, EmptySeq
<1>7. k = 0 => p >= n
  BY <1>2, <1>3
<1>8. (p <= n => p + k <= n) /\ (k # 0 => p + k <= n)
  BY <1>2, <1>3
<1> QED BY <1>1, <1>4, <1>5, <1>6, <1>7, <1>8, Zenon

LEMMA HoldsContent ==
    ASSUME UploadTyped, NEW b \in Seq(Byte), Holds(b, local.len)
    PROVE  b = Content
<1>1. PICK n \in Nat : n = local.len
  BY LocalTypes
<1>2. PICK c \in Seq(Byte) : /\ c = Bytes(0 + 1, 0 + n) /\ Len(c) = n
                             /\ \A i \in 1..n : c[i] = <<local.rev, 0 + i>>
  BY BytesFacts, Zenon
<1>3. c = Content /\ \A i \in 1..n : c[i] = <<local.rev, i>>
  BY <1>1, <1>2 DEF Content
<1> QED BY <1>1, <1>2, <1>3, SeqEqual DEF Holds

LEMMA HoldsNone == Holds(<<>>, 0)
  BY EmptySeq DEF Holds

\* What follows the first n bytes, up to m, makes them the first m.
LEMMA HoldsMore ==
    ASSUME UploadTyped, NEW n \in Nat, NEW m \in Nat, n <= m,
           NEW b \in Seq(Byte), Holds(b, n)
    PROVE  b \o Bytes(n + 1, m) \in Seq(Byte) /\ Holds(b \o Bytes(n + 1, m), m)
<1>1. PICK k \in Nat : k = m - n
  OBVIOUS
<1>2. PICK c \in Seq(Byte) : /\ c = Bytes(n + 1, m) /\ Len(c) = k
                             /\ \A i \in 1..k : c[i] = <<local.rev, n + i>>
  <2>1. n + k = m
    BY <1>1
  <2> QED BY <2>1, BytesFacts
<1>3. PICK d \in Seq(Byte) : /\ d = b \o c /\ Len(d) = n + k
                             /\ \A i \in 1..n + k :
                                   d[i] = IF i <= n THEN b[i] ELSE c[i - n]
  <2>1. Len(b) = n /\ Len(c) = k
    BY <1>2 DEF Holds
  <2>2. PICK d \in Seq(Byte) : d = b \o c
    BY ConcatProperties
  <2>3. /\ Len(b \o c) = Len(b) + Len(c)
        /\ \A i \in 1..Len(b) + Len(c) :
              (b \o c)[i] = IF i <= Len(b) THEN b[i] ELSE c[i - Len(b)]
    BY ConcatProperties
  <2> QED BY <2>1, <2>2, <2>3, Zenon
<1>4. \A i \in 1..m : d[i] = <<local.rev, i>>
  <2> SUFFICES ASSUME NEW i \in 1..m PROVE d[i] = <<local.rev, i>>
    OBVIOUS
  <2>1. CASE i <= n
    BY <1>1, <1>3, <2>1 DEF Holds
  <2>2. CASE ~(i <= n)
    <3>1. PICK j \in 1..k : j = i - n
      BY <1>1, <2>2
    <3>2. n + j = i
      BY <3>1
    <3>3. c[j] = <<local.rev, i>>
      BY <1>2, <3>2
    <3>4. i \in 1..n + k
      BY <1>1
    <3>5. d[i] = c[i - n]
      BY <1>3, <2>2, <3>4
    <3> QED BY <3>1, <3>3, <3>5, Zenon
  <2> QED BY <2>1, <2>2
<1>5. Len(d) = m
  BY <1>1, <1>3
<1>6. Holds(d, m) /\ d = b \o Bytes(n + 1, m)
  BY <1>2, <1>3, <1>4, <1>5, Zenon DEF Holds
<1> QED BY <1>6

LEMMA HoldsLess ==
    ASSUME UploadTyped, NEW n \in Nat, NEW b \in Seq(Byte), Holds(b, n),
           NEW k \in 0..n
    PROVE  SubSeq(b, 1, k) \in Seq(Byte) /\ Holds(SubSeq(b, 1, k), k)
<1>1. k \in 0..Len(b)
  BY DEF Holds
<1> QED BY <1>1, BeginningOf DEF Holds

LEMMA ReceivedTyped ==
    ASSUME NEW s \in SessionRecords, NEW new \in Seq(Byte)
    PROVE  /\ Received(s, new) \in SessionRecords
           /\ Received(s, new).length = s.length
<1>1. PICK k \in Int : k = Least(Len(new), s.length - Len(s.bytes)) /\ k <= Len(new)
  <2>1. s.length \in Nat /\ s.bytes \in Seq(Byte)
    BY DEF SessionRecords
  <2>2. Len(new) \in Nat /\ Len(s.bytes) \in Nat
    BY <2>1, LenProperties
  <2> QED BY <2>1, <2>2 DEF Least
<1>2. SubSeq(new, 1, k) \in Seq(Byte)
  <2>1. CASE k < 0
    BY <2>1, SubSeqEmpty, EmptySeq
  <2>2. CASE k >= 0
    <3>1. k \in 0..Len(new)
      BY <1>1, <2>2, LenProperties
    <3> QED BY <3>1, BeginningOf
  <2> QED BY <2>1, <2>2
<1>3. PICK bytes \in Seq(Byte) : bytes = s.bytes \o SubSeq(new, 1, k)
  BY <1>2, ConcatProperties DEF SessionRecords
<1>4. Received(s, new) =
        [s EXCEPT !.bytes = bytes,
                  !.state = IF Len(bytes) = s.length THEN "complete" ELSE "open"]
  BY <1>1, <1>3 DEF Received
<1> QED BY <1>4 DEF SessionRecords

\* When the service has the first p bytes and is sent those up to `to', it has
\* the first `to'.
LEMMA ReceivedHolds ==
    ASSUME UploadTyped, NEW s \in SessionRecords, s.length = local.len,
           NEW p \in Nat, NEW to \in Nat, p <= to, to <= local.len,
           Holds(s.bytes, p)
    PROVE  LET r == Received(s, Bytes(p + 1, to)) IN
           /\ r.bytes \in Seq(Byte) /\ Holds(r.bytes, to)
           /\ r.length = local.len
           /\ r.state = IF to = local.len THEN "complete" ELSE "open"
<1>1. PICK k \in Nat : k = to - p
  OBVIOUS
<1>2. PICK new \in Seq(Byte) : new = Bytes(p + 1, to) /\ Len(new) = k
  <2>1. p + k = to
    BY <1>1
  <2> QED BY <2>1, BytesFacts
<1>3. Least(Len(new), s.length - Len(s.bytes)) = k
  <2>1. PICK n \in Nat : n = local.len
    BY LocalTypes
  <2>2. Len(s.bytes) = p /\ s.length = n /\ Len(new) = k
    BY <1>2, <2>1 DEF Holds
  <2>3. k <= n - p
    BY <1>1, <2>1
  <2>4. (IF k < n - p THEN k ELSE n - p) = k
    BY <2>3
  <2> QED BY <2>2, <2>4, Zenon DEF Least
<1>4. SubSeq(new, 1, k) = new
  BY <1>2, SubSeqFull
<1>5. s.bytes \in Seq(Byte)
  BY DEF SessionRecords
<1>6. PICK bytes \in Seq(Byte) : bytes = s.bytes \o new /\ Holds(bytes, to)
  BY <1>2, <1>5, HoldsMore
<1>7. Received(s, new) =
        [s EXCEPT !.bytes = bytes,
                  !.state = IF Len(bytes) = s.length THEN "complete" ELSE "open"]
  BY <1>3, <1>4, <1>6 DEF Received
<1>8. Len(bytes) = to
  BY <1>6 DEF Holds
<1> QED BY <1>2, <1>6, <1>7, <1>8 DEF SessionRecords

-----------------------------------------------------------------------------
(* The upload: types.                                                      *)

LEMMA TurnTyped ==
    ASSUME sender \in Senders, NEW pc \in UploadPCs, Turn(pc)
    PROVE  /\ sender' \in Senders /\ sender'.pc = pc
           /\ sender'.uri = sender.uri /\ sender'.pos = sender.pos
           /\ sender'.sent = sender.sent /\ sender'.digest = sender.digest
           /\ sender'.saved = sender.saved /\ sender'.length = sender.length
           /\ sender'.buf = sender.buf
  BY DEF Senders, Turn

LEMMA DropTyped ==
    ASSUME sender \in Senders, NEW pc \in UploadPCs, Drop(pc)
    PROVE  /\ sender' \in Senders /\ sender'.pc = pc /\ sender'.buf = <<>>
           /\ sender'.uri = sender.uri /\ sender'.pos = sender.pos
           /\ sender'.saved = sender.saved /\ sender'.length = sender.length
           /\ sender'.tries = sender.tries
  BY EmptySeq DEF Senders, Drop

LEMMA GoneTyped == Gone \in Senders /\ Gone.pc = "down" /\ Gone.uri = 0
  BY EmptySeq DEF Gone, Senders, UploadPCs

LEMMA SessionTyped ==
    ASSUME UploadTyped, NEW u \in 1..Len(sessions)
    PROVE  /\ sessions[u] \in SessionRecords
           /\ Len(sessions[u].bytes) \in Nat /\ sessions[u].bytes \in Seq(Byte)
           /\ DOMAIN sessions = 1..Len(sessions) /\ Len(sessions) \in Nat
<1>1. sessions[u] \in SessionRecords
  BY ElementOfSeq DEF UploadTyped
<1>2. sessions[u].bytes \in Seq(Byte)
  BY <1>1 DEF SessionRecords
<1> QED BY <1>1, <1>2, LenProperties DEF UploadTyped

\* One session is changed.
LEMMA SessionSet ==
    ASSUME UploadTyped, NEW u \in 1..Len(sessions), NEW s \in SessionRecords,
           sessions' = [sessions EXCEPT ![u] = s]
    PROVE  /\ sessions' \in Seq(SessionRecords) /\ Len(sessions') = Len(sessions)
           /\ sessions'[u] = s
           /\ \A v \in 1..Len(sessions) : v # u => sessions'[v] = sessions[v]
  BY ExceptSeq DEF UploadTyped

LEMMA UploadInitTyped == UploadInit => UploadTyped
<1> SUFFICES ASSUME UploadInit PROVE UploadTyped
  OBVIOUS
<1>1. local \in [rev : 0..MaxEdits, len : FileSizes]
  BY DEF UploadInit
<1>2. sessions = <<>> /\ Len(sessions) = 0 /\ sessions \in Seq(SessionRecords)
  BY EmptySeq DEF UploadInit
<1> QED BY <1>1, <1>2, GoneTyped DEF UploadInit, UploadTyped

LEMMA BeginTyped == UploadTyped /\ Begin => UploadTyped'
<1> SUFFICES ASSUME UploadTyped, Begin PROVE UploadTyped'
  OBVIOUS
<1> USE DEF UploadTyped
<1>1. Len(sessions) \in Nat /\ local.len \in Nat
  BY LocalTypes, LenProperties
<1>2. \A uri \in Nat : [Gone EXCEPT !.pc = "attempt", !.uri = uri, !.length = local.len]
                         \in Senders
  BY <1>1, GoneTyped DEF Senders, UploadPCs
<1>3. PICK uri \in {uriFile, 0} :
         sender' = [Gone EXCEPT !.pc = "attempt", !.uri = uri, !.length = local.len]
  BY DEF Begin
<1>4. uri \in 0..Len(sessions) /\ uri \in Nat
  BY <1>1
<1>5. sender' \in Senders /\ sender'.pc = "attempt" /\ sender'.uri = uri
  BY <1>2, <1>3, <1>4 DEF Gone
<1> QED BY <1>4, <1>5 DEF Begin

LEMMA CaughtUpTyped ==
    ASSUME UploadTyped, NEW n \in Nat
    PROVE  CaughtUp(n) \in Seq(Byte)
<1>1. PICK k \in Nat : k = Least(n, local.len)
  BY LocalTypes DEF Least
<1>2. PICK b \in Seq(Byte) : b = Bytes(0 + 1, 0 + k)
  BY BytesFacts, Zenon
<1>3. CaughtUp(n) = sender.digest \o b /\ sender.digest \in Seq(Byte)
  <2>1. b = Bytes(1, k)
    BY <1>2
  <2> QED BY <1>1, <2>1 DEF CaughtUp, UploadTyped, Senders
<1> QED BY <1>2, <1>3, ConcatProperties

\* What an attempt at a session does to the sender; `r' is the sender with its
\* digests saved.
ResumeTo(s, n, had, r) ==
    \/ /\ s.state # "gone" /\ n # 1 /\ n <= local.len
       /\ sender' = [r EXCEPT !.pc = "put", !.pos = n, !.digest = CaughtUp(n)]
       /\ UNCHANGED <<uriFile, troubles>>
    \/ /\ sender' = [r EXCEPT !.pc = "put"]
       /\ UNCHANGED uriFile
       /\ troubles' = troubles \cup {"onebyte"}
    \/ /\ s.state # "gone" /\ n > local.len
       /\ sender' = [r EXCEPT !.pc = "start", !.pos = local.len, !.digest = CaughtUp(n)]
       /\ UNCHANGED <<uriFile, troubles>>
    \/ /\ s.state = "gone"
       /\ sender' = [r EXCEPT !.pc = "start", !.sent = 0]
       /\ UNCHANGED uriFile
       /\ troubles' = troubles \cup IF sender.pos = 0 THEN {} ELSE {"startover"}
    \/ Fails /\ UNCHANGED troubles

LEMMA ResumeShape ==
    ASSUME UploadTyped, Resume
    PROVE  /\ UNCHANGED <<local, sessions, stored>>
           /\ sender.pc = "attempt" /\ sender.uri \in 1..Len(sessions)
           /\ \E s \in SessionRecords, n, had \in Nat, r \in Senders :
                 /\ s = sessions[sender.uri] /\ had = Len(s.bytes)
                 /\ n = IF s.state = "complete" THEN sender.length ELSE had
                 /\ r = [sender EXCEPT !.saved = sender.digest, !.had = had, !.sent = n]
                 /\ ResumeTo(s, n, had, r)
<1>1. sender.uri \in 1..Len(sessions) /\ sender.pc = "attempt"
  BY LenProperties DEF UploadTyped, Resume, In
<1>2. PICK s \in SessionRecords, had \in Nat : s = sessions[sender.uri] /\ had = Len(s.bytes)
  BY <1>1, SessionTyped
<1>3. sender \in Senders
  BY DEF UploadTyped
<1>4. PICK n \in Nat : n = IF s.state = "complete" THEN sender.length ELSE had
  BY <1>3 DEF Senders
<1>5. PICK r \in Senders :
         r = [sender EXCEPT !.saved = sender.digest, !.had = had, !.sent = n]
  BY <1>3 DEF Senders
<1>6. ResumeTo(s, n, had, r)
  BY <1>2, <1>4, <1>5, Zenon DEF Resume, SoughtTo, ResumeTo
<1>7. UNCHANGED <<local, sessions, stored>>
  BY DEF Resume
<1> QED BY <1>1, <1>2, <1>4, <1>5, <1>6, <1>7, Zenon

\* What the service may have of the session that is sent to, and what it keeps.
Got == sessions[sender.uri].bytes \o sender.buf
Kept(s, k) == [s EXCEPT !.bytes = SubSeq(Got, 1, k)]

LEMMA KeepsFacts ==
    ASSUME UploadTyped, sender.uri # 0, KeepsSome
    PROVE  /\ sender.uri \in 1..Len(sessions) /\ Got \in Seq(Byte) /\ Len(Got) \in Nat
           /\ \/ sessions' = sessions
              \/ /\ sessions[sender.uri].state = "open"
                 /\ \E k \in 0..Len(Got) :
                       /\ Kept(sessions[sender.uri], k) \in SessionRecords
                       /\ sessions' = [sessions EXCEPT
                                         ![sender.uri] = Kept(sessions[sender.uri], k)]
<1>1. sender.uri \in 1..Len(sessions)
  BY LenProperties DEF UploadTyped
<1>2. PICK s \in SessionRecords : s = sessions[sender.uri] /\ s.bytes \in Seq(Byte)
  BY <1>1, SessionTyped
<1>3. PICK got \in Seq(Byte) : got = Got /\ Len(got) \in Nat
  <2>1. sender.buf \in Seq(Byte)
    BY DEF UploadTyped, Senders
  <2>2. s.bytes \o sender.buf \in Seq(Byte)
    BY <1>2, <2>1, ConcatProperties
  <2> QED BY <1>2, <2>2, LenProperties DEF Got
<1>4. PICK k \in sender.had..Len(got) :
         sessions' = IF s.state = "open" /\ k < s.length
                     THEN [sessions EXCEPT ![sender.uri].bytes = SubSeq(got, 1, k)]
                     ELSE sessions
  BY <1>2, <1>3 DEF KeepsSome, Got
<1>5. k \in 0..Len(got)
  <2>1. sender.had \in Nat
    BY DEF UploadTyped, Senders
  <2> QED BY <1>3, <2>1
<1>6. Kept(s, k) \in SessionRecords
  <2>1. SubSeq(got, 1, k) \in Seq(Byte)
    BY <1>3, <1>5, BeginningOf
  <2> QED BY <1>3, <2>1 DEF Kept, SessionRecords
<1>7. [sessions EXCEPT ![sender.uri].bytes = SubSeq(got, 1, k)]
        = [sessions EXCEPT ![sender.uri] = Kept(s, k)]
  BY <1>1, <1>2, <1>3, SessionTyped DEF Kept
<1> QED BY <1>1, <1>2, <1>3, <1>4, <1>5, <1>6, <1>7

LEMMA KeepsTyped ==
    ASSUME UploadTyped, sender.uri # 0, KeepsSome
    PROVE  sessions' \in Seq(SessionRecords) /\ Len(sessions') = Len(sessions)
  BY KeepsFacts, SessionSet DEF UploadTyped

LEMMA ResumeTyped == UploadTyped /\ Resume => UploadTyped'
<1> SUFFICES ASSUME UploadTyped, Resume PROVE UploadTyped'
  OBVIOUS
<1>1. /\ UNCHANGED <<local, sessions, stored>>
      /\ sender.pc = "attempt" /\ sender.uri \in 1..Len(sessions)
  BY ResumeShape
<1>2. PICK s \in SessionRecords, n \in Nat, had \in Nat, r \in Senders :
         /\ r = [sender EXCEPT !.saved = sender.digest, !.had = had, !.sent = n]
         /\ ResumeTo(s, n, had, r)
  BY ResumeShape
<1>3. r.uri = sender.uri /\ sender \in Senders
  BY <1>2 DEF UploadTyped, Senders
<1>4. CaughtUp(n) \in Seq(Byte) /\ local.len \in Nat
  BY CaughtUpTyped, LocalTypes
<1>5. /\ sender' \in Senders /\ sender'.uri = sender.uri
      /\ sender'.pc \in {"put", "start", "failed", "raised"}
  <2>1. \A q \in Senders :
           [r EXCEPT !.pc = "put", !.pos = n, !.digest = CaughtUp(n)] \in Senders
    BY <1>4 DEF Senders, UploadPCs
  <2>2. [r EXCEPT !.pc = "put"] \in Senders
    BY DEF Senders, UploadPCs
  <2>3. [r EXCEPT !.pc = "start", !.pos = local.len, !.digest = CaughtUp(n)] \in Senders
    BY <1>4 DEF Senders, UploadPCs
  <2>4. [r EXCEPT !.pc = "start", !.sent = 0] \in Senders
    BY DEF Senders, UploadPCs
  <2>5. CASE Fails
    BY <1>3, <2>5, TurnTyped DEF Fails, UploadPCs
  <2> QED BY <1>2, <1>3, <2>1, <2>2, <2>3, <2>4, <2>5 DEF ResumeTo, Senders
<1>6. uriFile' = uriFile /\ troubles' \subseteq {"onebyte", "startover", "edited"}
  BY <1>2 DEF ResumeTo, Fails, UploadTyped
<1> QED BY <1>1, <1>5, <1>6 DEF UploadTyped

LEMMA FreshTyped == UploadTyped /\ (Fresh \/ CountTry) => UploadTyped'
<1> SUFFICES ASSUME UploadTyped, Fresh \/ CountTry PROVE UploadTyped'
  OBVIOUS
<1> USE DEF UploadTyped
<1>1. sender' \in Senders /\ sender'.uri = sender.uri
  <2>1. CASE Fresh
    BY <2>1 DEF Fresh, Senders, UploadPCs
  <2>2. CASE CountTry
    <3>1. TriesLeft => sender.tries + 1 \in 0..URetries
      BY DEF TriesLeft, Senders
    <3> QED BY <2>2, <3>1 DEF CountTry, Counted, RolledBack, Senders, UploadPCs
  <2> QED BY <2>1, <2>2
<1>2. sender'.pc \in {"start", "attempt", "raised"}
  BY DEF Fresh, CountTry, Senders
<1> QED BY <1>1, <1>2 DEF Fresh, CountTry

\* A session is opened.
Opened == [bytes |-> <<>>, state |-> "open", length |-> sender.length]

LEMMA StartNewShape ==
    ASSUME UploadTyped, StartNew
    PROVE  /\ UNCHANGED <<local, stored, troubles>>
           /\ \/ /\ Opened \in SessionRecords /\ Len(sessions) < MaxSessions
                 /\ sessions' = Append(sessions, Opened)
                 /\ sender' = [sender EXCEPT !.pc = "save", !.uri = Len(sessions) + 1,
                                             !.had = 0]
                 /\ UNCHANGED uriFile
              \/ /\ UNCHANGED sessions /\ uriFile' \in {uriFile, 0}
                 /\ Turn("failed") \/ Turn("raised")
<1>1. Opened \in SessionRecords
  BY EmptySeq DEF UploadTyped, Senders, Opened, SessionRecords
<1> QED BY <1>1 DEF StartNew, Fails, Aborts, Opened

LEMMA StartNewTyped == UploadTyped /\ StartNew => UploadTyped'
<1> SUFFICES ASSUME UploadTyped, StartNew PROVE UploadTyped'
  OBVIOUS
<1>0. sender \in Senders /\ Len(sessions) \in Nat /\ uriFile \in 0..Len(sessions)
  BY LenProperties DEF UploadTyped
<1>1. CASE UNCHANGED sessions /\ uriFile' \in {uriFile, 0}
           /\ (Turn("failed") \/ Turn("raised"))
  <2>1. sender' \in Senders /\ sender'.uri = sender.uri /\ sender'.pc \in {"failed", "raised"}
    BY <1>0, <1>1, TurnTyped DEF UploadPCs
  <2>2. uriFile' \in 0..Len(sessions)
    BY <1>0, <1>1
  <2>3. UNCHANGED <<local, troubles>>
    BY StartNewShape
  <2> QED BY <1>1, <2>1, <2>2, <2>3 DEF UploadTyped
<1>2. CASE /\ Opened \in SessionRecords /\ Len(sessions) < MaxSessions
           /\ sessions' = Append(sessions, Opened)
           /\ sender' = [sender EXCEPT !.pc = "save", !.uri = Len(sessions) + 1,
                                       !.had = 0]
           /\ UNCHANGED uriFile
  <2>1. /\ sessions' \in Seq(SessionRecords) /\ Len(sessions') = Len(sessions) + 1
    BY <1>2, AppendProperties DEF UploadTyped
  <2>2. PICK m \in Nat : m = Len(sessions) + 1
    BY <1>0
  <2>3. sender' \in Senders /\ sender'.uri = m /\ sender'.pc = "save"
    BY <1>0, <1>2, <2>2 DEF Senders, UploadPCs
  <2>4. m <= MaxSessions /\ m \in 0..m /\ uriFile' \in 0..m /\ m # 0
    BY <1>0, <1>2, <2>2
  <2>5. UNCHANGED <<local, troubles>>
    BY StartNewShape
  <2> QED BY <2>1, <2>2, <2>3, <2>4, <2>5 DEF UploadTyped
<1> QED BY <1>1, <1>2, StartNewShape

\* What the service has after some bytes were sent to it.
LEMMA ReceiveTyped ==
    ASSUME UploadTyped, sender.uri # 0, NEW new \in Seq(Byte), Receive(new)
    PROVE  sessions' \in Seq(SessionRecords) /\ Len(sessions') = Len(sessions)
<1>1. PICK u \in 1..Len(sessions) : u = sender.uri
  BY LenProperties DEF UploadTyped
<1>2. PICK s \in SessionRecords : s = sessions[u]
  BY SessionTyped
<1>3. sessions' = sessions \/ sessions' = [sessions EXCEPT ![u] = Received(s, new)]
  BY <1>1, <1>2 DEF Receive
<1> QED BY <1>3, ReceivedTyped, SessionSet DEF UploadTyped

LEMMA SendTyped == UploadTyped /\ (FirstRead \/ Send \/ Sent) => UploadTyped'
<1> SUFFICES ASSUME UploadTyped, FirstRead \/ Send \/ Sent PROVE UploadTyped'
  OBVIOUS
<1>1. sender \in Senders /\ sender.uri # 0 /\ UNCHANGED <<local, uriFile, troubles>>
  BY DEF UploadTyped, FirstRead, Send, Sent, In
<1>2. PICK new \in Seq(Byte), k \in Nat : new = ToRead /\ Len(new) = k
  BY ToReadFacts
<1>3. PICK pos \in Nat : pos = sender.pos + k
  BY <1>1 DEF Senders
<1>4. CASE FirstRead
  <2>1. sender' = [sender EXCEPT !.pc = "body", !.buf = new, !.pos = pos]
    BY <1>2, <1>3, <1>4 DEF FirstRead
  <2>2. sender' \in Senders /\ sender'.pc = "body" /\ sender'.uri = sender.uri
    BY <1>1, <2>1 DEF Senders, UploadPCs
  <2> QED BY <1>1, <1>4, <2>2 DEF FirstRead, UploadTyped
<1>5. CASE Send
  <2>1. PICK old \in Seq(Byte), n \in Nat : old = sender.buf /\ Len(old) = n
    BY <1>1, LenProperties DEF Senders
  <2>2. PICK sent \in Nat : sent = sender.sent + n
    BY <1>1 DEF Senders
  <2>3. PICK digest \in Seq(Byte) : digest = sender.digest \o old
    BY <1>1, ConcatProperties DEF Senders
  <2>4. sender' = [sender EXCEPT !.sent = sent, !.digest = digest,
                                 !.buf = new, !.pos = pos]
    BY <1>2, <1>3, <1>5, <2>1, <2>2, <2>3 DEF Send
  <2>5. sender' \in Senders /\ sender'.pc = sender.pc /\ sender'.uri = sender.uri
    BY <1>1, <2>4 DEF Senders
  <2>6. sessions' \in Seq(SessionRecords) /\ Len(sessions') = Len(sessions)
    BY <1>1, <1>5, <2>1, ReceiveTyped DEF Send
  <2> QED BY <1>1, <2>5, <2>6 DEF UploadTyped
<1>6. CASE Sent
  <2>1. PICK pc \in {"answer", "changed"} : Turn(pc)
    BY <1>6 DEF Sent
  <2>2. sender' \in Senders /\ sender'.pc = pc /\ sender'.uri = sender.uri
    BY <1>1, <2>1, TurnTyped DEF UploadPCs
  <2>3. sessions' \in Seq(SessionRecords) /\ Len(sessions') = Len(sessions)
    BY <1>1, <1>6, EmptySeq, ReceiveTyped DEF Sent
  <2> QED BY <1>1, <2>2, <2>3 DEF UploadTyped
<1> QED BY <1>4, <1>5, <1>6

LEMMA AnswerTyped ==
    UploadTyped /\ (SaveUri \/ Queried \/ Accepted \/ Delete) => UploadTyped'
<1> SUFFICES ASSUME UploadTyped, SaveUri \/ Queried \/ Accepted \/ Delete
             PROVE  UploadTyped'
  OBVIOUS
<1> USE DEF UploadTyped
<1>1. PICK pc \in {"put", "done", "delete", "failed", "raised"} :
         /\ Turn(pc)
         /\ pc \in {"put", "delete"} => sender.uri # 0
  BY DEF SaveUri, Queried, Accepted, Delete, Aborts, Fails, In
<1>2. /\ sender' \in Senders /\ sender'.uri = sender.uri /\ sender'.pc = pc
      /\ pc \in UploadPCs
  BY <1>1, TurnTyped DEF UploadPCs
<1>3. uriFile' \in 0..Len(sessions)
  BY LenProperties DEF SaveUri, Queried, Accepted, Delete, Aborts, Fails
<1> QED BY <1>1, <1>2, <1>3 DEF SaveUri, Queried, Accepted, Delete

LEMMA BrokenTyped == UploadTyped /\ Broken => UploadTyped'
<1> SUFFICES ASSUME UploadTyped, Broken PROVE UploadTyped'
  OBVIOUS
<1>1. sender.uri # 0 /\ KeepsSome
  BY DEF Broken, UploadTyped
<1>2. sessions' \in Seq(SessionRecords) /\ Len(sessions') = Len(sessions)
  BY <1>1, KeepsTyped
<1>3. PICK pc \in {"failed", "query"} : Drop(pc)
  BY DEF Broken
<1>4. sender' \in Senders /\ sender'.uri = sender.uri /\ sender'.pc = pc
  BY <1>3, DropTyped DEF UploadTyped, UploadPCs
<1> QED BY <1>1, <1>2, <1>4 DEF Broken, UploadTyped

LEMMA KilledTyped == UploadTyped /\ UploadKilled => UploadTyped'
<1> SUFFICES ASSUME UploadTyped, UploadKilled PROVE UploadTyped'
  OBVIOUS
<1>1. sessions' \in Seq(SessionRecords) /\ Len(sessions') = Len(sessions)
  <2>1. CASE sender.pc \in {"put", "body"} /\ KeepsSome
    BY <2>1, KeepsTyped DEF UploadTyped
  <2>2. CASE UNCHANGED sessions
    BY <2>2 DEF UploadTyped
  <2> QED BY <2>1, <2>2 DEF UploadKilled
<1>2. Len(sessions) \in Nat /\ uriFile' \in 0..Len(sessions)
  BY LenProperties DEF UploadKilled, UploadTyped
<1> QED BY <1>1, <1>2, GoneTyped DEF UploadKilled, UploadTyped

LEMMA WorldTyped == UploadTyped /\ (Expire \/ Edit \/ UNCHANGED uploadVars) => UploadTyped'
<1> SUFFICES ASSUME UploadTyped, Expire \/ Edit \/ UNCHANGED uploadVars
             PROVE  UploadTyped'
  OBVIOUS
<1>1. CASE Expire
  <2>1. PICK u \in DOMAIN sessions :
           sessions' = [sessions EXCEPT ![u] = [@ EXCEPT !.state = "gone"]]
    BY <1>1 DEF Expire
  <2>2. u \in 1..Len(sessions)
    BY LenProperties DEF UploadTyped
  <2>3. PICK s : s = [sessions[u] EXCEPT !.state = "gone"]
    OBVIOUS
  <2>4. s \in SessionRecords /\ sessions' = [sessions EXCEPT ![u] = s]
    BY <2>1, <2>2, <2>3, SessionTyped DEF SessionRecords
  <2>5. sessions' \in Seq(SessionRecords) /\ Len(sessions') = Len(sessions)
    BY <2>2, <2>4, SessionSet
  <2> QED BY <1>1, <2>5 DEF Expire, UploadTyped
<1>2. CASE Edit
  <2>1. local' \in [rev : 0..MaxEdits, len : FileSizes]
    <3>1. local.rev \in 0..MaxEdits /\ local.rev < MaxEdits
      BY <1>2 DEF Edit, UploadTyped
    <3>2. local.rev + 1 \in 0..MaxEdits
      BY <3>1
    <3> QED BY <1>2, <3>2 DEF Edit
  <2> QED BY <1>2, <2>1 DEF Edit, UploadTyped
<1>3. CASE UNCHANGED uploadVars
  BY <1>3 DEF uploadVars, UploadTyped
<1> QED BY <1>1, <1>2, <1>3

LEMMA UploadTypes == UploadTyped /\ [UploadNext]_uploadVars => UploadTyped'
  BY BeginTyped, ResumeTyped, FreshTyped, StartNewTyped, SendTyped, AnswerTyped,
     BrokenTyped, KilledTyped, WorldTyped DEF UploadNext, UploadStep, Begin

-----------------------------------------------------------------------------
(* The upload: what sessions and sender have.                              *)

\* What the service has of a session, the sender kept up with.
SessionAgrees(s) ==
    /\ s.length = local.len
    /\ Len(s.bytes) <= local.len /\ Holds(s.bytes, Len(s.bytes))
    /\ s.state = "complete" => Len(s.bytes) = local.len /\ stored = Content

SessionsAgree == /\ stored \in {Nothing, Content}
                 /\ \A u \in 1..Len(sessions) : SessionAgrees(sessions[u])

SenderAgrees ==
    /\ sender.saved = <<>>
    /\ sender.pc \notin {"down", "raised", "done"} => sender.length = local.len
    /\ sender.pc \in {"attempt", "start", "save"} => sender.digest = <<>>
    /\ sender.pc \in {"start", "save"} => sender.sent = 0
    /\ sender.pc \in {"start", "save"} \/ sender.uri = 0 => sender.pos = 0
    /\ sender.pc # "body" => sender.buf = <<>>
    /\ sender.pc \in {"put", "body", "answer"} => /\ sender.sent <= sender.pos
                                                  /\ sender.pos <= local.len
                                                  /\ Holds(sender.digest, sender.sent)
    /\ In("put") => sender.sent = sender.pos
    /\ In("body") => /\ sender.buf = Bytes(sender.sent + 1, sender.pos)
                     /\ sender.buf = <<>> => sender.sent = local.len
    /\ In("answer") => sender.sent = local.len
    /\ In("done") => stored = Content
    /\ sender.pc \notin {"changed", "delete"}

\* A session that is saved is new; the one that is sent to has what was sent.
KeepsUp ==
    LET s == sessions[sender.uri] IN
    /\ In("save") => s.state # "complete" /\ (s.state = "open" => s.bytes = <<>>)
    /\ sender.pc \in {"put", "body"} /\ s.state # "gone" => Len(s.bytes) = sender.sent

UploadAgrees == SessionsAgree /\ SenderAgrees /\ KeepsUp

UploadInv == UploadTyped /\ (troubles = {} => UploadAgrees)

LEMMA SessionsKept ==
    ASSUME SessionsAgree, UNCHANGED <<local, sessions, stored>>
    PROVE  SessionsAgree'
<1>1. Content' = Content
  BY DEF Content, Bytes
<1> QED BY <1>1 DEF SessionsAgree, SessionAgrees, Holds

\* The sender goes where nothing is asked of what it has read.
LEMMA TurnAgrees ==
    ASSUME UploadTyped, SenderAgrees, UNCHANGED local,
           NEW pc \in {"failed", "raised", "query"},
           (Turn(pc) /\ sender.pc # "body") \/ Drop(pc),
           sender.pc \notin {"raised", "done", "down"}
    PROVE  SenderAgrees' /\ KeepsUp'
<1>1. sender \in Senders /\ pc \in UploadPCs
  BY DEF UploadTyped, UploadPCs
<1>2. /\ sender'.pc = pc /\ sender'.uri = sender.uri /\ sender'.pos = sender.pos
      /\ sender'.saved = sender.saved /\ sender'.length = sender.length
      /\ sender'.buf = <<>>
  BY <1>1, TurnTyped, DropTyped DEF SenderAgrees
<1> QED BY <1>2 DEF SenderAgrees, KeepsUp, In

LEMMA UploadInitAgrees == UploadInit => UploadInv
<1> SUFFICES ASSUME UploadInit PROVE UploadInv
  OBVIOUS
<1>1. sessions = <<>> /\ Len(sessions) = 0
  BY EmptySeq DEF UploadInit
<1>2. SessionsAgree
  BY <1>1 DEF UploadInit, SessionsAgree
<1>3. SenderAgrees /\ KeepsUp
  BY DEF UploadInit, Gone, SenderAgrees, KeepsUp, In
<1> QED BY <1>2, <1>3, UploadInitTyped DEF UploadInv, UploadAgrees

LEMMA BeginAgrees == UploadTyped /\ UploadAgrees /\ Begin => UploadAgrees'
<1> SUFFICES ASSUME UploadTyped, UploadAgrees, Begin PROVE UploadAgrees'
  OBVIOUS
<1>1. SessionsAgree'
  BY SessionsKept DEF Begin, UploadAgrees
<1>2. SenderAgrees' /\ KeepsUp'
  BY DEF Begin, Gone, SenderAgrees, KeepsUp, In
<1> QED BY <1>1, <1>2 DEF UploadAgrees

LEMMA CaughtUpHolds ==
    ASSUME UploadTyped, sender.digest = <<>>, NEW n \in Nat, n <= local.len
    PROVE  Holds(CaughtUp(n), n)
<1>1. Least(n, local.len) = n /\ 0 <= n
  BY LocalTypes DEF Least
<1>2. <<>> \in Seq(Byte)
  BY EmptySeq
<1>3. Holds(<<>> \o Bytes(0 + 1, n), n)
  BY <1>1, <1>2, HoldsNone, HoldsMore
<1>4. CaughtUp(n) = <<>> \o Bytes(0 + 1, n)
  BY <1>1 DEF CaughtUp
<1> QED BY <1>3, <1>4

LEMMA ResumeAgrees ==
    UploadTyped /\ UploadAgrees /\ Resume /\ troubles' = {} => UploadAgrees'
<1> SUFFICES ASSUME UploadTyped, UploadAgrees, Resume, troubles' = {}
             PROVE  UploadAgrees'
  OBVIOUS
<1>1. /\ UNCHANGED <<local, sessions, stored>>
      /\ sender.pc = "attempt" /\ sender.uri \in 1..Len(sessions)
  BY ResumeShape
<1>2. PICK s \in SessionRecords, n \in Nat, had \in Nat, r \in Senders :
         /\ s = sessions[sender.uri] /\ had = Len(s.bytes)
         /\ n = IF s.state = "complete" THEN sender.length ELSE had
         /\ r = [sender EXCEPT !.saved = sender.digest, !.had = had, !.sent = n]
         /\ ResumeTo(s, n, had, r)
  BY ResumeShape
<1>3. SessionsAgree'
  BY <1>1, SessionsKept DEF UploadAgrees
<1>4. n = had /\ n <= local.len
  BY <1>1, <1>2 DEF UploadAgrees, SessionsAgree, SessionAgrees, SenderAgrees
<1>5. sender.digest = <<>> /\ sender.length = local.len /\ sender.saved = <<>>
  BY <1>1 DEF UploadAgrees, SenderAgrees
<1>6. Holds(CaughtUp(n), n)
  BY <1>4, <1>5, CaughtUpHolds
<1>7. /\ r.uri = sender.uri /\ r.saved = <<>> /\ r.digest = <<>> /\ r.sent = n
      /\ r.length = local.len /\ r.pos = sender.pos /\ sender.uri # 0 /\ r.buf = <<>>
  BY <1>1, <1>2, <1>5 DEF UploadTyped, Senders, UploadAgrees, SenderAgrees
<1>8. CASE sender' = [r EXCEPT !.pc = "put", !.pos = n, !.digest = CaughtUp(n)]
  <2>1. /\ sender'.pc = "put" /\ sender'.pos = n /\ sender'.digest = CaughtUp(n)
        /\ sender'.sent = n /\ sender'.saved = <<>> /\ sender'.length = local.len
        /\ sender'.uri = sender.uri /\ sender'.buf = <<>>
    BY <1>7, <1>8 DEF Senders
  <2>2. Holds(sender.digest, n)'
    BY <1>1, <1>6, <2>1 DEF Holds
  <2> QED BY <1>1, <1>2, <1>3, <1>4, <1>7, <2>1, <2>2
          DEF UploadAgrees, SenderAgrees, KeepsUp, In
<1>9. CASE sender' = [r EXCEPT !.pc = "start", !.sent = 0] /\ sender.pos = 0
  <2>1. /\ sender'.pc = "start" /\ sender'.pos = 0 /\ sender'.digest = <<>>
        /\ sender'.sent = 0 /\ sender'.saved = <<>> /\ sender'.length = local.len
        /\ sender'.buf = <<>>
    BY <1>7, <1>9 DEF Senders
  <2> QED BY <1>1, <1>3, <2>1 DEF UploadAgrees, SenderAgrees, KeepsUp, In
<1>10. CASE Fails
  <2>1. PICK pc \in {"failed", "raised"} : Turn(pc)
    BY <1>10 DEF Fails
  <2> QED BY <1>1, <1>3, <2>1, TurnAgrees DEF UploadAgrees
<1>11. CASE troubles' = troubles \cup {"onebyte"}
  BY <1>11
<1>12. sender.pos # 0 =>
          ~(troubles' = troubles \cup IF sender.pos = 0 THEN {} ELSE {"startover"})
  OBVIOUS
<1>13. local.len \in Nat
  BY LocalTypes
<1> QED BY <1>2, <1>4, <1>8, <1>9, <1>10, <1>11, <1>12, <1>13, SMTT(60) DEF ResumeTo

LEMMA FreshAgrees ==
    UploadTyped /\ UploadAgrees /\ (Fresh \/ CountTry) => UploadAgrees'
<1> SUFFICES ASSUME UploadTyped, UploadAgrees, Fresh \/ CountTry PROVE UploadAgrees'
  OBVIOUS
<1>1. SessionsAgree' /\ UNCHANGED local
  BY SessionsKept DEF Fresh, CountTry, UploadAgrees
<1>2. sender \in Senders
  BY DEF UploadTyped
<1>3. SenderAgrees' /\ KeepsUp'
  <2>1. CASE Fresh
    BY <1>1, <1>2, <2>1 DEF Fresh, Senders, UploadAgrees, SenderAgrees, KeepsUp, In
  <2>2. CASE CountTry
    BY <1>1, <1>2, <2>2
       DEF CountTry, RolledBack, Senders, UploadAgrees, SenderAgrees, KeepsUp, In
  <2> QED BY <2>1, <2>2
<1> QED BY <1>1, <1>3 DEF UploadAgrees

LEMMA StartNewAgrees == UploadTyped /\ UploadAgrees /\ StartNew => UploadAgrees'
<1> SUFFICES ASSUME UploadTyped, UploadAgrees, StartNew PROVE UploadAgrees'
  OBVIOUS
<1>0. sender \in Senders /\ Len(sessions) \in Nat /\ UNCHANGED <<local, stored>>
      /\ sender.pc = "start"
  BY LenProperties, StartNewShape DEF UploadTyped, StartNew, In
<1>1. CASE UNCHANGED sessions /\ (Turn("failed") \/ Turn("raised"))
  BY <1>0, <1>1, SessionsKept, TurnAgrees DEF UploadAgrees
<1>2. CASE /\ Opened \in SessionRecords
           /\ sessions' = Append(sessions, Opened)
           /\ sender' = [sender EXCEPT !.pc = "save", !.uri = Len(sessions) + 1,
                                       !.had = 0]
  <2>1. PICK m \in Nat : m = Len(sessions) + 1
    BY <1>0
  <2>0. PICK o \in SessionRecords : o = Opened
    BY <1>2
  <2>2. /\ Len(sessions') = m /\ sessions'[m] = o
        /\ \A u \in 1..Len(sessions) : sessions'[u] = sessions[u]
    BY <1>2, <2>0, <2>1, AppendProperties DEF UploadTyped
  <2>3. Content' = Content
    BY <1>0 DEF Content, Bytes
  <2>4. o.length = local.len /\ o.bytes = <<>> /\ o.state = "open"
    BY <1>0, <2>0 DEF Opened, UploadAgrees, SenderAgrees
  <2>5. Len(<<>>) = 0
    BY EmptySeq
  <2>6. SessionAgrees(o)'
    BY <1>0, <2>4, <2>5, LocalTypes DEF SessionAgrees, Holds
  <2>7. \A u \in 1..Len(sessions) : SessionAgrees(sessions[u])'
    BY <1>0, <2>2, <2>3 DEF UploadAgrees, SessionsAgree, SessionAgrees, Holds
  <2>8. SessionsAgree'
    <3>1. \A u \in 1..m : u = m \/ u \in 1..Len(sessions)
      BY <1>0, <2>1
    <3>2. stored' \in {Nothing, Content'}
      BY <1>0, <2>3 DEF UploadAgrees, SessionsAgree
    <3>3. \A u \in 1..m : SessionAgrees(sessions[u])'
      BY <2>2, <2>6, <2>7, <3>1 DEF SessionAgrees, Holds
    <3> QED BY <2>2, <3>2, <3>3 DEF SessionsAgree
  <2>9. SenderAgrees' /\ KeepsUp'
    <3>1. /\ sender'.pc = "save" /\ sender'.uri = m /\ sender'.saved = sender.saved
          /\ sender'.length = sender.length /\ sender'.digest = sender.digest
          /\ sender'.sent = sender.sent /\ sender'.pos = sender.pos
          /\ sender'.buf = sender.buf
      BY <1>0, <1>2, <2>1 DEF Senders
    <3> QED BY <1>0, <2>2, <2>4, <3>1 DEF UploadAgrees, SenderAgrees, KeepsUp, In
  <2> QED BY <2>8, <2>9 DEF UploadAgrees
<1> QED BY <1>1, <1>2, StartNewShape

LEMMA SaveUriAgrees ==
    UploadTyped /\ UploadAgrees /\ (SaveUri \/ Queried) => UploadAgrees'
<1> SUFFICES ASSUME UploadTyped, UploadAgrees, SaveUri \/ Queried
             PROVE  UploadAgrees'
  OBVIOUS
<1>1. /\ SessionsAgree' /\ UNCHANGED <<local, sessions>>
      /\ sender.pc \in {"save", "query", "changed"}
  BY SessionsKept DEF SaveUri, Queried, UploadAgrees, In
<1>2. CASE Turn("failed") \/ Turn("raised")
  BY <1>1, <1>2, TurnAgrees DEF UploadAgrees
<1>3. CASE sender.pc = "save" /\ Turn("put")
  <2>1. /\ sender'.pc = "put" /\ sender'.uri = sender.uri /\ sender'.saved = sender.saved
        /\ sender'.length = sender.length /\ sender'.digest = sender.digest
        /\ sender'.sent = sender.sent /\ sender'.pos = sender.pos
        /\ sender'.buf = sender.buf
    BY <1>3, TurnTyped DEF UploadTyped, UploadPCs
  <2>2. /\ sender.digest = <<>> /\ sender.pos = 0 /\ sender.sent = 0
        /\ sender.saved = <<>> /\ sender.length = local.len /\ sender.buf = <<>>
    BY <1>3 DEF UploadAgrees, SenderAgrees
  <2>3. Holds(sender.digest, sender.sent)'
    BY <1>1, <2>1, <2>2, HoldsNone DEF Holds
  <2>4. PICK s \in SessionRecords : s = sessions[sender.uri]
    <3>1. sender.uri \in 1..Len(sessions)
      BY <1>3, LenProperties DEF UploadTyped
    <3> QED BY <3>1, SessionTyped
  <2>5. s.state = "gone" \/ (s.state = "open" /\ s.bytes = <<>>)
    BY <1>3, <2>4 DEF UploadAgrees, KeepsUp, In, SessionRecords
  <2>6. Len(<<>>) = 0
    BY EmptySeq
  <2> QED BY <1>1, <2>1, <2>2, <2>3, <2>4, <2>5, <2>6, LocalTypes
          DEF UploadAgrees, SenderAgrees, KeepsUp, In
<1> QED BY <1>1, <1>2, <1>3 DEF SaveUri, Queried, Aborts, Fails, In

\* What the service has after it was sent what follows what it had; `sent' is how
\* much it has then.
LEMMA ReceiveAgrees ==
    ASSUME UploadTyped, SessionsAgree, UNCHANGED local, sender.uri # 0,
           NEW sent \in Nat, NEW to \in Nat, sent <= to, to <= local.len,
           sessions[sender.uri].state # "gone"
              => Len(sessions[sender.uri].bytes) = sent,
           Receive(Bytes(sent + 1, to))
    PROVE  /\ SessionsAgree'
           /\ stored = Content => stored' = Content'
           /\ sessions'[sender.uri].state # "gone"
                 => Len(sessions'[sender.uri].bytes) = to
<1>1. PICK u \in 1..Len(sessions) : u = sender.uri
  BY LenProperties DEF UploadTyped
<1>2. PICK s \in SessionRecords : s = sessions[u] /\ SessionAgrees(s)
  BY <1>1, SessionTyped DEF SessionsAgree
<1>3. PICK k \in Nat : sent + k = to
  <2>1. PICK k \in Nat : k = to - sent
    OBVIOUS
  <2> QED BY <2>1
<1>4. PICK new \in Seq(Byte) : new = Bytes(sent + 1, to) /\ Len(new) = k
  BY <1>3, BytesFacts
<1>5. Content' = Content
  BY DEF Content, Bytes
<1>6. CASE s.state # "open"
  <2>1. UNCHANGED <<sessions, stored>>
    BY <1>1, <1>2, <1>6 DEF Receive
  <2>2. s.state # "gone" => Len(s.bytes) = sent /\ Len(s.bytes) = local.len
    BY <1>1, <1>2, <1>6 DEF SessionAgrees, SessionRecords
  <2>3. s.state # "gone" => Len(s.bytes) = to
    BY <2>2, LocalTypes
  <2> QED BY <1>1, <1>2, <1>5, <2>1, <2>3, SessionsKept
<1>7. CASE s.state = "open"
  <2>1. Len(s.bytes) = sent /\ Holds(s.bytes, sent) /\ s.length = local.len
    BY <1>1, <1>2, <1>7 DEF SessionAgrees
  <2>2. PICK r \in SessionRecords :
           /\ r = Received(s, new) /\ Holds(r.bytes, to) /\ r.length = local.len
           /\ r.state = IF to = local.len THEN "complete" ELSE "open"
    <3>1. Received(s, new) \in SessionRecords
      BY ReceivedTyped
    <3>2. LET q == Received(s, Bytes(sent + 1, to)) IN
          /\ Holds(q.bytes, to) /\ q.length = local.len
          /\ q.state = IF to = local.len THEN "complete" ELSE "open"
      BY <2>1, ReceivedHolds
    <3> QED BY <1>4, <3>1, <3>2
  <2>3. /\ sessions' = [sessions EXCEPT ![u] = r]
        /\ stored' = IF r.state = "complete" THEN r.bytes ELSE stored
    BY <1>1, <1>2, <1>4, <1>7, <2>2 DEF Receive
  <2>4. r.state = "complete" => r.bytes = Content
    BY <2>2, HoldsContent DEF SessionRecords
  <2>5. Len(r.bytes) = to
    BY <2>2 DEF Holds
  <2>6. stored' \in {Nothing, Content} /\ (stored = Content => stored' = Content)
        /\ (r.state = "complete" => stored' = Content)
    BY <2>3, <2>4 DEF SessionsAgree
  <2>7. SessionAgrees(r)'
    BY <1>5, <2>2, <2>5, <2>6 DEF SessionAgrees, Holds
  <2>8. /\ Len(sessions') = Len(sessions) /\ sessions'[u] = r
        /\ \A v \in 1..Len(sessions) : v # u => sessions'[v] = sessions[v]
    BY <2>3, SessionSet
  <2>9. ASSUME NEW v \in 1..Len(sessions), v # u PROVE SessionAgrees(sessions[v])'
    BY <1>5, <2>6, <2>8, <2>9 DEF SessionsAgree, SessionAgrees, Holds
  <2>10. SessionsAgree'
    BY <1>5, <2>6, <2>7, <2>8, <2>9 DEF SessionsAgree
  <2> QED BY <1>1, <1>5, <2>5, <2>6, <2>8, <2>10
<1> QED BY <1>6, <1>7

LEMMA FirstReadAgrees == UploadTyped /\ UploadAgrees /\ FirstRead => UploadAgrees'
<1> SUFFICES ASSUME UploadTyped, UploadAgrees, FirstRead PROVE UploadAgrees'
  OBVIOUS
<1>1. /\ SessionsAgree' /\ UNCHANGED <<local, sessions, stored>>
      /\ sender \in Senders /\ sender.pc = "put" /\ sender.uri # 0
  BY SessionsKept DEF FirstRead, UploadAgrees, In, UploadTyped
<1>2. /\ sender.sent = sender.pos /\ sender.pos <= local.len
      /\ Holds(sender.digest, sender.sent) /\ sender.pos \in Nat /\ local.len \in Nat
  BY <1>1, LocalTypes DEF UploadAgrees, SenderAgrees, In, Senders
<1>3. PICK new \in Seq(Byte), k \in Nat :
         /\ new = ToRead /\ Len(new) = k /\ new = Bytes(sender.pos + 1, sender.pos + k)
         /\ sender.pos + k <= local.len
         /\ new = <<>> => sender.pos >= local.len
  BY <1>2, ToReadFacts
<1>4. PICK pos \in Nat : pos = sender.pos + k
  BY <1>2
<1>5. sender' = [sender EXCEPT !.pc = "body", !.buf = new, !.pos = pos]
  BY <1>3, <1>4 DEF FirstRead
<1>6. /\ sender'.pc = "body" /\ sender'.uri = sender.uri /\ sender'.saved = sender.saved
      /\ sender'.length = sender.length /\ sender'.digest = sender.digest
      /\ sender'.sent = sender.sent /\ sender'.pos = pos /\ sender'.buf = new
  BY <1>1, <1>5 DEF Senders
<1>7. Holds(sender.digest, sender.sent)'
  BY <1>1, <1>2, <1>6, Zenon DEF Holds
<1>9. sender'.buf = Bytes(sender.sent + 1, sender.pos)'
  <2>1. new = Bytes(sender.sent + 1, pos)
    BY <1>2, <1>3, <1>4
  <2> QED BY <1>1, <1>6, <2>1, Zenon DEF Bytes
<1>8. /\ sender'.sent <= pos /\ pos <= local.len
      /\ new = <<>> => sender'.sent = local.len
  BY <1>2, <1>3, <1>4, <1>6
<1> QED BY <1>1, <1>6, <1>7, <1>8, <1>9 DEF UploadAgrees, SenderAgrees, KeepsUp, In

LEMMA SendAgrees == UploadTyped /\ UploadAgrees /\ Send => UploadAgrees'
<1> SUFFICES ASSUME UploadTyped, UploadAgrees, Send PROVE UploadAgrees'
  OBVIOUS
<1>1. /\ sender \in Senders /\ sender.pc = "body" /\ sender.uri # 0
      /\ UNCHANGED local
  BY DEF Send, In, UploadTyped
<1>2. PICK sent \in Nat, pos \in Nat :
         /\ sent = sender.sent /\ pos = sender.pos /\ sent <= pos /\ pos <= local.len
         /\ sender.buf = Bytes(sent + 1, pos) /\ Holds(sender.digest, sent)
  BY <1>1 DEF UploadAgrees, SenderAgrees, In, Senders
<1>3. PICK n \in Nat, old \in Seq(Byte) : /\ sent + n = pos /\ old = sender.buf
                                        /\ Len(old) = n
  <2>1. PICK n \in Nat : n = pos - sent
    BY <1>2
  <2>2. sent + n = pos
    BY <2>1
  <2>3. PICK old \in Seq(Byte) : old = Bytes(sent + 1, sent + n) /\ Len(old) = n
    BY <2>1, BytesFacts, Zenon
  <2> QED BY <1>2, <2>1, <2>2, <2>3, Zenon
<1>4. PICK new \in Seq(Byte), k \in Nat :
         /\ new = ToRead /\ Len(new) = k /\ new = Bytes(pos + 1, pos + k)
         /\ pos + k <= local.len
         /\ new = <<>> => pos >= local.len
  BY <1>2, ToReadFacts
<1>5. PICK to \in Nat : to = pos + k
  OBVIOUS
<1>6. PICK digest \in Seq(Byte) : digest = sender.digest \o old
  BY <1>1, ConcatProperties DEF Senders
<1>7. sender' = [sender EXCEPT !.sent = pos, !.digest = digest, !.buf = new, !.pos = to]
  BY <1>2, <1>3, <1>4, <1>5, <1>6 DEF Send
<1>8. /\ sender'.pc = "body" /\ sender'.uri = sender.uri /\ sender'.saved = sender.saved
      /\ sender'.length = sender.length /\ sender'.digest = digest
      /\ sender'.sent = pos /\ sender'.pos = to /\ sender'.buf = new
  BY <1>1, <1>7 DEF Senders
<1>9. Holds(digest, pos)
  BY <1>1, <1>2, <1>3, <1>6, HoldsMore DEF Senders
<1>10. /\ Holds(sender.digest, sender.sent)'
       /\ sender'.buf = Bytes(sender.sent + 1, sender.pos)'
  <2>1. Holds(sender.digest, sender.sent)'
    BY <1>1, <1>8, <1>9, Zenon DEF Holds
  <2>2. sender'.buf = Bytes(sender.sent + 1, sender.pos)'
    BY <1>1, <1>4, <1>5, <1>8, Zenon DEF Bytes
  <2> QED BY <2>1, <2>2
<1>11. /\ pos <= to /\ to <= local.len /\ (new = <<>> => pos = local.len)
  BY <1>2, <1>4, <1>5, LocalTypes
<1>12. SenderAgrees'
  BY <1>1, <1>8, <1>10, <1>11 DEF UploadAgrees, SenderAgrees, In
<1>13. /\ SessionsAgree'
       /\ sessions'[sender.uri].state # "gone" => Len(sessions'[sender.uri].bytes) = pos
  <2>1. sessions[sender.uri].state # "gone" => Len(sessions[sender.uri].bytes) = sent
    BY <1>1, <1>2 DEF UploadAgrees, KeepsUp
  <2>2. Receive(Bytes(sent + 1, pos))
    BY <1>2 DEF Send
  <2> QED BY <1>1, <1>2, <2>1, <2>2, ReceiveAgrees DEF UploadAgrees
<1>14. KeepsUp'
  BY <1>8, <1>13 DEF KeepsUp, In
<1> QED BY <1>12, <1>13, <1>14 DEF UploadAgrees

LEMMA SentAgrees == UploadTyped /\ UploadAgrees /\ Sent => UploadAgrees'
<1> SUFFICES ASSUME UploadTyped, UploadAgrees, Sent PROVE UploadAgrees'
  OBVIOUS
<1>1. /\ sender \in Senders /\ sender.pc = "body" /\ sender.uri # 0
      /\ UNCHANGED local /\ sender.buf = <<>>
  BY DEF Sent, In, UploadTyped
<1>2. PICK n \in Nat : /\ n = local.len /\ sender.sent = n /\ sender.length = n
                      /\ sender.pos <= n /\ n <= sender.pos
                      /\ Holds(sender.digest, sender.sent)
  BY <1>1, LocalTypes DEF UploadAgrees, SenderAgrees, In
<1>3. Turn("answer")
  BY <1>2 DEF Sent
<1>4. /\ sender'.pc = "answer" /\ sender'.uri = sender.uri /\ sender'.saved = sender.saved
      /\ sender'.length = sender.length /\ sender'.digest = sender.digest
      /\ sender'.sent = sender.sent /\ sender'.pos = sender.pos /\ sender'.buf = <<>>
  BY <1>1, <1>3, TurnTyped DEF UploadPCs
<1>5. Holds(sender.digest, sender.sent)'
  BY <1>1, <1>2, <1>4 DEF Holds
<1>6. SessionsAgree'
  <2>1. Bytes(n + 1, n) = <<>>
    <3>1. PICK b \in Seq(Byte) : b = Bytes(n + 1, n + 0) /\ Len(b) = 0
      BY BytesFacts, Zenon
    <3>2. n + 0 = n
      OBVIOUS
    <3> QED BY <3>1, <3>2, EmptySeq
  <2>2. Receive(Bytes(n + 1, n))
    BY <2>1 DEF Sent
  <2>3. sessions[sender.uri].state # "gone" => Len(sessions[sender.uri].bytes) = n
    BY <1>1, <1>2 DEF UploadAgrees, KeepsUp
  <2> QED BY <1>1, <1>2, <2>2, <2>3, ReceiveAgrees DEF UploadAgrees
<1>7. SenderAgrees'
  BY <1>1, <1>2, <1>4, <1>5 DEF UploadAgrees, SenderAgrees, In
<1> QED BY <1>4, <1>6, <1>7 DEF UploadAgrees, KeepsUp, In

\* What the service may have got of an open session is a beginning of the file.
LEMMA GotHolds ==
    ASSUME UploadTyped, UploadAgrees, sender.pc \in {"put", "body", "answer"},
           sessions[sender.uri].state = "open"
    PROVE  \E n \in Nat : Holds(Got, n) /\ n <= local.len
<1>1. PICK s \in SessionRecords : /\ s = sessions[sender.uri] /\ SessionAgrees(s)
                                 /\ s.bytes \in Seq(Byte)
  <2>1. sender.uri \in 1..Len(sessions)
    BY LenProperties DEF UploadTyped
  <2> QED BY <2>1, SessionTyped DEF UploadAgrees, SessionsAgree
<1>2. CASE sender.pc = "body"
  <2>1. PICK sent \in Nat, pos \in Nat :
           /\ sent = sender.sent /\ pos = sender.pos /\ sent <= pos /\ pos <= local.len
           /\ sender.buf = Bytes(sent + 1, pos)
    BY <1>2 DEF UploadAgrees, SenderAgrees, In, Senders, UploadTyped
  <2>2. Len(s.bytes) = sent /\ Holds(s.bytes, sent)
    BY <1>1, <1>2, <2>1 DEF UploadAgrees, KeepsUp, SessionAgrees
  <2>3. Holds(Got, pos)
    BY <1>1, <2>1, <2>2, HoldsMore DEF Got
  <2> QED BY <2>1, <2>3
<1>3. CASE sender.pc # "body"
  <2>1. sender.buf = <<>>
    BY <1>3 DEF UploadAgrees, SenderAgrees
  <2>2. Got = s.bytes
    BY <1>1, <2>1, ConcatEmptySeq DEF Got
  <2> QED BY <1>1, <2>2, LenProperties DEF SessionAgrees
<1> QED BY <1>2, <1>3

\* What the service forgets was at the end.
LEMMA KeepsAgrees ==
    ASSUME UploadTyped, UploadAgrees, sender.pc \in {"put", "body", "answer"},
           KeepsSome, UNCHANGED <<local, stored>>
    PROVE  SessionsAgree'
<1>0. sender.uri # 0 /\ SessionsAgree
  BY DEF UploadTyped, UploadAgrees
<1>1. CASE sessions' = sessions
  BY <1>0, <1>1, SessionsKept
<1>2. CASE \E k \in 0..Len(Got) :
              /\ sessions[sender.uri].state = "open"
              /\ Kept(sessions[sender.uri], k) \in SessionRecords
              /\ sessions' = [sessions EXCEPT
                                ![sender.uri] = Kept(sessions[sender.uri], k)]
  <2>1. PICK u \in 1..Len(sessions) : u = sender.uri
    BY <1>0, KeepsFacts
  <2>2. PICK s \in SessionRecords : s = sessions[u] /\ SessionAgrees(s)
    BY <1>0, <2>1, SessionTyped DEF SessionsAgree
  <2>3. PICK k \in 0..Len(Got) : /\ s.state = "open"
                                 /\ Kept(s, k) \in SessionRecords
                                 /\ sessions' = [sessions EXCEPT ![u] = Kept(s, k)]
    BY <1>2, <2>1, <2>2
  <2>4. PICK r \in SessionRecords : r = Kept(s, k)
    BY <2>3
  <2>5. r.state = "open" /\ r.length = s.length /\ r.bytes = SubSeq(Got, 1, k)
    BY <2>3, <2>4 DEF Kept, SessionRecords
  <2>6. PICK n \in Nat : Holds(Got, n) /\ n <= local.len /\ Len(Got) = n
    BY <2>1, <2>2, <2>3, GotHolds DEF Holds
  <2>7. Got \in Seq(Byte) /\ k \in 0..n
    BY <1>0, <2>3, <2>6, KeepsFacts
  <2>8. Holds(r.bytes, k) /\ Len(r.bytes) = k
    <3>1. Holds(SubSeq(Got, 1, k), k)
      BY <2>6, <2>7, HoldsLess
    <3> QED BY <2>5, <3>1 DEF Holds
  <2>9. Content' = Content
    BY DEF Content, Bytes
  <2>10. k <= local.len
    BY <2>6, <2>7, LocalTypes
  <2>11. SessionAgrees(r)'
    BY <2>2, <2>5, <2>8, <2>10 DEF SessionAgrees, Holds
  <2>12. /\ Len(sessions') = Len(sessions) /\ sessions'[u] = r
         /\ \A v \in 1..Len(sessions) : v # u => sessions'[v] = sessions[v]
    BY <2>3, <2>4, SessionSet
  <2>13. ASSUME NEW v \in 1..Len(sessions), v # u PROVE SessionAgrees(sessions[v])'
    BY <1>0, <2>9, <2>12, <2>13 DEF SessionsAgree, SessionAgrees, Holds
  <2> QED BY <1>0, <2>9, <2>11, <2>12, <2>13 DEF SessionsAgree
<1> QED BY <1>0, <1>1, <1>2, KeepsFacts

LEMMA BrokenAgrees ==
    UploadTyped /\ UploadAgrees /\ (Broken \/ UploadKilled) => UploadAgrees'
<1> SUFFICES ASSUME UploadTyped, UploadAgrees, Broken \/ UploadKilled
             PROVE  UploadAgrees'
  OBVIOUS
<1>1. UNCHANGED <<local, stored>>
  BY DEF Broken, UploadKilled
<1>2. SessionsAgree'
  <2>1. CASE UNCHANGED sessions
    BY <1>1, <2>1, SessionsKept DEF UploadAgrees
  <2>2. CASE sender.pc \in {"put", "body", "answer"} /\ KeepsSome
    BY <1>1, <2>2, KeepsAgrees
  <2> QED BY <2>1, <2>2 DEF Broken, UploadKilled
<1>3. SenderAgrees' /\ KeepsUp'
  <2>1. CASE UploadKilled
    BY <2>1 DEF UploadKilled, Gone, SenderAgrees, KeepsUp, In
  <2>2. CASE Broken
    <3>1. PICK pc \in {"failed", "query"} : Drop(pc)
      BY <2>2 DEF Broken
    <3> QED BY <1>1, <2>2, <3>1, TurnAgrees DEF UploadAgrees, Broken
  <2> QED BY <2>1, <2>2
<1> QED BY <1>2, <1>3 DEF UploadAgrees

LEMMA AcceptedAgrees ==
    UploadTyped /\ UploadAgrees /\ (Accepted \/ Delete) => UploadAgrees'
<1> SUFFICES ASSUME UploadTyped, UploadAgrees, Accepted PROVE UploadAgrees'
  BY DEF Delete, In, UploadAgrees, SenderAgrees
<1>1. SessionsAgree' /\ UNCHANGED <<local, stored>>
  BY SessionsKept DEF Accepted, UploadAgrees
<1>2. sender.uri \in 1..Len(sessions) /\ sender.pc = "answer" /\ sender \in Senders
  BY LenProperties DEF Accepted, In, UploadTyped
<1>3. PICK s \in SessionRecords : /\ s = sessions[sender.uri] /\ s.bytes \in Seq(Byte)
                                  /\ s.state = "complete" /\ SessionAgrees(s)
  BY <1>2, SessionTyped DEF Accepted, UploadAgrees, SessionsAgree
<1>4. s.bytes = Content /\ stored = Content
  BY <1>3, HoldsContent DEF SessionAgrees
<1>5. sender.digest = Content
  <2>1. sender.digest \in Seq(Byte) /\ Holds(sender.digest, local.len)
    BY <1>2 DEF Senders, UploadAgrees, SenderAgrees, In
  <2> QED BY <2>1, HoldsContent
<1>6. Turn("done")
  BY <1>3, <1>4, <1>5 DEF Accepted
<1>7. /\ sender'.pc = "done" /\ sender'.uri = sender.uri /\ sender'.saved = sender.saved
      /\ sender'.buf = sender.buf
  BY <1>2, <1>6, TurnTyped DEF UploadPCs
<1>8. Content' = Content
  BY <1>1 DEF Content, Bytes
<1>9. sender.saved = <<>> /\ sender'.uri # 0 /\ sender.buf = <<>>
  BY <1>2, <1>7, LenProperties DEF UploadAgrees, SenderAgrees, UploadTyped
<1> QED BY <1>1, <1>4, <1>7, <1>8, <1>9 DEF UploadAgrees, SenderAgrees, KeepsUp, In

LEMMA ExpireAgrees ==
    UploadTyped /\ UploadAgrees /\ (Expire \/ UNCHANGED uploadVars) => UploadAgrees'
<1>1. ASSUME UploadTyped, UploadAgrees, Expire PROVE UploadAgrees'
  <2>0. UNCHANGED <<local, stored, sender>> /\ Content' = Content
    BY <1>1 DEF Expire, Content, Bytes
  <2>1. PICK u \in 1..Len(sessions) :
           sessions' = [sessions EXCEPT ![u] = [@ EXCEPT !.state = "gone"]]
    BY <1>1, LenProperties DEF Expire, UploadTyped
  <2>2. PICK s \in SessionRecords : s = sessions[u] /\ SessionAgrees(s)
    BY <1>1, SessionTyped DEF UploadAgrees, SessionsAgree
  <2>3. PICK r \in SessionRecords : r = [s EXCEPT !.state = "gone"]
    BY DEF SessionRecords
  <2>4. r.state = "gone" /\ r.length = s.length /\ r.bytes = s.bytes
    BY <2>3 DEF SessionRecords
  <2>5. sessions' = [sessions EXCEPT ![u] = r]
    BY <2>1, <2>2, <2>3, <1>1, SessionTyped
  <2>6. /\ Len(sessions') = Len(sessions) /\ sessions'[u] = r
        /\ \A v \in 1..Len(sessions) : v # u => sessions'[v] = sessions[v]
    BY <1>1, <2>5, SessionSet
  <2>7. SessionAgrees(r)'
    BY <2>0, <2>2, <2>4 DEF SessionAgrees, Holds
  <2>8. SessionsAgree'
    <3>1. ASSUME NEW v \in 1..Len(sessions), v # u PROVE SessionAgrees(sessions[v])'
      BY <1>1, <2>0, <2>6, <3>1 DEF UploadAgrees, SessionsAgree, SessionAgrees, Holds
    <3> QED BY <1>1, <2>0, <2>6, <2>7, <3>1 DEF UploadAgrees, SessionsAgree
  <2>9. SenderAgrees'
    BY <1>1, <2>0, Zenon DEF UploadAgrees, SenderAgrees, In, Holds, Bytes
  <2>10. KeepsUp'
    <3>1. sender.pc \in {"save", "put", "body"} => sender.uri \in 1..Len(sessions)
      BY <1>1, LenProperties DEF UploadTyped
    <3>2. CASE sender.uri = u
      BY <2>0, <2>4, <2>6, <3>2 DEF KeepsUp, In
    <3>3. CASE sender.uri # u
      BY <1>1, <2>0, <2>6, <3>1, <3>3 DEF UploadAgrees, KeepsUp, In
    <3> QED BY <3>2, <3>3
  <2> QED BY <2>8, <2>9, <2>10 DEF UploadAgrees
<1>2. ASSUME UploadTyped, UploadAgrees, UNCHANGED uploadVars PROVE UploadAgrees'
  <2>1. SessionsAgree'
    BY <1>2, SessionsKept DEF UploadAgrees, uploadVars
  <2>2. Content' = Content
    BY <1>2 DEF uploadVars, Content, Bytes
  <2>3. UNCHANGED <<local, stored, sender, sessions>>
    BY <1>2 DEF uploadVars
  <2>4. SenderAgrees'
    BY <1>2, <2>2, <2>3, Zenon DEF UploadAgrees, SenderAgrees, In, Holds, Bytes
  <2>5. KeepsUp'
    BY <1>2, <2>3, Zenon DEF UploadAgrees, KeepsUp, In
  <2> QED BY <2>1, <2>4, <2>5 DEF UploadAgrees
<1> QED BY <1>1, <1>2

LEMMA TroublesStay ==
    UploadTyped /\ [UploadNext]_uploadVars /\ troubles' = {} => troubles = {}
<1> SUFFICES ASSUME UploadTyped, [UploadNext]_uploadVars, troubles # {}
             PROVE  troubles' # {}
  OBVIOUS
<1>1. CASE Resume
  <2>1. PICK s, n, had, r : ResumeTo(s, n, had, r)
    BY <1>1, ResumeShape
  <2> QED BY <2>1 DEF ResumeTo
<1> QED BY <1>1 DEF UploadNext, UploadStep, uploadVars, Begin, Fresh, StartNew, SaveUri,
           FirstRead, Send, Sent, Broken, Queried, Accepted, Delete, CountTry,
           UploadKilled, Expire, Edit

LEMMA UploadStepHolds == UploadInv /\ [UploadNext]_uploadVars => UploadInv'
<1> SUFFICES ASSUME UploadInv, [UploadNext]_uploadVars, troubles' = {}
             PROVE  UploadAgrees'
  BY UploadTypes DEF UploadInv
<1>1. UploadTyped /\ UploadAgrees
  BY TroublesStay DEF UploadInv
<1>2. ~Edit
  BY DEF Edit
<1> QED BY <1>1, <1>2, BeginAgrees, ResumeAgrees, FreshAgrees, StartNewAgrees,
           SaveUriAgrees, FirstReadAgrees, SendAgrees, SentAgrees, BrokenAgrees,
           AcceptedAgrees, ExpireAgrees DEF UploadNext, UploadStep

\* Whatever attempts, kills, expired sessions and retries it takes, an object that
\* was uploaded is the file, but for the troubles named
\* (resumable_upload_handler.py).
THEOREM Uploaded == UploadSpec => []StoredIsFile
<1>1. UploadInv => StoredIsFile
  BY DEF UploadInv, UploadAgrees, SessionsAgree, SenderAgrees, StoredIsFile
<1> QED BY <1>1, UploadInitAgrees, UploadStepHolds, PTL DEF UploadSpec

\* The parts of an upload keep their types, whatever its constants are.
THEOREM UploadTyping == UploadSpec => []UploadTypeOK
<1>1. UploadInv => UploadTypeOK
  <2> SUFFICES ASSUME UploadInv PROVE UploadTypeOK
    OBVIOUS
  <2>1. UploadTyped /\ DOMAIN sessions = 1..Len(sessions)
    BY LenProperties DEF UploadInv, UploadTyped
  <2>2. \A u \in 1..Len(sessions) : sessions[u] \in SessionRecords
    BY <2>1, SessionTyped
  <2>3. sender \in Senders
    BY <2>1 DEF UploadTyped
  <2> QED BY <2>1, <2>2, <2>3 DEF UploadTyped, UploadTypeOK, Senders, UploadPCs,
                                 SessionRecords
<1> QED BY <1>1, UploadInitAgrees, UploadStepHolds, PTL DEF UploadSpec

-----------------------------------------------------------------------------
(* Uploads come to their end.                                              *)

\* The steps a sender has left in this attempt, at most: what it has still to read,
\* and the buffer.
Ahead  == IF sender.pos < local.len THEN local.len - sender.pos ELSE 0
Unsent == Ahead + IF sender.buf = <<>> THEN 0 ELSE 1
Pace == CASE sender.pc = "attempt" -> local.len + 9
          [] sender.pc = "start"   -> local.len + 8
          [] sender.pc = "save"    -> local.len + 7
          [] sender.pc = "put"     -> Ahead + 6
          [] sender.pc = "body"    -> Unsent + 5
          [] sender.pc \in {"answer", "changed"} -> 4
          [] sender.pc \in {"query", "delete"}   -> 3
          [] sender.pc = "failed"  -> 2
          [] OTHER -> 0

\* And in all attempts.
Over == {"down", "raised", "done"}
UploadLeft == IF sender.pc \in Over THEN 0
              ELSE (URetries - sender.tries) * (local.len + 10) + Pace

UploadComesCloser ==
    /\ UploadStep \/ UploadKilled => UploadLeft' < UploadLeft
    /\ Expire => UploadLeft' = UploadLeft
    /\ Begin => UploadLeft' = URetries * (local.len + 10) + local.len + 9
UploadNumbered == UploadLeft \in Nat

\* What a step of the sender does: it ends, goes on in its attempt, or begins the
\* next one.
SenderMoves ==
    /\ local' = local
    /\ sender.pc \notin Over
    /\ \/ sender'.pc \in Over
       \/ sender'.tries = sender.tries /\ Pace' < Pace
       \/ /\ sender.pc = "failed" /\ sender'.pc = "attempt"
          /\ sender'.tries = sender.tries + 1 /\ sender'.tries <= URetries

PaceTyped == /\ Ahead \in 0..local.len /\ Pace \in Nat
             /\ sender.pc \notin Over => Pace >= 2
             /\ sender.tries \in 0..URetries /\ URetries \in Nat
             /\ local.len \in Nat

LEMMA PaceFacts == UploadTyped => PaceTyped
<1> SUFFICES ASSUME UploadTyped PROVE PaceTyped
  OBVIOUS
<1>1. local.len \in Nat
  BY LocalTypes
<1>2. sender.pos \in Nat /\ sender.tries \in 0..URetries /\ sender.pc \in UploadPCs
  BY DEF UploadTyped, Senders
<1>3. Ahead \in 0..local.len
  BY <1>1, <1>2 DEF Ahead
<1>4. Unsent \in Nat
  BY <1>1, <1>3 DEF Unsent
<1>5. Pace \in Nat /\ (sender.pc \notin Over => Pace >= 2)
  BY <1>1, <1>2, <1>3, <1>4 DEF Pace, UploadPCs, Over
<1> QED BY <1>1, <1>2, <1>3, <1>5 DEF PaceTyped

LEMMA PaceNext == UploadTyped' => PaceTyped'
  BY PaceFacts, PTL

LEMMA TurnKeepsTries ==
    ASSUME sender \in Senders, NEW pc \in UploadPCs, Turn(pc)
    PROVE  sender'.pc = pc /\ sender'.tries = sender.tries /\ sender'.pos = sender.pos
  BY DEF Senders, Turn

LEMMA ResumeMoves == UploadTyped /\ Resume => SenderMoves
<1> SUFFICES ASSUME UploadTyped, Resume PROVE SenderMoves
  OBVIOUS
<1>1. /\ UNCHANGED <<local, sessions, stored>>
      /\ sender.pc = "attempt"
      /\ \E s \in SessionRecords, n, had \in Nat, r \in Senders :
            /\ r = [sender EXCEPT !.saved = sender.digest, !.had = had, !.sent = n]
            /\ ResumeTo(s, n, had, r)
  BY ResumeShape, Zenon
<1>2. PICK s \in SessionRecords, n \in Nat, had \in Nat, r \in Senders :
         /\ r = [sender EXCEPT !.saved = sender.digest, !.had = had, !.sent = n]
         /\ ResumeTo(s, n, had, r)
  BY <1>1, Zenon
<1>3. sender \in Senders /\ sender.tries = r.tries
  BY <1>2 DEF Senders, UploadTyped
<1>4. \/ sender'.pc \in {"put", "start", "failed"} /\ sender'.tries = sender.tries
      \/ sender'.pc = "raised"
  <2>1. CASE Fails
    BY <1>3, <2>1, TurnKeepsTries DEF Fails, UploadPCs
  <2>2. CASE ~Fails
    BY <1>2, <1>3, <2>2 DEF ResumeTo, Senders
  <2> QED BY <2>1, <2>2
<1>5. local' = local /\ UploadTyped'
  BY <1>1, ResumeTyped
<1>6. Ahead' \in 0..local.len /\ local.len \in Nat
  BY <1>5, PaceNext, PaceFacts DEF PaceTyped
<1>7. sender'.pc \in {"put", "start", "failed"} => Pace' < Pace
  BY <1>1, <1>5, <1>6 DEF Pace
<1> QED BY <1>1, <1>4, <1>5, <1>7 DEF SenderMoves, Over

LEMMA FreshMoves == UploadTyped /\ (Fresh \/ CountTry) => SenderMoves
<1> SUFFICES ASSUME UploadTyped, Fresh \/ CountTry PROVE SenderMoves
  OBVIOUS
<1>1. sender \in Senders /\ local' = local
  BY DEF UploadTyped, Fresh, CountTry
<1>2. local.len \in Nat /\ Ahead \in 0..local.len
  BY PaceFacts DEF PaceTyped
<1>3. CASE Fresh
  <2>1. sender.pc = "attempt" /\ sender'.pc = "start" /\ sender'.tries = sender.tries
    BY <1>1, <1>3 DEF Fresh, In, Senders
  <2> QED BY <1>1, <1>2, <2>1 DEF SenderMoves, Pace, Over
<1>4. CASE CountTry
  <2>1. /\ sender.pc = "failed"
        /\ \/ sender'.pc = "raised"
           \/ /\ sender'.pc = "attempt" /\ sender'.tries = sender.tries + 1
              /\ sender.tries + 1 <= URetries
    BY <1>1, <1>4 DEF CountTry, In, Senders, TriesLeft, Counted
  <2> QED BY <1>1, <2>1 DEF SenderMoves, Over
<1> QED BY <1>3, <1>4

LEMMA StartNewMoves == UploadTyped /\ StartNew => SenderMoves
<1> SUFFICES ASSUME UploadTyped, StartNew PROVE SenderMoves
  OBVIOUS
<1>1. sender \in Senders /\ local' = local /\ sender.pc = "start"
  BY DEF UploadTyped, StartNew, In
<1>2. local.len \in Nat
  BY PaceFacts DEF PaceTyped
<1>3. sender'.pc \in {"save", "failed", "raised"} /\ sender'.tries = sender.tries
  BY <1>1, StartNewShape, TurnKeepsTries DEF UploadPCs, Senders
<1> QED BY <1>1, <1>2, <1>3 DEF SenderMoves, Pace, Over

LEMMA SendMoves == UploadTyped /\ (FirstRead \/ Send \/ Sent) => SenderMoves
<1> SUFFICES ASSUME UploadTyped, FirstRead \/ Send \/ Sent PROVE SenderMoves
  OBVIOUS
<1>1. sender \in Senders /\ local' = local /\ sender.pc \in {"put", "body"}
  BY DEF UploadTyped, FirstRead, Send, Sent, In
<1>2. PICK pos \in Nat, len \in Nat : pos = sender.pos /\ len = local.len
  BY LocalTypes DEF UploadTyped, Senders
<1>3. PICK new \in Seq(Byte), k \in Nat :
         /\ new = ToRead /\ Len(new) = k
         /\ new = <<>> <=> k = 0
         /\ k # 0 => pos + k <= len
  BY <1>2, ToReadFacts
<1>4. PICK to \in Nat : to = pos + k
  OBVIOUS
<1>5. CASE FirstRead
  <2>1. sender' = [sender EXCEPT !.pc = "body", !.buf = new, !.pos = @ + k]
    BY <1>3, <1>5, Zenon DEF FirstRead
  <2>2. /\ sender.pc = "put" /\ sender'.pc = "body" /\ sender'.tries = sender.tries
        /\ sender'.buf = new /\ sender'.pos = to
    BY <1>1, <1>2, <1>4, <1>5, <2>1 DEF Senders, FirstRead, In
  <2>3. Unsent' <= Ahead /\ Ahead \in Nat /\ Unsent' \in Nat
    <3>1. Ahead = (IF pos < len THEN len - pos ELSE 0)
      BY <1>2 DEF Ahead
    <3>2. Unsent' = (IF to < len THEN len - to ELSE 0) + (IF k = 0 THEN 0 ELSE 1)
      BY <1>1, <1>2, <1>3, <2>2 DEF Unsent, Ahead
    <3> QED BY <1>3, <1>4, <3>1, <3>2
  <2> QED BY <1>1, <2>2, <2>3 DEF SenderMoves, Pace, Over
<1>6. CASE Send
  <2>1. /\ sender.pc = "body" /\ sender'.pc = "body" /\ sender'.tries = sender.tries
        /\ sender'.buf = new /\ sender'.pos = to /\ sender.buf # <<>>
    <3>1. PICK n, digest :
             sender' = [sender EXCEPT !.sent = n, !.digest = digest,
                                      !.buf = new, !.pos = @ + k]
      BY <1>3, <1>6, Zenon DEF Send
    <3> QED BY <1>1, <1>2, <1>4, <1>6, <3>1 DEF Senders, Send, In
  <2>2. Unsent' < Unsent /\ Unsent \in Nat /\ Unsent' \in Nat
    <3>1. Unsent = (IF pos < len THEN len - pos ELSE 0) + 1
      BY <1>2, <2>1 DEF Unsent, Ahead
    <3>2. Unsent' = (IF to < len THEN len - to ELSE 0) + (IF k = 0 THEN 0 ELSE 1)
      BY <1>1, <1>2, <1>3, <2>1 DEF Unsent, Ahead
    <3> QED BY <1>3, <1>4, <3>1, <3>2
  <2> QED BY <1>1, <2>1, <2>2 DEF SenderMoves, Pace, Over
<1>7. CASE Sent
  <2>1. PICK pc \in {"answer", "changed"} : Turn(pc)
    BY <1>7 DEF Sent
  <2>2. sender.pc = "body" /\ sender'.pc = pc /\ sender'.tries = sender.tries
    BY <1>1, <1>7, <2>1, TurnKeepsTries DEF UploadPCs, Sent, In
  <2>3. Unsent \in Nat
    BY <1>2 DEF Unsent, Ahead
  <2> QED BY <1>1, <2>2, <2>3 DEF SenderMoves, Pace, Over
<1> QED BY <1>5, <1>6, <1>7

LEMMA TurningMoves ==
    UploadTyped /\ (SaveUri \/ Broken \/ Queried \/ Accepted \/ Delete) => SenderMoves
<1> SUFFICES ASSUME UploadTyped, SaveUri \/ Broken \/ Queried \/ Accepted \/ Delete
             PROVE  SenderMoves
  OBVIOUS
<1>1. sender \in Senders /\ local' = local
  BY DEF UploadTyped, SaveUri, Broken, Queried, Accepted, Delete
<1>2. Ahead \in 0..local.len /\ local.len \in Nat
  BY PaceFacts DEF PaceTyped
<1>3. \A pc \in UploadPCs : Turn(pc) => /\ sender'.pc = pc /\ sender'.tries = sender.tries
                                        /\ sender'.pos = sender.pos
  BY <1>1, TurnKeepsTries
<1>4. {"put", "raised", "failed", "query", "done", "delete"} \subseteq UploadPCs
  BY DEF UploadPCs
<1>5. CASE SaveUri
  <2>1. Turn("put") \/ Turn("raised")
    BY <1>5 DEF SaveUri, Aborts
  <2>2. /\ sender.pc = "save" /\ sender'.pc \in {"put", "raised"}
        /\ sender'.tries = sender.tries /\ sender'.pos = sender.pos
    BY <1>3, <1>4, <1>5, <2>1 DEF SaveUri, In
  <2>3. Ahead' = Ahead
    BY <1>1, <2>2 DEF Ahead
  <2> QED BY <1>1, <1>2, <2>2, <2>3 DEF SenderMoves, Pace, Over
<1>6. CASE Broken
  <2>1. PICK pc \in {"failed", "query"} : Drop(pc)
    BY <1>6 DEF Broken
  <2>2. /\ sender.pc \in {"put", "body", "answer"} /\ sender'.pc \in {"failed", "query"}
        /\ sender'.tries = sender.tries
    BY <1>1, <1>4, <1>6, <2>1, DropTyped DEF Broken
  <2> QED BY <1>1, <1>2, <2>2 DEF SenderMoves, Pace, Unsent, Over
<1>7. CASE Queried
  <2>1. Turn("failed") \/ Turn("raised")
    BY <1>7 DEF Queried, Fails, Aborts
  <2>2. /\ sender.pc \in {"query", "changed"} /\ sender'.pc \in {"failed", "raised"}
        /\ sender'.tries = sender.tries
    BY <1>3, <1>4, <1>7, <2>1 DEF Queried
  <2> QED BY <1>1, <2>2 DEF SenderMoves, Pace, Over
<1>8. CASE Accepted
  <2>1. Turn("done") \/ Turn("delete")
    BY <1>8 DEF Accepted
  <2>2. /\ sender.pc = "answer" /\ sender'.pc \in {"done", "delete"}
        /\ sender'.tries = sender.tries
    BY <1>3, <1>4, <1>8, <2>1 DEF Accepted, In
  <2> QED BY <1>1, <2>2 DEF SenderMoves, Pace, Over
<1>9. CASE Delete
  <2>1. Turn("failed") \/ Turn("raised")
    BY <1>9 DEF Delete, Fails, Aborts
  <2>2. /\ sender.pc = "delete" /\ sender'.pc \in {"failed", "raised"}
        /\ sender'.tries = sender.tries
    BY <1>3, <1>4, <1>9, <2>1 DEF Delete, In
  <2> QED BY <1>1, <2>2 DEF SenderMoves, Pace, Over
<1> QED BY <1>5, <1>6, <1>7, <1>8, <1>9

\* The number of what is left, with its product as a number of its own.
LEMMA UploadLeftFacts ==
    ASSUME UploadTyped
    PROVE  UploadLeft \in Nat /\ (sender.pc \notin Over => UploadLeft >= 2)
<1>1. PICK a \in Nat, k \in Nat : a = URetries - sender.tries /\ k = local.len + 10
  BY PaceFacts DEF PaceTyped
<1>2. a * k \in Nat
  BY <1>1
<1>3. (URetries - sender.tries) * (local.len + 10) \in Nat
  BY <1>1, <1>2
<1> QED BY <1>3, PaceFacts DEF PaceTyped, UploadLeft

LEMMA MovesCloser == UploadTyped /\ UploadTyped' /\ SenderMoves => UploadLeft' < UploadLeft
<1> SUFFICES ASSUME UploadTyped, UploadTyped', SenderMoves PROVE UploadLeft' < UploadLeft
  OBVIOUS
<1>1. UploadLeft \in Nat /\ UploadLeft >= 2 /\ sender.pc \notin Over
  BY UploadLeftFacts DEF SenderMoves
<1>2. PICK a \in Nat, k \in Nat : a = URetries - sender.tries /\ k = local.len + 10
  BY PaceFacts DEF PaceTyped
<1>3. PICK q \in Nat : q = a * k
  BY <1>2
<1>4. Pace \in Nat /\ Pace' \in Nat
  BY PaceFacts, PaceNext DEF PaceTyped
<1>5. UploadLeft = q + Pace
  BY <1>1, <1>2, <1>3 DEF UploadLeft
<1>6. CASE sender'.pc \in Over
  BY <1>1, <1>6 DEF UploadLeft
<1>7. CASE sender'.pc \notin Over /\ sender'.tries = sender.tries /\ Pace' < Pace
  <2>1. UploadLeft' = q + Pace'
    BY <1>2, <1>3, <1>7 DEF UploadLeft, SenderMoves
  <2>2. \A x, y, z \in Nat : y < z => x + y < x + z
    OBVIOUS
  <2>3. q + Pace' < q + Pace
    BY <1>4, <1>7, <2>2, Zenon
  <2> QED BY <1>5, <2>1, <2>3, Zenon
<1>8. CASE /\ sender.pc = "failed" /\ sender'.pc = "attempt"
           /\ sender'.tries = sender.tries + 1 /\ sender'.tries <= URetries
  <2>1. Pace = 2 /\ Pace' = k - 1
    BY <1>2, <1>8, PaceFacts DEF PaceTyped, Pace, SenderMoves
  <2>2. URetries - sender'.tries = a - 1
    BY <1>2, <1>8, PaceFacts DEF PaceTyped
  <2>3. (a - 1) * k = q - k
    <3>1. \A x, y \in Nat : (x - 1) * y = x * y - y
      OBVIOUS
    <3> QED BY <1>3, <3>1
  <2>4. UploadLeft' = (a - 1) * k + Pace'
    <3>1. local'.len + 10 = k
      BY <1>2 DEF SenderMoves
    <3> QED BY <1>8, <2>2, <3>1 DEF UploadLeft, Over
  <2> QED BY <1>2, <1>3, <1>5, <2>1, <2>3, <2>4
<1> QED BY <1>6, <1>7, <1>8 DEF SenderMoves

\* Each step of the process in send_file brings it closer to its end, which is less
\* than URetries + 1 times the length of the file plus ten steps away when it begins: a
\* file that is not edited is never sent on and on, whatever fails and whichever
\* sessions are forgotten (send_file, track_progress_less_iterations).
THEOREM UploadBounded ==
    UploadSpec => [][UploadComesCloser]_uploadVars /\ []UploadNumbered
<1>1. UploadInv => UploadNumbered
  BY UploadLeftFacts DEF UploadInv, UploadNumbered
<1>2. UploadInv /\ [UploadNext]_uploadVars => [UploadComesCloser]_uploadVars
  <2> SUFFICES ASSUME UploadInv, UploadNext PROVE UploadComesCloser
    BY DEF UploadComesCloser
  <2>1. UploadTyped /\ UploadTyped'
    BY UploadTypes DEF UploadInv
  <2>2. ASSUME UploadStep PROVE UploadLeft' < UploadLeft
    BY <2>1, <2>2, MovesCloser, ResumeMoves, FreshMoves, StartNewMoves, SendMoves,
       TurningMoves DEF UploadStep
  <2>3. ASSUME UploadKilled PROVE UploadLeft' < UploadLeft
    <3>1. sender'.pc = "down" /\ sender.pc \notin Over
      BY <2>3, GoneTyped DEF UploadKilled, Over
    <3> QED BY <2>1, <3>1, UploadLeftFacts DEF UploadLeft, Over
  <2>4. ASSUME Expire PROVE UploadLeft' = UploadLeft
    BY <2>4 DEF Expire, UploadLeft, Pace, Ahead, Unsent
  <2>5. ASSUME Begin PROVE UploadLeft' = URetries * (local.len + 10) + local.len + 9
    <3>1. /\ sender'.pc = "attempt" /\ sender'.tries = 0 /\ local' = local
      BY <2>5 DEF Begin, Gone
    <3> QED BY <2>1, <3>1, PaceFacts DEF PaceTyped, UploadLeft, Pace, Over
  <2> QED BY <2>2, <2>3, <2>4, <2>5 DEF UploadComesCloser
<1> QED BY <1>1, <1>2, UploadInitAgrees, UploadStepHolds, PTL DEF UploadSpec
=============================================================================
