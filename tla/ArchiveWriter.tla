--------------------------- MODULE ArchiveWriter ---------------------------
(***************************************************************************)
(* Writer, _Partitioner, _Uploader and resume_file_upload of               *)
(* boto/glacier/writer.py: data written in pieces of any size goes to      *)
(* Glacier in parts, and an upload may be resumed from the file.           *)
(*                                                                         *)
(* A tree hash is taken for what it is a hash of.                          *)
(***************************************************************************)
EXTENDS Integers, Sequences, SequencesExt

CONSTANTS MaxData,     \* bound: bytes the caller has
          PartSize,
          MaxRevision, \* bound: edits of the file
          NoArchive

ASSUME WriterAssumption == /\ MaxData \in Nat /\ MaxRevision \in Nat
                           /\ PartSize \in Nat \ {0}

VARIABLES source,    \* the caller's data: revision, length, how much is read
          writer,    \* where the caller and the Writer are, next_part_index
          buffer,    \* the _Partitioner's
          hashes,    \* the _Uploader's _tree_hashes
          size,      \* and its _uploaded_size
          sent,      \* the parts Glacier has
          archive,   \* what Glacier made of them
          given,     \* ghost: what this Writer was given
          ignored    \* ghost: the caller went on after an exception

writerVars == <<source, writer, buffer, hashes, size, sent, archive, given,
                ignored>>

Data(from, to) == [i \in 1..to + 1 - from |-> <<source.rev, from + i - 1>>]
Smaller(a, b)  == IF a < b THEN a ELSE b

WriterInit == /\ source \in [rev : {0}, len : 1..MaxData, at : {0}]
              /\ writer = [pc |-> "idle", next |-> 1]
              /\ buffer = <<>> /\ hashes = <<>> /\ size = 0
              /\ sent = <<>>
              /\ archive = NoArchive
              /\ given = <<>>
              /\ ignored = FALSE

To(pc) == writer' = [writer EXCEPT !.pc = pc]

\* Glacier has the parts by their offset; _insert_tree_hash.
PutAt(s, i, x) == IF i > Len(s) THEN Append(s, x) ELSE [s EXCEPT ![i] = x]

-----------------------------------------------------------------------------
\* Writer.write, up to the loop of the _Partitioner.
Write ==
    /\ writer.pc = "idle" /\ source.at < source.len
    /\ \E n \in 1..source.len - source.at :
          LET new == Data(source.at + 1, source.at + n) IN
          /\ source' = [source EXCEPT !.at = @ + n]
          /\ buffer' = buffer \o new
          /\ given' = given \o new
    /\ To("write")
    /\ UNCHANGED <<hashes, size, sent, archive, ignored>>

\* Whether there is a part to send.  Mutated: the flush sends only whole parts.
WholePart == Len(buffer) > PartSize
ToSend    == Len(buffer) > IF writer.pc = "write" THEN PartSize ELSE 0

\* _send_part: the part is no longer in the buffer and its hash is entered when
\* upload_part is called; that may raise, before or after Glacier has the part.
SendPart ==
    LET n    == Smaller(PartSize, Len(buffer))
        part == SubSeq(buffer, 1, n)
        i    == writer.next
    IN
    /\ writer.pc \in {"write", "flush"} /\ ToSend
    /\ buffer' = SubSeq(buffer, n + 1, Len(buffer))
    /\ hashes' = PutAt(hashes, i, part)
    /\ \/ /\ sent' = PutAt(sent, i, part)
          /\ size' = size + n
          /\ writer' = [writer EXCEPT !.next = @ + 1]
       \/ /\ sent' \in {sent, PutAt(sent, i, part)}
          /\ To("raised")
          /\ UNCHANGED size
    /\ UNCHANGED <<source, archive, given, ignored>>

Written == /\ writer.pc \in {"write", "flush"} /\ ~ToSend
           /\ To(IF writer.pc = "write" THEN "idle" ELSE "complete")
           /\ UNCHANGED <<source, buffer, hashes, size, sent, archive, given,
                          ignored>>

\* Writer.close, when the caller has written all it has.
Close == /\ writer.pc = "idle" /\ source.at = source.len
         /\ To("flush")
         /\ UNCHANGED <<source, buffer, hashes, size, sent, archive, given,
                        ignored>>

\* _Uploader.close: Glacier makes the archive if hash and size are those of the
\* parts it has.
Matches == FlattenSeq(hashes) = FlattenSeq(sent) /\ size = Len(FlattenSeq(sent))
CompleteUpload ==
    /\ writer.pc = "complete" /\ archive = NoArchive
    /\ IF Matches THEN archive' \in {FlattenSeq(sent), NoArchive}
                  ELSE UNCHANGED archive
    /\ To("closed") \/ To("raised")
    /\ archive' = NoArchive => To("raised")
    /\ UNCHANGED <<source, buffer, hashes, size, sent, given, ignored>>

-----------------------------------------------------------------------------
\* The caller takes no notice of an exception, and writes on or closes again.
Ignore == /\ writer.pc = "raised" /\ archive = NoArchive
          /\ To("idle")
          /\ ignored' = TRUE
          /\ UNCHANGED <<source, buffer, hashes, size, sent, archive, given>>

\* resume_file_upload counts the parts from the first.
StartOver == [pc |-> "resume", next |-> 1]

\* Or the process ends, the user may change the file, and resume_file_upload
\* reads it from the beginning.
Restart ==
    /\ writer.pc = "raised" /\ archive = NoArchive
    /\ source' \in {[source EXCEPT !.at = 0]} \cup
                   [rev : {source.rev + 1} \cap 0..MaxRevision,
                    len : 1..MaxData, at : {0}]
    /\ writer' = StartOver
    /\ buffer' = <<>> /\ hashes' = <<>> /\ size' = 0 /\ given' = <<>>
    /\ ignored' = FALSE
    /\ UNCHANGED <<sent, archive>>

\* Whether a part is skipped: Glacier listed it with the hash it has now.
Skips(i, part) == i <= Len(sent) /\ sent[i] = part

ResumePart ==
    LET n    == Smaller(PartSize, source.len - source.at)
        part == Data(source.at + 1, source.at + n)
        i    == writer.next
    IN
    /\ writer.pc = "resume" /\ n > 0
    /\ source' = [source EXCEPT !.at = @ + n]
    /\ given' = given \o part
    /\ hashes' = PutAt(hashes, i, part)
    /\ \/ /\ sent' = IF Skips(i, part) THEN sent ELSE PutAt(sent, i, part)
          /\ size' = size + n
          /\ writer' = [writer EXCEPT !.next = @ + 1]
       \/ /\ ~Skips(i, part)
          /\ sent' \in {sent, PutAt(sent, i, part)}
          /\ To("raised")
          /\ UNCHANGED size
    /\ UNCHANGED <<buffer, archive, ignored>>

ResumedAll == /\ writer.pc = "resume" /\ source.at = source.len
              /\ To("complete")
              /\ UNCHANGED <<source, buffer, hashes, size, sent, archive,
                             given, ignored>>

WriterNext == \/ Write \/ SendPart \/ Written \/ Close \/ CompleteUpload
              \/ Ignore \/ Restart \/ ResumePart \/ ResumedAll

WriterSpec == WriterInit /\ [][WriterNext]_writerVars

-----------------------------------------------------------------------------
(* Properties.                                                             *)

WriterTypeOK ==
    /\ source \in [rev : 0..MaxRevision, len : 1..MaxData, at : 0..MaxData]
    /\ writer.pc \in {"idle", "write", "flush", "complete", "closed", "raised",
                      "resume"}
    /\ writer.next \in 1..Len(hashes) + 1
    /\ \A i \in DOMAIN sent : Len(sent[i]) \in 1..PartSize
    /\ size \in 0..Len(given)

\* The archive is what the Writer was given, in order and all of it, in parts
\* that are whole but for the last, as Glacier demands, whatever the sizes of the
\* pieces, the parts that failed, and the resumed uploads of a file changed since;
\* unless the caller went on after an exception, when the part that failed may be
\* missing.
ArchiveIsGiven ==
    archive # NoArchive /\ ~ignored =>
        /\ archive = given
        /\ \A i \in 1..Len(sent) - 1 : Len(sent[i]) = PartSize
=============================================================================
