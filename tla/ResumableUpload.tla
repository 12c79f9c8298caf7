-------------------------- MODULE ResumableUpload --------------------------
(***************************************************************************)
(* ResumableUploadHandler of boto/gs/resumable_upload_handler.py: a file   *)
(* is sent in several attempts, of several processes, within a session of  *)
(* the service.  The tracker file keeps the URI of the session; before     *)
(* each attempt the service is asked how much it has.  An MD5 is computed  *)
(* on the way and compared with the ETag in the end.                       *)
(*                                                                         *)
(* Byte i of revision r of the file is <<r, i>>.  A session is named by    *)
(* its number, 0 stands for no URI.                                        *)
(***************************************************************************)
EXTENDS Integers, Sequences, SequencesExt

CONSTANTS FileSizes,    \* lengths the file may have
          BufferSize,   \* BUFFER_SIZE
          URetries,     \* num_retries
          MaxSessions,  \* bound: sessions the service opens
          MaxEdits,     \* bound: edits of the file
          Nothing       \* no object

ASSUME FileAssumption == FileSizes \subseteq Nat
ASSUME BufferAssumption == BufferSize \in Nat \ {0}
ASSUME UBoundsAssumption == /\ URetries \in Nat /\ MaxSessions \in Nat
                            /\ MaxEdits \in Nat

VARIABLES local,     \* the file: revision and length
          sessions,  \* what the service has of each, and for which length
          stored,    \* the object
          uriFile,   \* the tracker file
          sender,    \* the process in send_file
          troubles   \* what has happened that the handler does not expect

uploadVars == <<local, sessions, stored, uriFile, sender, troubles>>

Bytes(from, to) == [i \in 1..to + 1 - from |-> <<local.rev, from + i - 1>>]
Content == Bytes(1, local.len)

Least(a, b) == IF a < b THEN a ELSE b

\* `pos' is where fp stands, `buf' what was read and is not sent yet, `sent' is
\* total_bytes_uploaded, `had' what the service had when the attempt began.
Gone == [pc |-> "down", uri |-> 0, length |-> 0, pos |-> 0, buf |-> <<>>, sent |-> 0,
         had |-> 0, digest |-> <<>>, saved |-> <<>>, tries |-> 0]

UploadInit == /\ local \in [rev : {0}, len : FileSizes]
              /\ sessions = <<>>
              /\ stored = Nothing
              /\ uriFile = 0
              /\ sender = Gone
              /\ troubles = {}

In(pc)   == sender.pc = pc
Turn(pc) == sender' = [sender EXCEPT !.pc = pc]
Drop(pc) == sender' = [sender EXCEPT !.pc = pc, !.buf = <<>>]

\* ABORT removes the tracker file; an exception of another class, and
\* ABORT_CUR_PROCESS, leave it.
Aborts == Turn("raised") /\ uriFile' = 0
Fails  == (Turn("failed") \/ Turn("raised")) /\ UNCHANGED uriFile

-----------------------------------------------------------------------------
\* send_file in a new process.
Begin ==
    /\ sender.pc \in {"down", "raised"}
    /\ \E uri \in {uriFile, 0} :
          sender' = [Gone EXCEPT !.pc = "attempt", !.uri = uri,
                                 !.length = local.len]
    /\ UNCHANGED <<local, sessions, stored, uriFile, troubles>>

\* The hashes of what the service has already.  Mutated: they are left out.
NotCaught(n) == sender.digest
CaughtUp(n)  == sender.digest \o Bytes(1, Least(n, local.len))

\* fp.seek.  Mutated: fp stays where it is.
NoSeek(n)   == sender.pos
SoughtTo(n) == n

\* _attempt_resumable_upload, up to the PUT or a new session.  The digests are
\* saved before.  When the service has one byte its end is 0, which is taken
\* for no answer; for a new session fp stays where it is.
Resume ==
    LET s     == sessions[sender.uri]
        n     == IF s.state = "complete" THEN sender.length ELSE Len(s.bytes)
        saved == [sender EXCEPT !.saved = sender.digest,
                                !.had = Len(s.bytes), !.sent = n]
    IN
    /\ In("attempt") /\ sender.uri # 0
    /\ \/ /\ s.state # "gone" /\ n # 1 /\ n <= local.len
          /\ sender' = [saved EXCEPT !.pc = "put", !.pos = SoughtTo(n),
                                     !.digest = CaughtUp(n)]
          /\ UNCHANGED <<uriFile, troubles>>
       \/ /\ s.state # "gone" /\ n = 1
          /\ sender' = [saved EXCEPT !.pc = "put"]
          /\ UNCHANGED uriFile
          /\ troubles' = troubles \cup {"onebyte"}
       \/ /\ s.state # "gone" /\ n # 1 /\ n > local.len  \* the file ends before
          /\ sender' = [saved EXCEPT !.pc = "start", !.pos = local.len,
                                     !.digest = CaughtUp(n)]
          /\ UNCHANGED <<uriFile, troubles>>
       \/ /\ s.state = "gone"
          /\ sender' = [saved EXCEPT !.pc = "start", !.sent = 0]
          /\ UNCHANGED uriFile
          /\ troubles' = troubles \cup
                            IF sender.pos = 0 THEN {} ELSE {"startover"}
       \/ /\ Fails
          /\ UNCHANGED troubles
    /\ UNCHANGED <<local, sessions, stored>>

Fresh ==
    /\ In("attempt") /\ sender.uri = 0
    /\ sender' = [sender EXCEPT !.pc = "start", !.saved = sender.digest,
                                !.sent = 0]
    /\ UNCHANGED <<local, sessions, stored, uriFile, troubles>>

\* _start_new_resumable_upload: the POST, and the tracker file.
StartNew ==
    /\ In("start")
    /\ \/ /\ Len(sessions) < MaxSessions
          /\ sessions' = Append(sessions, [bytes |-> <<>>, state |-> "open",
                                           length |-> sender.length])
          /\ sender' = [sender EXCEPT !.pc = "save", !.uri = Len(sessions) + 1,
                                       !.had = 0]
          /\ UNCHANGED uriFile
       \/ (Fails \/ Aborts) /\ UNCHANGED sessions
    /\ UNCHANGED <<local, stored, troubles>>

SaveUri ==
    /\ In("save")
    /\ \/ Turn("put") /\ uriFile' = sender.uri
       \/ Aborts
    /\ UNCHANGED <<local, sessions, stored, troubles>>

-----------------------------------------------------------------------------
(* _upload_file_bytes.                                                     *)

\* What the service makes of more bytes: it takes those within the length it was
\* told, and has the object when it has that many.
Received(s, new) ==
    LET bytes == s.bytes \o SubSeq(new, 1, Least(Len(new),
                                                 s.length - Len(s.bytes)))
    IN [s EXCEPT !.bytes = bytes,
                 !.state = IF Len(bytes) = s.length THEN "complete" ELSE "open"]

Receive(new) ==
    LET s == sessions[sender.uri] IN
    /\ sessions' = IF s.state = "open"
                   THEN [sessions EXCEPT ![sender.uri] = Received(s, new)]
                   ELSE sessions
    /\ stored' = IF s.state = "open" /\ Received(s, new).state = "complete"
                 THEN Received(s, new).bytes ELSE stored

\* fp.read(BUFFER_SIZE), of nothing when fp stands at the end or beyond it.
ToRead == Bytes(sender.pos + 1, Least(sender.pos + BufferSize, local.len))

FirstRead ==
    /\ In("put")
    /\ sender' = [sender EXCEPT !.pc = "body", !.buf = ToRead, !.pos = @ + Len(ToRead)]
    /\ UNCHANGED <<local, sessions, stored, uriFile, troubles>>

\* The buffer is sent, hashed and counted, and the next one read ahead.
Send ==
    /\ In("body") /\ sender.buf # <<>>
    /\ sender' = [sender EXCEPT !.sent = @ + Len(sender.buf),
                                !.digest = @ \o sender.buf,
                                !.buf = ToRead, !.pos = @ + Len(ToRead)]
    /\ Receive(sender.buf)
    /\ UNCHANGED <<local, uriFile, troubles>>

\* The file has been read to its end; `changed' is the exception when that is
\* not its length.  The body is over, also that of an empty file.
Sent ==
    /\ In("body") /\ sender.buf = <<>>
    /\ Turn(IF sender.sent = sender.length THEN "answer" ELSE "changed")
    /\ Receive(<<>>)
    /\ UNCHANGED <<local, uriFile, troubles>>

\* The service keeps some of what this attempt sent, the buffer it was sending
\* included, unless it is complete.
KeepsSome ==
    LET s   == sessions[sender.uri]
        got == s.bytes \o sender.buf
    IN
    \E k \in sender.had..Len(got) :
       sessions' = IF s.state = "open" /\ k < s.length
                   THEN [sessions EXCEPT ![sender.uri].bytes = SubSeq(got, 1, k)]
                   ELSE sessions

\* socket.error, or another status than 200: the service is queried before the
\* exception goes on.  Other exceptions are retried at once, with fp where the
\* reads have left it.
Broken ==
    /\ sender.pc \in {"put", "body", "answer"}
    /\ KeepsSome
    /\ Drop("failed") \/ Drop("query")
    /\ UNCHANGED <<local, stored, uriFile, troubles>>

\* _query_server_state after a failure: 400 aborts, another answer lets the
\* exception go on, and an exception takes its place; so each of them may abort,
\* be retried or be raised.
Queried ==
    /\ sender.pc \in {"query", "changed"}
    /\ Aborts \/ Fails
    /\ UNCHANGED <<local, sessions, stored, troubles>>

-----------------------------------------------------------------------------
\* Status 200: the tracker file is removed, then the MD5 compared.
Accepted ==
    /\ In("answer") /\ sessions[sender.uri].state = "complete"
    /\ Turn(IF sender.digest = sessions[sender.uri].bytes
            THEN "done" ELSE "delete")
    /\ uriFile' = 0
    /\ UNCHANGED <<local, sessions, stored, troubles>>

\* _check_final_md5: the object is read and deleted.
Delete ==
    /\ In("delete")
    /\ \/ stored' = Nothing /\ Aborts
       \/ UNCHANGED stored /\ Fails
    /\ UNCHANGED <<local, sessions, troubles>>

\* track_progress_less_iterations: server_has_bytes is where the range begins
\* that the service has, which is 0, so nothing ever counts as progress; the
\* digests are rolled back.
RolledBack == sender.saved

TriesLeft == sender.tries + 1 <= URetries
Counted   == sender.tries + 1
CountTry ==
    /\ In("failed")
    /\ sender' = IF TriesLeft
                 THEN [sender EXCEPT !.pc = "attempt", !.tries = Counted,
                                     !.digest = RolledBack]
                 ELSE [sender EXCEPT !.pc = "raised"]
    /\ UNCHANGED <<local, sessions, stored, uriFile, troubles>>

UploadStep == \/ Resume \/ Fresh \/ StartNew \/ SaveUri \/ FirstRead
              \/ Send \/ Sent \/ Broken \/ Queried \/ Accepted \/ Delete \/ CountTry

UploadKilled ==
    /\ sender.pc \notin {"down", "raised", "done"}
    /\ sender' = Gone
    /\ uriFile' \in {uriFile} \cup (IF In("save") THEN {0} ELSE {})
    /\ \/ sender.pc \in {"put", "body"} /\ KeepsSome
       \/ UNCHANGED sessions
    /\ UNCHANGED <<local, stored, troubles>>

\* The service forgets a session.
Expire == /\ \E u \in DOMAIN sessions :
                sessions' = [sessions EXCEPT ![u] = [@ EXCEPT !.state = "gone"]]
          /\ UNCHANGED <<local, stored, uriFile, sender, troubles>>

\* The user changes the file.
Edit == /\ local.rev < MaxEdits
        /\ local' \in [rev : {local.rev + 1}, len : FileSizes]
        /\ troubles' = troubles \cup {"edited"}
        /\ UNCHANGED <<sessions, stored, uriFile, sender>>

UploadNext == Begin \/ UploadStep \/ UploadKilled \/ Expire \/ Edit

UploadSpec == UploadInit /\ [][UploadNext]_uploadVars

-----------------------------------------------------------------------------
(* Properties.                                                             *)

UploadTypeOK ==
    /\ local.rev \in 0..MaxEdits /\ local.len \in FileSizes
    /\ Len(sessions) <= MaxSessions
    /\ \A u \in DOMAIN sessions :
          sessions[u].state \in {"open", "complete", "gone"}
    /\ uriFile \in 0..Len(sessions) /\ sender.uri \in 0..Len(sessions)
    /\ sender.pc \in {"down", "attempt", "start", "save", "put", "body",
                      "answer", "changed", "query", "failed", "delete", "raised", "done"}
    /\ sender.tries \in 0..URetries
    /\ troubles \subseteq {"onebyte", "startover", "edited"}

\* Whatever attempts, kills, resumed and expired sessions it took, an object on
\* the service is the file, and a finished upload has put it there; none is
\* refused because the file had changed, and none deleted for its MD5, as catching
\* up and rolling back keep the digest of each byte once.  But for three troubles:
\* the file was edited, the service had exactly one byte of it, or a retry started
\* over with fp in the middle.
StoredIsFile ==
    troubles = {} => /\ stored \in {Nothing, Content}
                     /\ In("done") => stored = Content
                     /\ sender.pc \notin {"changed", "delete"}

\* Every process ends, after no more than num_retries retries.
UploadEnds == In("attempt") ~> sender.pc \in {"done", "raised", "down"}
=============================================================================
