------------------------------ MODULE S3Script ------------------------------
(***************************************************************************)
(* One process of s3.py, with the part of boto it runs.  A command is two  *)
(* HTTP requests in a row: create_bucket, then the PUT or the DELETE of    *)
(* the object.  Each goes through the retry loop _mexe of                  *)
(* boto/connection.py; the PUT sends its body with `sender' of             *)
(* boto/s3/key.py, once per attempt.  Whatever exception leaves a request  *)
(* is turned into an exit code by the `except' clause of s3.py.            *)
(*                                                                         *)
(* The object under the key is modelled beside the process, so that what   *)
(* the exit code says can be compared with what the service holds.         *)
(***************************************************************************)
EXTENDS S3Errors

CONSTANTS NumRetries,        \* num_retries of AWSAuthConnection: 6
          FileLen,           \* length of the file, in chunks of BufferSize
          Statuses,          \* HTTP statuses the service may answer with
          LocatedStatuses    \* those that may carry a Location header

ASSUME RetriesAssumption == NumRetries \in Nat
ASSUME FileLenAssumption == FileLen \in Nat
ASSUME StatusesAssumption == /\ Statuses \subseteq 200..599
                             /\ LocatedStatuses \subseteq Statuses

VARIABLES command,    \* args['command']
          request,    \* the HTTP request under way: "bucket" or "object"
          pc,         \* where the process is
          i,          \* attempts of _mexe that failed
          response,   \* _mexe's response object, by its status; or NoStatus
          e,          \* whether an exception is held: the `e' of its handlers
          fp,         \* position of the file
          sent,       \* chunks of the body sent in this attempt
          stored,     \* what this attempt made of the object, or "none"
          late,       \* effects abandoned attempts may still have
          answers,    \* statuses answered to this request and kept in response
          object,     \* what the bucket holds under the key
          verdict,    \* how the commands of s3.py ended
          err,        \* status of the exception, when one was raised
          exit        \* wait status of the process

loop  == <<i, response, e, answers>>
body  == <<fp, sent>>
ended == <<verdict, err, exit>>
store == <<stored, late, object>>
vars  == <<command, request, pc, loop, body, store, ended>>

Objects  == {"absent", "old", "whole", "partial", "damaged"}
Verdicts == {"none", "done", "located", "raised", "killed"}

Upload == request = "object" /\ command = "create"

Init == /\ command \in {"create", "delete"}
        /\ request = "bucket" /\ pc = "start"
        /\ i = 0 /\ response = NoStatus /\ e = "none" /\ answers = {}
        /\ fp = 0 /\ sent = 0
        /\ stored = "none" /\ late = {}
        /\ object \in {"absent", "old"}
        /\ verdict = "none" /\ err = NoStatus /\ exit = Running

-----------------------------------------------------------------------------
(* Ends of the process.                                                    *)

\* What the request asks the service to make of the object, when its body had
\* so many chunks.
Intended(cmd, chunks) == IF cmd = "delete" THEN "absent"
                         ELSE IF chunks = FileLen THEN "whole" ELSE "partial"

\* The process turns away from an attempt: a request that went out whole and
\* was not carried out yet may still be, at any time.
Abandon == late' = late \cup IF pc = "wait" /\ request = "object"
                                /\ stored = "none"
                             THEN {Intended(command, sent)} ELSE {}

End(v, status, raw) == /\ pc' = "exited"
                       /\ verdict' = v /\ err' = status /\ exit' = raw

\* An exception reaches the `except' clause, or the top level, of s3.py.
Raise(status) == End("raised", status, WaitStatus(ExitCode(status)))

\* The last line of s3.py is reached.
Finish(v) == End(v, NoStatus, WaitStatus(0))

\* The operating system ends the process.
Killed == /\ pc # "exited"
          /\ End("killed", NoStatus, SigKill)
          /\ Abandon
          /\ UNCHANGED <<command, request, loop, body, stored, object>>

\* Something other than a request fails: an argument is missing or there is one
\* too many, the bucket name is not lower case, the file cannot be read.
LocalError == /\ pc \in {"start", "open"}
              /\ Raise(NoStatus)
              /\ UNCHANGED <<command, request, loop, body, store>>

-----------------------------------------------------------------------------
(* The retry loop of _mexe.                                                *)

\* _mexe is entered with fresh local variables.
FreshResponse == NoStatus

StartRequest == /\ pc = "start"
                /\ pc' = "attempt"
                /\ i' = 0 /\ response' = FreshResponse /\ e' = "none"
                /\ answers' = {}
                /\ UNCHANGED <<command, request, body, store, ended>>

\* sender puts the file back where set_contents_from_file found it.  Mutated:
\* it does not.
NoRewind(position) == position
Rewind(position)   == 0

\* One turn of the loop: the request goes out, an upload with its body to come.
BeginAttempt == /\ pc = "attempt" /\ i <= NumRetries
                /\ pc' = IF Upload THEN "body" ELSE "wait"
                /\ fp' = IF Upload THEN Rewind(fp) ELSE fp
                /\ sent' = 0
                /\ stored' = "none"
                /\ UNCHANGED <<command, request, loop, late, object, ended>>

SendChunk == /\ pc = "body" /\ fp < FileLen
             /\ fp' = fp + 1 /\ sent' = sent + 1
             /\ UNCHANGED <<command, request, pc, loop, store, ended>>

EndBody == /\ pc = "body" /\ fp = FileLen
           /\ pc' = "wait"
           /\ UNCHANGED <<command, request, loop, body, store, ended>>

\* The count of failed attempts after one more failed.  Mutated: counted twice,
\* or not at all.
TwoMore(n)   == n + 2
NoneMore(n)  == n
OneMore(n)   == n + 1

\* An attempt failed with an answer that stays in `response'.
RetryWith(s) == /\ pc' = "attempt" /\ i' = OneMore(i) /\ response' = s
                /\ answers' = answers \cup {s}
                /\ UNCHANGED <<command, request, body, store, ended>>

\* A socket or HTTP exception: a new connection, `response' left as it was.
HttpException == /\ pc \in {"body", "wait"}
                 /\ pc' = "attempt" /\ i' = OneMore(i) /\ e' = "held"
                 /\ Abandon
                 /\ UNCHANGED <<command, request, response, answers, body,
                                stored, object, ended>>

\* The certificate does not match: not retried.
CertificateRejected == /\ pc \in {"body", "wait"} /\ sent = 0 /\ stored = "none"
                       /\ Raise(NoStatus)
                       /\ UNCHANGED <<command, request, loop, body, store>>

\* The loop is left without an answer to return.
Exhausted == /\ pc = "attempt" /\ i > NumRetries
             /\ Raise(response)
             /\ UNCHANGED <<command, request, loop, body, store>>

-----------------------------------------------------------------------------
(* The service.                                                            *)

\* An attempt is carried out, perhaps with a fault that the ETag shows.
ServiceApplies == /\ pc = "wait" /\ request = "object" /\ stored = "none"
                  /\ stored' \in {Intended(command, sent)} \cup
                                 IF command = "create" THEN {"damaged"} ELSE {}
                  /\ object' = stored'
                  /\ UNCHANGED <<command, request, pc, loop, body, late, ended>>

\* So is an abandoned one, even after the process ended.
LateApplies == /\ object' \in late
               /\ UNCHANGED <<command, request, pc, loop, body, stored, late,
                              ended>>

\* An answer: its status and whether it carries a Location header.  The
\* service reports success only of what it did, and of what it did it reports
\* success, unless it fails (500, 503) in between.
Answer(s, located) ==
    /\ pc = "wait"
    /\ s \in Statuses
    /\ located => s \in LocatedStatuses
    /\ request = "object" => IF s \in 200..299 THEN stored # "none"
                             ELSE stored = "none" \/ s \in {500, 503}

Retryable(s) == s \in {500, 503}

Redirect(s, located) == located /\ s \in 300..399

\* 500 and 503 are tried again.
ServerError == \E s \in Statuses, located \in BOOLEAN :
                  /\ Answer(s, located) /\ Retryable(s)
                  /\ RetryWith(s) /\ UNCHANGED e

\* A redirect is not a failed attempt.  Mutated: it counts as one.
CountRedirect(n) == n + 1
AfterRedirect(n) == n

\* A redirect is followed at once: `response' is dropped, `i' stands still.
Redirected == \E s \in Statuses :
                 /\ Answer(s, TRUE) /\ Redirect(s, TRUE)
                 /\ pc' = "attempt" /\ response' = NoStatus
                 /\ i' = AfterRedirect(i)
                 /\ UNCHANGED <<command, request, e, answers, body, store,
                                ended>>

-----------------------------------------------------------------------------
(* What the callers of _mexe make of the answer it returns.                *)

\* create_bucket returns on 200: the object's request is next.
BucketReady == /\ request = "bucket"
               /\ \E located \in BOOLEAN : Answer(200, located)
               /\ request' = "object"
               /\ pc' = IF command = "create" THEN "open" ELSE "start"
               /\ UNCHANGED <<command, loop, body, store, ended>>

\* The file is opened and read once for its MD5 and its size; the position it
\* was found at is set again.
OpenFile == /\ pc = "open"
            /\ pc' = "start" /\ fp' = 0
            /\ UNCHANGED <<command, request, loop, sent, store, ended>>

\* _mexe returns an answer to a request without a sender, and its caller raises
\* it as an error.
RaiseAnswer(s) == /\ \E located \in BOOLEAN :
                        Answer(s, located) /\ ~Redirect(s, located)
                  /\ ~Retryable(s)
                  /\ Raise(s)
                  /\ UNCHANGED <<command, request, loop, body, store>>

\* create_bucket raises on every status but 200, delete_key on all but 204.
BucketRefused == \E s \in Statuses \ {200} : request = "bucket" /\ RaiseAnswer(s)

DeleteRefused == \E s \in Statuses \ {204} :
                    /\ request = "object" /\ command = "delete"
                    /\ RaiseAnswer(s)

Deleted == /\ request = "object" /\ command = "delete"
           /\ \E located \in BOOLEAN : Answer(204, located)
           /\ Finish("done")
           /\ UNCHANGED <<command, request, loop, body, store>>

\* should_retry lets every answer with a Location header through, and _mexe
\* returns those it does not follow: the upload counts as done.
LocatedAnswer == \E s \in Statuses :
                    /\ Upload
                    /\ Answer(s, TRUE) /\ ~Retryable(s) /\ ~Redirect(s, TRUE)
                    /\ Finish("located")
                    /\ UNCHANGED <<command, request, loop, body, store>>

\* The ETag is the MD5 of what the service stored.  Mutated: not compared.
ETagIgnored(content) == TRUE
ETagMatches(content) == content = "whole"

\* A 2xx answer to the upload: its ETag is compared with the file's MD5, and a
\* difference is an exception without a status.
Stored == \E s \in Statuses \cap 200..299 :
             /\ Upload
             /\ Answer(s, FALSE)
             /\ IF ETagMatches(stored) THEN Finish("done") ELSE Raise(NoStatus)
             /\ UNCHANGED <<command, request, loop, body, store>>

\* A 400 whose error code is RequestTimeout is tried again.
RequestTimeout == /\ Upload
                  /\ Answer(400, FALSE)
                  /\ RetryWith(400) /\ e' = "held"

\* Every other answer to the upload is raised by sender.
UploadRefused == \E s \in Statuses :
                    /\ Upload
                    /\ Answer(s, FALSE) /\ ~Retryable(s) /\ s \notin 200..299
                    /\ Raise(s)
                    /\ UNCHANGED <<command, request, loop, body, store>>

-----------------------------------------------------------------------------
Step == \/ LocalError \/ OpenFile \/ StartRequest \/ BeginAttempt \/ SendChunk \/ EndBody
        \/ HttpException \/ CertificateRejected \/ Exhausted
        \/ ServerError \/ Redirected \/ BucketReady \/ BucketRefused
        \/ DeleteRefused \/ Deleted
        \/ LocatedAnswer \/ Stored \/ RequestTimeout \/ UploadRefused

Next == Step \/ ServiceApplies \/ LateApplies \/ Killed

Spec == Init /\ [][Next]_vars

\* The operating system runs the process, and every wait for the network ends:
\* sockets have a time-out of 70 seconds.
FairSpec == Spec /\ WF_vars(Step)

-----------------------------------------------------------------------------
(* Properties.                                                             *)

TypeOK == /\ command \in {"create", "delete"}
          /\ request \in {"bucket", "object"}
          /\ pc \in {"open", "start", "attempt", "body", "wait", "exited"}
          /\ i \in 0..(NumRetries + 1)
          /\ response \in Statuses \cup {NoStatus}
          /\ e \in {"none", "held"}
          /\ fp \in 0..FileLen /\ sent \in 0..FileLen
          /\ stored \in Objects \cup {"none"}
          /\ late \subseteq Objects
          /\ answers \subseteq Statuses
          /\ object \in Objects
          /\ verdict \in Verdicts
          /\ err \in Statuses \cup {NoStatus}
          /\ exit \in Nat \cup {Running}

\* The two ways the script ends with exit code 0 without knowing that the
\* command was carried out: an HTTP error missing from errors(), and an answer
\* to an upload that was let through for its Location header.
Unverified == \/ verdict = "raised" /\ err # NoStatus /\ err \notin DOMAIN errors
              \/ verdict = "located"

\* What the caller asked for.
Wanted == IF command = "create" THEN "whole" ELSE "absent"
Done   == object = Wanted

\* Exit code 0, which create of DreamObjectsAPI.lua takes for success, means
\* that the object is stored byte for byte, or gone, and stays so whatever the
\* service still makes of abandoned attempts: through every sequence of lost
\* answers, retries and redirects, but for the two cases of Unverified.
ExitZeroIsDone == pc = "exited" /\ Succeeded(exit) => Done \/ Unverified

\* No retry ever makes the service store a part of the file: the file is at
\* its start again whenever a body is sent (key.py, sender).
NeverPartial == object # "partial"

\* _mexe never reaches `Please report this exception as a Boto Issue!': when
\* its attempts are used up there is an answer or an exception to raise, even
\* after redirects, which forget the answer; and the answer it raises was given to
\* the request it was working on, never one left over from the request before.
SomethingToRaise ==
    pc = "attempt" =>
        /\ i > NumRetries => response # NoStatus \/ e = "held"
        /\ response # NoStatus => response \in answers

\* The HTTP error named in the Lua dialog is one this process got: the code
\* 1 is shared by 400 and by every exception without a status, all other codes
\* lead back to the answer that ended the script.
ReportsTheAnswer ==
    pc = "exited" /\ ~Succeeded(exit) /\ Reported(exit) # NoStatus =>
       \/ Reported(exit) = err
       \/ Reported(exit) = 400 /\ err = NoStatus

\* Unless the service redirects for ever, the process ends: the number of
\* attempts is bounded, and only a redirect does not count as one.
Terminates == []<><<Redirected>>_vars \/ <>(pc = "exited")

-----------------------------------------------------------------------------
(* The script implements the promise made to its caller.                   *)

Call == INSTANCE StoreCall WITH excused <- Unverified

\* Whatever the network does, the process behaves as StoreCall says.
CallSpec == Call!Spec
=============================================================================
