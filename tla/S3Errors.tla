------------------------------ MODULE S3Errors ------------------------------
(***************************************************************************)
(* How the outcome of one s3.py process reaches the user: the exception    *)
(* that ended the script becomes an exit code (s3.py), the shell hands it  *)
(* to Lua as a wait status, runcommand tests that status and formatError   *)
(* turns it back into the HTTP error named in the dialog                   *)
(* (DreamObjectsAPI.lua).                                                  *)
(***************************************************************************)
EXTENDS Integers, Sequences

NoStatus == 0        \* an exception without a `status' attribute
Running  == -1       \* the process has not ended
SigKill  == 9        \* wait status of a process ended by a signal

\* The HTTP errors s3.py knows, with their exit codes.
errors == [s \in {400, 403, 405, 409, 411, 412, 416, 501, 503} |->
             CASE s = 400 -> 1 [] s = 403 -> 2 [] s = 405 -> 3
               [] s = 409 -> 4 [] s = 411 -> 5 [] s = 412 -> 6
               [] s = 416 -> 7 [] s = 501 -> 8 [] s = 503 -> 9]

\* Mutated: an exception without a status is looked up as well.
ExitCodeByGet(status) == IF status \in DOMAIN errors THEN errors[status] ELSE 0

\* The exit code of an exception that reaches the `except' clause of s3.py:
\* errors().get(status), where None is exit code 0, or, without a status, the
\* exit code 1 of an uncaught exception.
ExitCode(status) == IF status = NoStatus THEN 1
                    ELSE IF status \in DOMAIN errors THEN errors[status]
                    ELSE 0

\* The wait status LrTasks.execute returns for a script that ended by itself.
WaitStatus(code) == 256 * code

\* The list of messages of formatError, each stood for by its HTTP status.
error_map == <<400, 403, 405, 409, 411, 412, 416, 501, 503>>

\* runcommand's `status == 0', which create tests again.
Succeeded(raw) == raw = 0

\* The HTTP error the dialog names for a failed command, or NoStatus when it
\* shows the number itself: raw / 256 indexes the list only when it is whole.
Reported(raw) == IF raw % 256 = 0 /\ raw \div 256 \in DOMAIN error_map
                 THEN error_map[raw \div 256] ELSE NoStatus
=============================================================================
