--------------------------- MODULE S3ScriptProofs ---------------------------
(***************************************************************************)
(* What every run of S3Script keeps, for every number of retries, length   *)
(* of the file and set of statuses, that it implements StoreCall, and that *)
(* it takes a bounded number of steps but for redirects.                   *)
(***************************************************************************)
EXTENDS S3Script, TLAPS

Phases == /\ pc = "exited" <=> exit # Running
          /\ pc = "exited" <=> verdict # "none"
          /\ pc = "body" => Upload
          /\ pc \in {"body", "wait"} => i <= NumRetries

\* The file is read in step with the body, from its start.
Bodies == /\ pc = "body" => sent = fp
          /\ pc = "wait" /\ Upload => sent = FileLen

\* What the service holds, what it may still make of it, and what it made of it
\* in the attempt under way.
Effects == /\ late \subseteq {Wanted}
           /\ object \in IF command = "create"
                         THEN {"absent", "old", "whole", "damaged"}
                         ELSE {"absent", "old"}
           /\ stored \in IF command = "create" THEN {"none", "whole", "damaged"}
                         ELSE {"none", "absent"}
           /\ pc = "body" => stored = "none"
           /\ pc = "wait" /\ stored = Wanted => object = Wanted

\* How the process ended and what its wait status is.
Outcomes == /\ verdict = "killed" => exit = SigKill
            /\ verdict = "raised" => exit = WaitStatus(ExitCode(err))
            /\ verdict \in {"done", "located"} => exit = WaitStatus(0)
            /\ verdict = "done" => object = Wanted

IInv == TypeOK /\ Phases /\ Bodies /\ Effects /\ Outcomes

\* The exit codes of s3.py are 0 to 9, and 0 is the code of an HTTP error that
\* errors() does not list, never of an exception without a status.
LEMMA ExitCodes ==
  ASSUME NEW s \in Nat
  PROVE  /\ ExitCode(s) \in 0..9
         /\ ExitCode(s) = 0 <=> s # NoStatus /\ s \notin DOMAIN errors
  BY DEF ExitCode, errors, NoStatus

\* A wait status made from an exit code is a number, zero only for code 0.
LEMMA WaitStatuses ==
  ASSUME NEW s \in Nat
  PROVE  /\ WaitStatus(ExitCode(s)) \in Nat
         /\ WaitStatus(ExitCode(s)) = 0 <=> ExitCode(s) = 0
  BY ExitCodes DEF WaitStatus

\* No status is mistaken for the absence of one.
LEMMA StatusesAreNumbers == Statuses \subseteq Nat /\ NoStatus \notin Statuses
  BY StatusesAssumption DEF NoStatus

\* The inductive invariant holds of a process that was just started ...
LEMMA InitIInv == Init => IInv
<1> SUFFICES ASSUME Init PROVE IInv
  OBVIOUS
<1>1. TypeOK
  BY RetriesAssumption, FileLenAssumption
  DEF Init, TypeOK, Objects, Verdicts, Running, NoStatus
<1>2. Phases
  BY DEF Init, Phases, Running
<1>3. Bodies
  BY DEF Init, Bodies
<1>4. Effects
  BY DEF Init, Effects, Wanted
<1>5. Outcomes
  BY DEF Init, Outcomes
<1> QED
  BY <1>1, <1>2, <1>3, <1>4, <1>5 DEF IInv

\* ... and every step of the process and of the service preserves it.
LEMMA NextIInv == IInv /\ [Next]_vars => IInv'
<1> SUFFICES ASSUME IInv, [Next]_vars PROVE IInv'
  OBVIOUS
<1> USE RetriesAssumption, FileLenAssumption, StatusesAssumption
<1> USE DEF IInv, TypeOK, Phases, Bodies, Effects, Outcomes, Wanted, Objects,
        Verdicts, Running, NoStatus, Upload, loop, body, store, ended
<1>1. CASE Killed
  BY <1>1 DEF Killed, End, Abandon, SigKill, Intended
<1>2. CASE LocalError
  BY <1>2, WaitStatuses DEF LocalError, Raise, End
<1>3. CASE StartRequest
  <2>1. TypeOK'
    BY <1>3 DEF StartRequest, FreshResponse
  <2>2. Phases'
    BY <1>3 DEF StartRequest, FreshResponse
  <2>3. Bodies'
    BY <1>3 DEF StartRequest, FreshResponse
  <2>4. Effects'
    BY <1>3 DEF StartRequest, FreshResponse
  <2>5. Outcomes'
    BY <1>3 DEF StartRequest, FreshResponse
  <2> QED
    BY <2>1, <2>2, <2>3, <2>4, <2>5
<1>4. CASE BeginAttempt
  BY <1>4 DEF BeginAttempt, Rewind
<1>5. CASE SendChunk
  BY <1>5 DEF SendChunk
<1>6. CASE EndBody
  <2>1. TypeOK'
    BY <1>6 DEF EndBody
  <2>2. Phases'
    BY <1>6 DEF EndBody
  <2>3. Bodies'
    BY <1>6 DEF EndBody
  <2>4. Effects'
    BY <1>6 DEF EndBody
  <2>5. Outcomes'
    BY <1>6 DEF EndBody
  <2> QED
    BY <2>1, <2>2, <2>3, <2>4, <2>5
<1>7. CASE HttpException
  <2>1. TypeOK'
    BY <1>7 DEF HttpException, OneMore, Abandon, Intended
  <2>2. Phases'
    BY <1>7 DEF HttpException, OneMore, Abandon, Intended
  <2>3. Bodies'
    BY <1>7 DEF HttpException, OneMore, Abandon, Intended
  <2>4. Effects'
    BY <1>7 DEF HttpException, OneMore, Abandon, Intended
  <2>5. Outcomes'
    BY <1>7 DEF HttpException, OneMore, Abandon, Intended
  <2> QED
    BY <2>1, <2>2, <2>3, <2>4, <2>5
<1>8. CASE CertificateRejected
  BY <1>8, WaitStatuses DEF CertificateRejected, Raise, End
<1>9. CASE Exhausted
  BY <1>9, WaitStatuses, StatusesAreNumbers DEF Exhausted, Raise, End
<1>10. CASE ServerError
  <2>1. TypeOK'
    BY <1>10 DEF ServerError, Answer, Retryable, RetryWith, OneMore
  <2>2. Phases'
    BY <1>10 DEF ServerError, Answer, Retryable, RetryWith, OneMore
  <2>3. Bodies'
    BY <1>10 DEF ServerError, Answer, Retryable, RetryWith, OneMore
  <2>4. Effects'
    BY <1>10 DEF ServerError, Answer, Retryable, RetryWith, OneMore
  <2>5. Outcomes'
    BY <1>10 DEF ServerError, Answer, Retryable, RetryWith, OneMore
  <2> QED
    BY <2>1, <2>2, <2>3, <2>4, <2>5
<1>11. CASE Redirected
  BY <1>11 DEF Redirected, Answer, AfterRedirect
<1>12. CASE BucketReady
  BY <1>12 DEF BucketReady, Answer
<1>13. CASE BucketRefused \/ DeleteRefused
  <2> PICK s \in Statuses : RaiseAnswer(s)
    BY <1>13 DEF BucketRefused, DeleteRefused
  <2>1. s \in Nat
    BY StatusesAreNumbers
  <2> QED
    BY <2>1, WaitStatuses DEF RaiseAnswer, Raise, End
<1>14. CASE Deleted
  BY <1>14 DEF Deleted, Answer, Finish, End, WaitStatus
<1>15. CASE LocatedAnswer
  BY <1>15 DEF LocatedAnswer, Answer, Finish, End, WaitStatus
<1>16. CASE Stored
  BY <1>16, WaitStatuses
  DEF Stored, Answer, ETagMatches, Finish, Raise, End, WaitStatus
<1>17. CASE RequestTimeout
  <2>1. TypeOK'
    BY <1>17 DEF RequestTimeout, Answer, RetryWith, OneMore
  <2>2. Phases'
    BY <1>17 DEF RequestTimeout, Answer, RetryWith, OneMore
  <2>3. Bodies'
    BY <1>17 DEF RequestTimeout, Answer, RetryWith, OneMore
  <2>4. Effects'
    BY <1>17 DEF RequestTimeout, Answer, RetryWith, OneMore
  <2>5. Outcomes'
    BY <1>17 DEF RequestTimeout, Answer, RetryWith, OneMore
  <2> QED
    BY <2>1, <2>2, <2>3, <2>4, <2>5
<1>18. CASE UploadRefused
  BY <1>18, WaitStatuses, StatusesAreNumbers
  DEF UploadRefused, Answer, Raise, End
<1>19. CASE ServiceApplies
  BY <1>19 DEF ServiceApplies, Intended
<1>20. CASE LateApplies
  BY <1>20 DEF LateApplies
<1>21. CASE UNCHANGED vars
  BY <1>21 DEF vars
<1>22. CASE OpenFile
  BY <1>22 DEF OpenFile
<1> QED
  BY <1>1, <1>2, <1>3, <1>4, <1>5, <1>6, <1>7, <1>8, <1>9, <1>10, <1>11, <1>12,
     <1>13, <1>14, <1>15, <1>16, <1>17, <1>18, <1>19, <1>20, <1>21, <1>22
  DEF Next, Step

-----------------------------------------------------------------------------
\* Type correctness, and the inductive invariant, of every run of the script.
THEOREM Invariant == Spec => []IInv
<1>1. Init => IInv
  BY InitIInv
<1>2. IInv /\ [Next]_vars => IInv'
  BY NextIInv
<1> QED
  BY <1>1, <1>2, PTL DEF Spec

\* Type correctness of s3.py's process, its retry loop and its upload.
THEOREM TypeCorrect == Spec => []TypeOK
<1>1. IInv => TypeOK
  BY DEF IInv
<1> QED
  BY <1>1, Invariant, PTL

\* An exit code 0 comes from Finish, or from an HTTP error errors() lacks.
LEMMA IInvExitZero == IInv => ExitZeroIsDone
<1> SUFFICES ASSUME IInv, pc = "exited", exit = 0, ~Unverified PROVE Done
  BY DEF ExitZeroIsDone, Succeeded
<1>1. verdict \in {"done", "raised", "killed"}
  BY DEF IInv, TypeOK, Verdicts, Phases, Unverified
<1>2. verdict # "killed"
  BY DEF IInv, Outcomes, SigKill
<1>3. verdict # "raised"
  <2> SUFFICES ASSUME verdict = "raised" PROVE FALSE
    OBVIOUS
  <2>1. err \in Nat
    BY StatusesAreNumbers DEF IInv, TypeOK, NoStatus
  <2>2. ExitCode(err) = 0
    BY <2>1, WaitStatuses DEF IInv, Outcomes
  <2> QED
    BY <2>1, <2>2, ExitCodes DEF Unverified
<1> QED
  BY <1>1, <1>2, <1>3 DEF IInv, Outcomes, Done

\* Exit code 0 of s3.py means that the object is as the caller wants it, but
\* for the two ways in which the script takes an unchecked answer for success.
THEOREM ExitZero == Spec => []ExitZeroIsDone
  BY Invariant, IInvExitZero, PTL

\* However often an upload is tried, the service never stores a part of the
\* file: every attempt of sender starts at the start of the file.
THEOREM WholeFiles == Spec => []NeverPartial
<1>1. IInv => NeverPartial
  BY DEF IInv, Effects, NeverPartial
<1> QED
  BY <1>1, Invariant, PTL

\* The message of formatError for an exit code of s3.py names the status that
\* led to the code: errors() and error_map are inverse to each other.
LEMMA TablesAreInverse ==
  ASSUME NEW s \in Nat, WaitStatus(ExitCode(s)) # 0,
         Reported(WaitStatus(ExitCode(s))) # NoStatus
  PROVE  \/ Reported(WaitStatus(ExitCode(s))) = s
         \/ Reported(WaitStatus(ExitCode(s))) = 400 /\ s = NoStatus
<1>1. WaitStatus(ExitCode(s)) % 256 = 0
      /\ WaitStatus(ExitCode(s)) \div 256 = ExitCode(s)
  <2>1. ExitCode(s) \in 0..9
    BY ExitCodes
  <2>2. \A n \in 0..9 : (256 * n) % 256 = 0 /\ (256 * n) \div 256 = n
    OBVIOUS
  <2> QED
    BY <2>1, <2>2 DEF WaitStatus
<1>2. DOMAIN error_map = 1..9
  BY DEF error_map
<1>3. ExitCode(s) \in 1..9
  BY ExitCodes DEF WaitStatus
<1>4. Reported(WaitStatus(ExitCode(s))) = error_map[ExitCode(s)]
  BY <1>1, <1>2, <1>3 DEF Reported
<1>5. CASE s = NoStatus
  BY <1>4, <1>5 DEF ExitCode, error_map, NoStatus
<1>6. CASE s # NoStatus
  <2>1. s \in DOMAIN errors /\ ExitCode(s) = errors[s]
    BY <1>3, <1>6 DEF ExitCode
  <2>2. s \in {400, 403, 405, 409, 411, 412, 416, 501, 503}
    BY <2>1 DEF errors
  <2>3. error_map[errors[s]] = s
    <3>1. /\ error_map[1] = 400 /\ error_map[2] = 403 /\ error_map[3] = 405
          /\ error_map[4] = 409 /\ error_map[5] = 411 /\ error_map[6] = 412
          /\ error_map[7] = 416 /\ error_map[8] = 501 /\ error_map[9] = 503
      BY DEF error_map
    <3>2. /\ errors[400] = 1 /\ errors[403] = 2 /\ errors[405] = 3
          /\ errors[409] = 4 /\ errors[411] = 5 /\ errors[412] = 6
          /\ errors[416] = 7 /\ errors[501] = 8 /\ errors[503] = 9
      BY DEF errors
    <3> QED
      BY <2>2, <3>1, <3>2
  <2> QED
    BY <1>4, <2>1, <2>3
<1> QED
  BY <1>5, <1>6

\* The dialog names the error the script met, whatever error that was.
THEOREM ErrorsAreReported == Spec => []ReportsTheAnswer
<1>1. IInv => ReportsTheAnswer
  <2> SUFFICES ASSUME IInv, pc = "exited", exit # 0, Reported(exit) # NoStatus
               PROVE  \/ Reported(exit) = err
                      \/ Reported(exit) = 400 /\ err = NoStatus
    BY DEF ReportsTheAnswer, Succeeded
  <2>1. CASE verdict = "raised"
    <3>1. err \in Nat
      BY StatusesAreNumbers DEF IInv, TypeOK, NoStatus
    <3>2. exit = WaitStatus(ExitCode(err))
      BY <2>1 DEF IInv, Outcomes
    <3> QED
      BY <3>1, <3>2, TablesAreInverse
  <2>2. CASE verdict = "killed"
    BY <2>2 DEF IInv, Outcomes, SigKill, Reported
  <2>3. CASE verdict \in {"done", "located"}
    BY <2>3 DEF IInv, Outcomes, WaitStatus
  <2> QED
    BY <2>1, <2>2, <2>3 DEF IInv, TypeOK, Verdicts, Phases
<1> QED
  BY <1>1, Invariant, PTL

-----------------------------------------------------------------------------
(* The two invariants about what _mexe has in hand.                        *)

InHand == /\ SomethingToRaise
          /\ pc \in {"body", "wait"} /\ response # NoStatus
                => response \in answers

\* What _mexe has in hand changes only between two attempts, and a redirect,
\* which forgets the answer, leaves an attempt to be made.
LEMMA NextInHand == IInv /\ InHand /\ [Next]_vars => InHand'
<1> SUFFICES ASSUME IInv, InHand, [Next]_vars PROVE InHand'
  OBVIOUS
<1> USE RetriesAssumption, StatusesAreNumbers
<1> USE DEF InHand, SomethingToRaise, loop
<1>1. CASE pc' = "exited"
  BY <1>1
<1>2. CASE StartRequest
  BY <1>2 DEF StartRequest, FreshResponse
<1>3. CASE BeginAttempt
  BY <1>3 DEF BeginAttempt
<1>4. CASE SendChunk \/ EndBody
  BY <1>4 DEF SendChunk, EndBody
<1>5. CASE HttpException
  BY <1>5 DEF HttpException
<1>6. CASE ServerError \/ RequestTimeout
  BY <1>6 DEF ServerError, RequestTimeout, Answer, RetryWith
<1>7. CASE Redirected
  BY <1>7 DEF Redirected, Answer, AfterRedirect, IInv, TypeOK, Phases
<1>8. CASE BucketReady \/ OpenFile
  BY <1>8 DEF BucketReady, OpenFile
<1>9. CASE ServiceApplies \/ LateApplies \/ UNCHANGED vars
  BY <1>9 DEF ServiceApplies, LateApplies, vars
<1>10. CASE LocalError \/ CertificateRejected \/ Exhausted \/ Killed
  BY <1>1, <1>10
  DEF LocalError, CertificateRejected, Exhausted, Killed, Raise, End
<1>11. CASE \/ BucketRefused \/ DeleteRefused \/ Deleted
            \/ LocatedAnswer \/ Stored \/ UploadRefused
  BY <1>1, <1>11
  DEF BucketRefused, DeleteRefused, RaiseAnswer, Deleted, LocatedAnswer,
      Stored, UploadRefused, Finish, Raise, End
<1> QED
  BY <1>2, <1>3, <1>4, <1>5, <1>6, <1>7, <1>8, <1>9, <1>10, <1>11
  DEF Next, Step

\* _mexe never leaves its loop without an answer or an exception to raise, and
\* an answer it raises was given to the request it was called for.
THEOREM AlwaysSomethingToRaise == Spec => []SomethingToRaise
<1>1. Init => InHand
  BY RetriesAssumption DEF Init, InHand, SomethingToRaise
<1>2. IInv /\ InHand /\ [Next]_vars => InHand'
  BY NextInHand
<1>3. InHand => SomethingToRaise
  BY DEF InHand
<1> QED
  BY <1>1, <1>2, <1>3, Invariant, PTL DEF Spec

-----------------------------------------------------------------------------
(* The script implements StoreCall.                                        *)

\* The end of the process is the Return of the call.
LEMMA EndIsReturn ==
  ASSUME IInv, IInv', pc # "exited", pc' = "exited",
         UNCHANGED <<command, object>>
  PROVE  Call!Return
<1>1. exit = Running /\ exit' \in Nat
  BY DEF IInv, TypeOK, Phases
<1>2. ExitZeroIsDone'
  BY IInvExitZero, PTL
<1> QED
  BY <1>1, <1>2
  DEF Call!Return, Call!Settled, Call!Wanted, Call!Succeeded, Succeeded,
      ExitZeroIsDone, Done, Wanted, Unverified, Call!Running, Running

\* The call begins where StoreCall begins.
LEMMA InitImplements == Init => Call!Init
  BY DEF Init, Call!Init, Call!Commands, Unverified, Call!Running, Running

\* Every step of the script is a step of StoreCall or leaves its variables alone.
LEMMA NextImplements == IInv /\ IInv' /\ [Next]_vars => [Call!Next]_(Call!vars)
<1> SUFFICES ASSUME IInv, IInv', [Next]_vars PROVE [Call!Next]_(Call!vars)
  OBVIOUS
<1> USE DEF loop, body, store, ended, Call!vars, Unverified
<1>1. CASE pc # "exited" /\ pc' = "exited" /\ UNCHANGED <<command, object>>
  BY <1>1, EndIsReturn DEF Call!Next
<1>2. CASE UNCHANGED <<command, object, ended>>
  BY <1>2
<1>3. CASE ServiceApplies
  BY <1>3
  DEF ServiceApplies, Intended, IInv, TypeOK, Phases, Bodies, Upload,
      Call!Next, Call!Touch, Call!Settled, Call!Effects, Call!Succeeded,
      Succeeded, Running
<1>4. CASE LateApplies
  <2>1. object' = Wanted
    BY <1>4 DEF LateApplies, IInv, Effects
  <2>2. Wanted \in Call!Effects(command)
    BY DEF Wanted, Call!Effects
  <2>3. CASE Call!Settled
    <3>1. object = Wanted
      BY <2>3, IInvExitZero
      DEF ExitZeroIsDone, Call!Settled, Call!Succeeded, Succeeded, Done,
          IInv, Phases, Running
    <3> QED
      BY <1>4, <2>1, <3>1 DEF LateApplies
  <2>4. CASE ~Call!Settled
    BY <1>4, <2>1, <2>2, <2>4 DEF LateApplies, Call!Next, Call!Touch
  <2> QED
    BY <2>3, <2>4
<1>5. CASE StartRequest \/ BeginAttempt \/ SendChunk \/ EndBody \/ HttpException
  BY <1>2, <1>5 DEF StartRequest, BeginAttempt, SendChunk, EndBody, HttpException
<1>6. CASE ServerError \/ RequestTimeout \/ Redirected \/ BucketReady \/ OpenFile
  BY <1>2, <1>6, ZenonT(60)
  DEF ServerError, RequestTimeout, RetryWith, Redirected, BucketReady, OpenFile
<1>7. CASE LocalError \/ CertificateRejected \/ Exhausted \/ Killed
  BY <1>1, <1>7
  DEF LocalError, CertificateRejected, Exhausted, Killed, Raise, End
<1>8. CASE \/ BucketRefused \/ DeleteRefused \/ Deleted
           \/ LocatedAnswer \/ Stored \/ UploadRefused
  <2>1. CASE BucketRefused \/ DeleteRefused
    BY <1>1, <2>1
    DEF BucketRefused, DeleteRefused, RaiseAnswer, Answer, Raise, End
  <2>2. CASE Deleted
    BY <1>1, <2>2 DEF Deleted, Answer, Finish, End
  <2>3. CASE LocatedAnswer
    BY <1>1, <2>3 DEF LocatedAnswer, Answer, Finish, End
  <2>4. CASE Stored
    BY <1>1, <2>4 DEF Stored, Answer, Finish, Raise, End
  <2>5. CASE UploadRefused
    BY <1>1, <2>5 DEF UploadRefused, Answer, Raise, End
  <2> QED
    BY <1>8, <2>1, <2>2, <2>3, <2>4, <2>5
<1> QED
  BY <1>2, <1>3, <1>4, <1>5, <1>6, <1>7, <1>8 DEF Next, Step, vars

\* Whatever the network, the service and the operating system do, a process of
\* s3.py behaves towards Lua as StoreCall says.
THEOREM Implements == Spec => CallSpec
<1>1. Init => Call!Init
  BY InitImplements
<1>2. IInv /\ IInv' /\ [Next]_vars => [Call!Next]_(Call!vars)
  BY NextImplements
<1> QED
  BY <1>1, <1>2, Invariant, PTL DEF Spec, CallSpec, Call!Spec

-----------------------------------------------------------------------------
(* The process comes to its end.                                           *)

\* The most steps that n turns of the loop take.
Turns(n) == n * (FileLen + 3)

\* Of _mexe, the turns that are left.
TurnsLeft == NumRetries + 1 - i

\* The most steps the process takes before it exits, if nothing redirects it.
StepsLeft ==
    IF pc = "exited" THEN 0
    ELSE (IF request = "bucket" THEN Turns(NumRetries + 1) + 4 ELSE 0) +
         CASE pc = "open"    -> Turns(NumRetries + 1) + 3
           [] pc = "start"   -> Turns(NumRetries + 1) + 2
           [] pc = "attempt" -> Turns(TurnsLeft) + 1
           [] pc = "body"    -> Turns(TurnsLeft - 1) + 3 + FileLen - fp
           [] pc = "wait"    -> Turns(TurnsLeft - 1) + 2

\* Each step of the process takes one from those left, but for a redirect, which
\* gives one more turn; and nothing else adds to them.
ComesCloser ==
    /\ Step => \/ StepsLeft' < StepsLeft
               \/ Redirected /\ StepsLeft' <= StepsLeft + FileLen + 2
    /\ StepsLeft' > StepsLeft => Redirected

\* One more turn takes as many steps as a body has chunks, and three.
LEMMA OneMoreTurn ==
    ASSUME NEW n \in Nat
    PROVE  /\ Turns(n) \in Nat /\ Turns(n + 1) = Turns(n) + FileLen + 3
           /\ Turns(0) = 0
  BY FileLenAssumption DEF Turns

\* The turns that are left, as the steps need them.
LEMMA TurnsAreLeft ==
    ASSUME IInv
    PROVE  /\ TurnsLeft \in Nat /\ Turns(TurnsLeft) \in Nat
           /\ Turns(NumRetries + 1) \in Nat
           /\ pc \in {"body", "wait"} =>
                 /\ Turns(TurnsLeft - 1) \in Nat
                 /\ Turns(TurnsLeft) = Turns(TurnsLeft - 1) + FileLen + 3
           /\ FileLen \in Nat /\ fp \in 0..FileLen
<1> USE RetriesAssumption, FileLenAssumption
<1>1. i \in 0..(NumRetries + 1) /\ fp \in 0..FileLen
  BY DEF IInv, TypeOK
<1>2. TurnsLeft \in Nat
  BY <1>1 DEF TurnsLeft
<1>3. ASSUME pc \in {"body", "wait"}
      PROVE  TurnsLeft - 1 \in Nat /\ (TurnsLeft - 1) + 1 = TurnsLeft
  BY <1>1, <1>3 DEF TurnsLeft, IInv, Phases
<1>4. ASSUME pc \in {"body", "wait"}
      PROVE  /\ Turns(TurnsLeft - 1) \in Nat
             /\ Turns(TurnsLeft) = Turns(TurnsLeft - 1) + FileLen + 3
  <2> DEFINE n == TurnsLeft - 1
  <2>1. n \in Nat /\ n + 1 = TurnsLeft
    BY <1>3, <1>4
  <2> HIDE DEF n
  <2>2. Turns(n) \in Nat /\ Turns(TurnsLeft) = Turns(n) + FileLen + 3
    BY <2>1, OneMoreTurn
  <2> QED BY <2>2 DEF n
<1> QED BY <1>1, <1>2, <1>4, OneMoreTurn

\* Some steps are left unless the process has exited.
LEMMA StepsAreLeft == IInv => StepsLeft \in Nat /\ (StepsLeft = 0 <=> pc = "exited")
  BY TurnsAreLeft DEF StepsLeft, IInv, TypeOK

\* The process exits.
LEMMA ExitComesCloser ==
    ASSUME IInv, pc # "exited", pc' = "exited"
    PROVE  StepsLeft' < StepsLeft
<1>1. StepsLeft' = 0
  BY DEF StepsLeft
<1> QED BY <1>1, StepsAreLeft

\* The process goes on to another attempt, one more failed.
LEMMA RetryComesCloser ==
    ASSUME IInv, pc \in {"body", "wait"}, pc' = "attempt", i' = i + 1,
           request' = request
    PROVE  StepsLeft' < StepsLeft
<1>1. TurnsLeft' = TurnsLeft - 1
  BY RetriesAssumption DEF IInv, TypeOK, TurnsLeft
<1>2. Turns(TurnsLeft)' = Turns(TurnsLeft - 1)
  BY <1>1 DEF Turns
<1>3. StepsLeft' = (IF request = "bucket" THEN Turns(NumRetries + 1) + 4 ELSE 0)
                   + Turns(TurnsLeft - 1) + 1
  BY <1>2, TurnsAreLeft DEF StepsLeft, Turns
<1>4. StepsLeft >= (IF request = "bucket" THEN Turns(NumRetries + 1) + 4 ELSE 0)
                   + Turns(TurnsLeft - 1) + 2
  BY TurnsAreLeft DEF StepsLeft
<1> QED BY <1>3, <1>4, TurnsAreLeft, StepsAreLeft

\* The process goes on within an attempt, or from one request to the next.
LEMMA StepComesCloser ==
    ASSUME IInv, Step, ~Redirected
    PROVE  StepsLeft' < StepsLeft
<1> USE RetriesAssumption, FileLenAssumption DEF loop, body, store, ended
<1>1. CASE LocalError \/ CertificateRejected \/ Exhausted
  BY <1>1, ExitComesCloser
  DEF LocalError, CertificateRejected, Exhausted, Raise, End
<1>2. CASE \/ BucketRefused \/ DeleteRefused \/ Deleted
           \/ LocatedAnswer \/ Stored \/ UploadRefused
  BY <1>2, ExitComesCloser
  DEF BucketRefused, DeleteRefused, RaiseAnswer, Deleted, LocatedAnswer,
      Stored, UploadRefused, Answer, Finish, Raise, End
<1>3. CASE HttpException
  BY <1>3, RetryComesCloser DEF HttpException, OneMore
<1>4. CASE ServerError \/ RequestTimeout
  BY <1>4, RetryComesCloser DEF ServerError, RequestTimeout, Answer, RetryWith, OneMore
<1>5. CASE OpenFile
  BY <1>5, TurnsAreLeft DEF OpenFile, StepsLeft, Turns
<1>6. CASE StartRequest
  <2>1. TurnsLeft' = NumRetries + 1
    BY <1>6 DEF StartRequest, TurnsLeft
  <2>2. Turns(TurnsLeft)' = Turns(NumRetries + 1)
    BY <2>1 DEF Turns
  <2> QED BY <1>6, <2>2, TurnsAreLeft DEF StartRequest, StepsLeft, Turns
<1>7. CASE BeginAttempt
  <2>1. TurnsLeft' = TurnsLeft /\ TurnsLeft \in Nat /\ TurnsLeft >= 1
    BY <1>7 DEF BeginAttempt, TurnsLeft, IInv, TypeOK
  <2> DEFINE n == TurnsLeft - 1
             more == IF request = "bucket" THEN Turns(NumRetries + 1) + 4 ELSE 0
  <2>2. /\ Turns(n) \in Nat /\ Turns(TurnsLeft) = Turns(n) + FileLen + 3
        /\ more \in Nat
    <3>1. n \in Nat /\ n + 1 = TurnsLeft
      BY <2>1
    <3> HIDE DEF n
    <3> QED BY <3>1, OneMoreTurn, TurnsAreLeft
  <2>3. Turns(TurnsLeft - 1)' = Turns(n) /\ more' = more
    BY <1>7, <2>1 DEF BeginAttempt, Turns
  <2>4. StepsLeft = more + Turns(TurnsLeft) + 1
    BY <1>7, <2>2 DEF BeginAttempt, StepsLeft
  <2>5. pc' \in {"body", "wait"} /\ (pc' = "body" => fp' = 0)
    BY <1>7 DEF BeginAttempt, Rewind
  <2>6. StepsLeft' = more + Turns(n) + (IF pc' = "body" THEN 3 + FileLen ELSE 2)
    <3>1. CASE pc' = "body"
      BY <2>2, <2>3, <2>5, <3>1 DEF StepsLeft
    <3>2. CASE pc' = "wait"
      BY <2>2, <2>3, <3>2 DEF StepsLeft
    <3> QED BY <2>5, <3>1, <3>2
  <2> HIDE DEF n, more
  <2> QED BY <2>2, <2>4, <2>6
<1>8. CASE SendChunk \/ EndBody
  <2>1. TurnsLeft' = TurnsLeft
    BY <1>8 DEF SendChunk, EndBody, TurnsLeft
  <2>2. Turns(TurnsLeft - 1)' = Turns(TurnsLeft - 1)
    BY <2>1 DEF Turns
  <2>3. CASE SendChunk
    BY <2>2, <2>3, TurnsAreLeft DEF SendChunk, StepsLeft, Turns
  <2>4. CASE EndBody
    BY <2>2, <2>4, TurnsAreLeft DEF EndBody, StepsLeft, Turns
  <2> QED BY <1>8, <2>3, <2>4
<1>9. CASE BucketReady
  BY <1>9, TurnsAreLeft DEF BucketReady, Answer, StepsLeft, Turns
<1> QED
  BY <1>1, <1>2, <1>3, <1>4, <1>5, <1>6, <1>7, <1>8, <1>9 DEF Step

\* A redirect gives back the turn it took.
LEMMA RedirectGivesTurn ==
    ASSUME IInv, Redirected
    PROVE  StepsLeft' <= StepsLeft + FileLen + 2
<1>1. /\ pc = "wait" /\ pc' = "attempt" /\ TurnsLeft' = TurnsLeft
      /\ request' = request
  BY DEF Redirected, Answer, AfterRedirect, TurnsLeft
<1>2. Turns(TurnsLeft)' = Turns(TurnsLeft)
  BY <1>1 DEF Turns
<1>3. StepsLeft' = (IF request = "bucket" THEN Turns(NumRetries + 1) + 4 ELSE 0)
                   + Turns(TurnsLeft) + 1
  <2>1. Turns(NumRetries + 1)' = Turns(NumRetries + 1)
    BY DEF Turns
  <2> QED BY <1>1, <1>2, <2>1, TurnsAreLeft DEF StepsLeft
<1>4. StepsLeft = (IF request = "bucket" THEN Turns(NumRetries + 1) + 4 ELSE 0)
                   + Turns(TurnsLeft - 1) + 2
  BY <1>1, TurnsAreLeft DEF StepsLeft
<1> QED BY <1>1, <1>3, <1>4, TurnsAreLeft

\* A process of s3.py that is not redirected exits after at most so many steps
\* of its own as StepsLeft says when it starts, whatever fails and is tried again,
\* for any number of retries and length of file; each redirect adds those of one
\* more attempt at most.
THEOREM Bounded ==
    Spec => /\ StepsLeft = Turns(NumRetries + 1) + Turns(NumRetries + 1) + 6
            /\ [][ComesCloser]_vars
            /\ [](StepsLeft = 0 <=> pc = "exited")
<1>1. ASSUME IInv, IInv', [Next]_vars PROVE [ComesCloser]_vars
  <2> USE <1>1
  <2>0. StepsLeft \in Nat /\ (StepsLeft \in Nat)'
    BY StepsAreLeft, PTL
  <2>1. CASE Step
    <3>1. CASE Redirected
      BY <2>1, <3>1, RedirectGivesTurn DEF ComesCloser
    <3>2. CASE ~Redirected
      BY <2>0, <2>1, <3>2, StepComesCloser DEF ComesCloser
    <3> QED BY <3>1, <3>2
  <2>2. CASE (ServiceApplies \/ LateApplies) /\ ~Step
    <3>1. UNCHANGED <<pc, request, i, fp>>
      BY <2>2 DEF ServiceApplies, LateApplies, loop, body
    <3>2. StepsLeft' = StepsLeft
      BY <3>1 DEF StepsLeft, Turns, TurnsLeft
    <3> QED BY <2>0, <2>2, <3>2 DEF ComesCloser
  <2>3. CASE Killed /\ ~Step
    BY <2>0, <2>3, ExitComesCloser DEF ComesCloser, Killed, End
  <2>4. CASE UNCHANGED vars
    BY <2>4
  <2> QED BY <2>1, <2>2, <2>3, <2>4 DEF Next
<1>2. Init => StepsLeft = Turns(NumRetries + 1) + Turns(NumRetries + 1) + 6
  BY RetriesAssumption, OneMoreTurn DEF Init, StepsLeft
<1> QED
  BY <1>1, <1>2, StepsAreLeft, Invariant, PTL DEF Spec
=============================================================================
