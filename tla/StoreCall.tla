----------------------------- MODULE StoreCall ------------------------------
(***************************************************************************)
(* What one run of s3.py promises its caller, whatever happens on the way: *)
(* the object it was asked about is touched only in ways the command may   *)
(* touch it, the wait status is set once, and wait status 0 means that the *)
(* command was carried out and that the object stays as it is, unless the  *)
(* call is `excused': it ended with an answer the script counts as success *)
(* without having checked that it is one.  A call that failed, or that is  *)
(* excused, may still be carried out later.                                *)
(***************************************************************************)
EXTENDS S3Errors

VARIABLES command, object, excused, exit

vars == <<command, object, excused, exit>>

Commands == {"create", "delete"}

\* What a bucket may hold under the key, seen from the file to upload: nothing,
\* something of before, the whole file, a part of it, or something else.
Objects == {"absent", "old", "whole", "partial", "damaged"}

\* What the command may make of the object.
Effects(cmd) == IF cmd = "create" THEN {"whole", "damaged"} ELSE {"absent"}

\* What the caller wants of the object.
Wanted(cmd) == IF cmd = "create" THEN "whole" ELSE "absent"

Init == /\ command \in Commands
        /\ object \in {"absent", "old"}
        /\ excused = FALSE
        /\ exit = Running

\* Whether the caller may rely on the object.
Settled == Succeeded(exit) /\ ~excused

\* The service carries out the request, possibly more than once.
Touch == /\ ~Settled
         /\ object' \in Effects(command)
         /\ UNCHANGED <<command, excused, exit>>

\* The process ends.
Return == /\ exit = Running
          /\ exit' \in Nat
          /\ excused' \in BOOLEAN
          /\ Settled' => object = Wanted(command)
          /\ UNCHANGED <<command, object>>

Next == Touch \/ Return

Spec == Init /\ [][Next]_vars
=============================================================================
