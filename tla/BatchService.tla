--------------------------- MODULE BatchService ---------------------------
(***************************************************************************)
(* boto/services: a Submitter stores files and writes a message for each,  *)
(* Services on any number of servers process them (service.py), and a      *)
(* ResultProcessor fetches the results (result.py).  Files and results are *)
(* in S3, messages in two SQS queues; a message that is read stays in the  *)
(* queue, invisible until it is deleted or its visibility timeout is over. *)
(***************************************************************************)
EXTENDS Integers, FiniteSets

CONSTANTS Files,
          Servers,
          Names,        \* leaf names, by which the results are stored
          RetryCount,   \* retry_count: reads in vain before a server stops, which
                        \* it does not when this is negative
          NoFile

ASSUME ServiceAssumption == RetryCount \in Int /\ NoFile \notin Files

VARIABLES resultName,  \* the name of the result of each file
          submitted,   \* how far the Submitter is with each file
          input,       \* input queue: "none", "visible", "hidden" or "gone"
          output,      \* output queue, likewise; a message has a file, and an
                       \* OutputKey that names its result or is empty
          results,     \* results[n]: the file whose result is in S3 by that name
          server,      \* main of each server, with its output message (the file,
                       \* its OutputKey) and empty_reads
          reader,      \* the ResultProcessor: where it is, and the message
          fetched      \* the files whose results it has retrieved

serviceVars == <<resultName, submitted, input, output, results, server, reader,
                 fetched>>

Keyed    == {"named", "empty"}
Outputs  == Files \X Keyed
NoOutput == <<NoFile, "empty">>

\* empty_reads: a server that has counted enough of them stops.
GoesOn(n)     == RetryCount < 0 \/ n < RetryCount
AfterEmpty(n) == [pc |-> IF GoesOn(n) THEN "read" ELSE "stopped",
                  msg |-> NoOutput, empty |-> n]
Emptier(s) == AfterEmpty(server[s].empty + 1)

ServiceInit == /\ resultName \in [Files -> Names]
               /\ submitted = [f \in Files |-> "no"]
               /\ input = [f \in Files |-> "none"]
               /\ output = [m \in Outputs |-> "none"]
               /\ results = [n \in Names |-> NoFile]
               /\ server = [s \in Servers |-> AfterEmpty(0)]
               /\ reader = [pc |-> "read", msg |-> NoOutput]
               /\ fetched = {}

\* Submitter.submit_file: the file is stored, then its message written.
Submit(f) ==
    /\ \/ /\ submitted[f] = "no"
          /\ submitted' = [submitted EXCEPT ![f] = "stored"]
          /\ UNCHANGED input
       \/ /\ submitted[f] = "stored"
          /\ submitted' = [submitted EXCEPT ![f] = "written"]
          /\ input' = [input EXCEPT ![f] = "visible"]
    /\ UNCHANGED <<resultName, output, results, server, reader, fetched>>

-----------------------------------------------------------------------------
(* Service.main.                                                           *)

\* A message is read; or none, as SQS does not look everywhere; or the read fails
\* with an exception, when it may have hidden a message.
ReadInput(s) ==
    /\ server[s].pc = "read"
    /\ \/ \E f \in Files :
             /\ input[f] = "visible"
             /\ input' = [input EXCEPT ![f] = "hidden"]
             /\ \/ server' = [server EXCEPT ![s] =
                                [pc |-> "process", msg |-> <<f, "empty">>, empty |-> 0]]
                \/ server' = [server EXCEPT ![s] = Emptier(s)]
       \/ server' = [server EXCEPT ![s] = Emptier(s)] /\ UNCHANGED input
    /\ UNCHANGED <<resultName, submitted, output, results, reader, fetched>>

\* The order is save_results, write_message, delete_message.  Mutated: the input
\* is deleted before the output is written.
DeleteEarly(pc) == CASE pc = "process" -> "delete" [] pc = "delete" -> "write"
                     [] pc = "write" -> "read"
StepAfter(pc)   == CASE pc = "process" -> "write" [] pc = "write" -> "delete"
                     [] pc = "delete" -> "read"

\* get_file, process_file and save_results: the result is stored by its leaf name,
\* whichever file the one there is of; or process_file returns no result.
Process(s) ==
    LET f == server[s].msg[1] IN
    /\ server[s].pc = "process" /\ submitted[f] # "no"
    /\ \E key \in Keyed :
          /\ results' = IF key = "empty" THEN results
                        ELSE [results EXCEPT ![resultName[f]] = f]
          /\ server' = [server EXCEPT ![s] = [@ EXCEPT !.pc = StepAfter("process"),
                                                       !.msg = <<f, key>>]]
    /\ UNCHANGED <<resultName, submitted, input, output, reader, fetched>>

\* The message of another server may be there, or fetched: it comes again.
WriteOutput(s) ==
    /\ server[s].pc = "write"
    /\ output' = [output EXCEPT ![server[s].msg] = "visible"]
    /\ server' = [server EXCEPT ![s].pc = StepAfter("write")]
    /\ UNCHANGED <<resultName, submitted, input, results, reader, fetched>>

DeleteInput(s) ==
    /\ server[s].pc = "delete"
    /\ input' = [input EXCEPT ![server[s].msg[1]] = "gone"]
    /\ server' = [server EXCEPT ![s].pc = StepAfter("delete")]
    /\ UNCHANGED <<resultName, submitted, output, results, reader, fetched>>

\* An exception anywhere in the loop counts as an empty read.
ServiceFailed(s) ==
    /\ server[s].pc \in {"process", "write", "delete"}
    /\ server' = [server EXCEPT ![s] = Emptier(s)]
    /\ UNCHANGED <<resultName, submitted, input, output, results, reader, fetched>>

-----------------------------------------------------------------------------
\* ResultProcessor.get_results_from_queue: until a read is in vain, the output
\* keys of a message are fetched and the message is deleted.
Ended == [pc |-> "end", msg |-> NoOutput]
ReadOutput ==
    /\ reader.pc = "read"
    /\ \/ \E m \in Outputs : /\ output[m] = "visible"
                             /\ output' = [output EXCEPT ![m] = "hidden"]
                             /\ reader' \in {[pc |-> "fetch", msg |-> m], Ended}
       \/ reader' = Ended /\ UNCHANGED output
    /\ UNCHANGED <<resultName, submitted, input, results, server, fetched>>

\* process_record, or an exception in it, which ends the ResultProcessor: always
\* when the OutputKey is empty, as '' names no file to write to.
Fetch ==
    LET name == resultName[reader.msg[1]] IN
    /\ reader.pc = "fetch"
    /\ \/ /\ reader.msg[2] = "named" /\ results[name] # NoFile
          /\ fetched' = fetched \cup {results[name]}
          /\ reader' = [reader EXCEPT !.pc = "delete"]
       \/ reader' = Ended /\ UNCHANGED fetched
    /\ UNCHANGED <<resultName, submitted, input, output, results, server>>

DeleteOutput ==
    /\ reader.pc = "delete"
    /\ output' = [output EXCEPT ![reader.msg] = "gone"]
    /\ reader' = [pc |-> "read", msg |-> NoOutput]
    /\ UNCHANGED <<resultName, submitted, input, results, server, fetched>>

\* Another ResultProcessor, and another server in the place of one that stopped.
ReaderAgain ==
    /\ reader.pc = "end"
    /\ reader' = [pc |-> "read", msg |-> NoOutput]
    /\ UNCHANGED <<resultName, submitted, input, output, results, server, fetched>>

ServerAgain(s) ==
    /\ server[s].pc = "stopped"
    /\ server' = [server EXCEPT ![s] = AfterEmpty(0)]
    /\ UNCHANGED <<resultName, submitted, input, output, results, reader, fetched>>

\* Visibility timeouts run out, also while the message is being processed.
Reappear ==
    /\ \/ /\ \E f \in Files : /\ input[f] = "hidden"
                              /\ input' = [input EXCEPT ![f] = "visible"]
          /\ UNCHANGED output
       \/ /\ \E m \in Outputs : /\ output[m] = "hidden"
                                /\ output' = [output EXCEPT ![m] = "visible"]
          /\ UNCHANGED input
    /\ UNCHANGED <<resultName, submitted, results, server, reader, fetched>>

ServerStep(s) == \/ ReadInput(s) \/ Process(s) \/ WriteOutput(s)
                 \/ DeleteInput(s) \/ ServiceFailed(s)

ServiceNext == \/ Reappear \/ \E f \in Files : Submit(f)
               \/ \E s \in Servers : ServerStep(s) \/ ServerAgain(s)
               \/ ReadOutput \/ Fetch \/ DeleteOutput \/ ReaderAgain

ServiceSpec == ServiceInit /\ [][ServiceNext]_serviceVars

-----------------------------------------------------------------------------
(* Properties.                                                             *)

QueueStates == {"none", "visible", "hidden", "gone"}

ServiceTypeOK ==
    /\ resultName \in [Files -> Names]
    /\ submitted \in [Files -> {"no", "stored", "written"}]
    /\ input \in [Files -> QueueStates] /\ output \in [Outputs -> QueueStates]
    /\ results \in [Names -> Files \cup {NoFile}] /\ fetched \subseteq Files
    /\ server \in [Servers -> [pc : {"read", "process", "write", "delete",
                                     "stopped"},
                               msg : Outputs \cup {NoOutput},
                               empty : Nat]]
    /\ \A s \in Servers : server[s].empty > 0 => RetryCount < 0
                                              \/ server[s].empty <= RetryCount
    /\ reader \in [pc : {"read", "fetch", "delete", "end"},
                   msg : Outputs \cup {NoOutput}]

\* The files whose results have the same name, and replace each other.
SameName(f) == {g \in Files : resultName[g] = resultName[f]}

\* A file whose message was written is not lost, though messages come again and
\* servers fail at any step: its message is in the input queue; or one in the output
\* queue names its result, and in S3 by that name is its own, or that of a file whose
\* result has the same name; or that was fetched; or, as processing it had no result,
\* a message that names none is in the output queue, from which nobody deletes it.
NothingLost ==
    \A f \in Files : submitted[f] = "written" =>
        \/ input[f] \in {"visible", "hidden"}
        \/ /\ output[<<f, "named">>] \in {"visible", "hidden"}
           /\ results[resultName[f]] \in SameName(f)
        \/ fetched \cap SameName(f) # {}
        \/ output[<<f, "empty">>] \in {"visible", "hidden"}
=============================================================================
