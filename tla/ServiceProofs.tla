--------------------------- MODULE ServiceProofs ---------------------------
(***************************************************************************)
(* That what boto keeps in queues and items of services is not lost, for   *)
(* any processes that share them.                                          *)
(*                                                                         *)
(* Of the task queue: TaskKept is not inductive.  That PutTask names a     *)
(* message which is in the queue, and not the one this or another poller   *)
(* is about to delete, rests on where the ids come from.  TaskInv says of  *)
(* a message that a poller has written and not put yet that it is in the   *)
(* queue and not one that any poller has found to be current and will      *)
(* delete, unless SQS dropped it or a task without an id took it.          *)
(*                                                                         *)
(* Of the sequence: EveryPutCounts is inductive only together with what a  *)
(* client has in hand.  A put of next is of the value read plus one, so    *)
(* the condition on the value read is one on the number of puts before.    *)
(*                                                                         *)
(* Of the batch service: ServiceInv follows the order of Service.main.  A  *)
(* server that is to write a message that names a result has saved it, and *)
(* one that is to delete the input message has written the output message; *)
(* what became of that since, it was written once and is deleted only when *)
(* something was fetched by that name.                                     *)
(*                                                                         *)
(* Of the DynamoDB item: what a save expects of a field is what the Item   *)
(* last knew of it (ExpectsBase), but of a field assigned twice; and what  *)
(* it last knew is what the row has, but where the read was behind or      *)
(* others wrote since (KnowsRow).                                          *)
(*                                                                         *)
(* Of the schedule of a task: a task that has been executed is always put  *)
(* off to a time from which check brings it to its next hour, as late in   *)
(* it as it was the last time and as its message waited since (InDay).     *)
(***************************************************************************)
EXTENDS TaskQueue, Sequence, BatchService, DynamoItem, TaskSchedule, TLAPS

-----------------------------------------------------------------------------
(* The task queue.                                                          *)

\* Pollers that found their message to be that of the task, or started it.
Busy(p) == poller[p].pc \in {"check", "write", "put", "delete"}

\* Where a poller is and what it holds agree.
PollersHold == \A p \in Pollers :
           /\ poller[p].pc \in {"load", "check", "write", "delete"}
              => poller[p].msg \in Messages
           /\ poller[p].pc = "put" => poller[p].new \in Messages

\* The messages written and not yet put.
Fresh == troubles = {} =>
    \A q \in Pollers : poller[q].pc = "put" =>
       /\ poller[q].new \in inQueue
       /\ \A p \in Pollers : Busy(p) => poller[p].msg # poller[q].new

TaskInv == TaskTypeOK /\ TaskKept /\ PollersHold /\ Fresh

USE MessagesAssumption, KillsAssumption

\* The invariant holds at first.
LEMMA TaskInitHolds == TaskInit => TaskInv
<1> SUFFICES ASSUME TaskInit PROVE TaskInv
  OBVIOUS
<1>1. \A p \in Pollers : poller[p] = Polling
  BY DEF TaskInit
<1>2. TaskTypeOK
  BY DEF TaskInit, TaskTypeOK, Polling
<1>3. TaskKept /\ PollersHold /\ Fresh
  BY <1>1 DEF TaskInit, TaskKept, PollersHold, Fresh, Busy, Polling
<1> QED
  BY <1>2, <1>3 DEF TaskInv

\* It holds after each step.
LEMMA TaskStepHolds == TaskInv /\ [TaskNext]_taskVars => TaskInv'
<1> SUFFICES ASSUME TaskInv, [TaskNext]_taskVars PROVE TaskInv'
  OBVIOUS
<1> USE DEF TaskInv, TaskTypeOK, TaskKept, PollersHold, Fresh, Busy
<1>1. ASSUME NEW p \in Pollers, ReadMessage(p) PROVE TaskInv'
  <2>1. PICK m \in visible :
           /\ poller' = [poller EXCEPT ![p].pc = "load", ![p].msg = m]
           /\ visible' = visible \ {m}
    BY <1>1 DEF ReadMessage
  <2>2. /\ poller'[p] = [pc |-> "load", msg |-> m, new |-> poller[p].new]
        /\ \A q \in Pollers \ {p} : poller'[q] = poller[q]
    BY <2>1, ZenonT(60)
  <2>3. TaskTypeOK' /\ TaskKept'
    BY <1>1, <2>1, <2>2 DEF ReadMessage
  <2>4. PollersHold' /\ Fresh'
    BY <1>1, <2>1, <2>2 DEF ReadMessage
  <2> QED
    BY <2>3, <2>4
<1>2. ASSUME NEW p \in Pollers, Load(p) PROVE TaskInv'
  <2>1. /\ poller[p].pc = "load"
        /\ UNCHANGED <<inQueue, visible, taskId, earlier, kills>>
    BY <1>2 DEF Load
  <2>2. CASE /\ poller' = [poller EXCEPT ![p].pc = "check"]
             /\ troubles' = IF Unput(poller[p].msg)
                            THEN troubles \cup {"early"} ELSE troubles
    <3>1. /\ poller'[p] = [pc |-> "check", msg |-> poller[p].msg,
                           new |-> poller[p].new]
          /\ \A q \in Pollers \ {p} : poller'[q] = poller[q]
      BY <2>2
    <3>2. troubles' = {} => troubles = {} /\ ~ Unput(poller[p].msg)
      BY <2>2
    <3>3. TaskTypeOK' /\ PollersHold'
      BY <2>1, <2>2, <3>1
    <3>4. TaskKept' /\ Fresh'
      BY <2>1, <3>1, <3>2 DEF Unput
    <3> QED
      BY <3>3, <3>4
  <2>3. CASE poller' = [poller EXCEPT ![p] = Polling] /\ UNCHANGED troubles
    BY <2>1, <2>3 DEF Polling
  <2> QED
    BY <1>2, <2>2, <2>3 DEF Load
<1>3. ASSUME NEW p \in Pollers, Wait(p) \/ RunCommand(p) PROVE TaskInv'
  BY <1>3 DEF Wait, RunCommand, Polling
<1>4. ASSUME NEW p \in Pollers, Extend(p) PROVE TaskInv'
  BY <1>4 DEF Extend
<1>5. ASSUME NEW p \in Pollers, WriteNext(p) PROVE TaskInv'
  <2>1. PICK m \in Unused :
           /\ poller' = [poller EXCEPT ![p].pc = "put", ![p].new = m]
           /\ inQueue' = inQueue \cup {m}
           /\ visible' = visible \cup {m}
    BY <1>5 DEF WriteNext, Following
  <2>2. /\ m \in Messages /\ m \notin inQueue /\ m # taskId
        /\ \A q \in Pollers : poller[q].msg # m /\ poller[q].new # m
    BY DEF Unused
  <2>3. /\ poller'[p] = [pc |-> "put", msg |-> poller[p].msg, new |-> m]
        /\ \A q \in Pollers \ {p} : poller'[q] = poller[q]
    BY <2>1
  <2>4. TaskTypeOK' /\ TaskKept'
    BY <1>5, <2>1, <2>2, <2>3 DEF WriteNext
  <2>5. PollersHold' /\ Fresh'
    BY <1>5, <2>1, <2>2, <2>3 DEF WriteNext
  <2> QED
    BY <2>4, <2>5
<1>6. ASSUME NEW p \in Pollers, PutTask(p) PROVE TaskInv'
  <2>1. /\ taskId' = poller[p].new /\ earlier' = earlier \cup {taskId}
        /\ UNCHANGED <<inQueue, visible, kills, troubles>>
    BY <1>6 DEF PutTask, NewId
  <2>2. CASE poller[p].msg = NoMessage
    <3>1. poller' = [poller EXCEPT ![p] = Polling]
      BY <1>6, <2>2 DEF PutTask
    <3> QED
      BY <1>6, <2>1, <3>1 DEF PutTask, Polling
  <2>3. CASE poller[p].msg # NoMessage
    <3>1. poller' = [poller EXCEPT ![p] = [poller[p] EXCEPT !.pc = "delete"]]
      BY <1>6, <2>3 DEF PutTask, Following
    <3>2. /\ poller'[p] = [pc |-> "delete", msg |-> poller[p].msg,
                            new |-> poller[p].new]
          /\ \A q \in Pollers \ {p} : poller'[q] = poller[q]
      BY <3>1
    <3>3. poller[p].pc = "put"
      BY <1>6 DEF PutTask
    <3>4. poller[p].msg \in Messages
      BY <2>3
    <3>5. TaskTypeOK' /\ TaskKept'
      BY <2>1, <3>1, <3>2, <3>3, <3>4
    <3>6. PollersHold' /\ Fresh'
      BY <2>1, <3>2, <3>3, <3>4
    <3> QED
      BY <3>5, <3>6
  <2> QED
    BY <2>2, <2>3
<1>7. ASSUME NEW p \in Pollers, DeleteMessage(p) PROVE TaskInv'
  <2>1. poller' = [poller EXCEPT ![p] = Polling]
    BY <1>7 DEF DeleteMessage, Following
  <2> QED
    BY <1>7, <2>1 DEF DeleteMessage, Polling
<1>8. ASSUME NEW p \in Pollers, StartTask(p) PROVE TaskInv'
  <2>1. PICK m \in Unused :
           /\ poller' = [poller EXCEPT ![p] = [pc |-> "put", msg |-> NoMessage,
                                               new |-> m]]
           /\ inQueue' = inQueue \cup {m}
           /\ visible' = visible \cup {m}
    BY <1>8 DEF StartTask
  <2>2. /\ m \in Messages /\ m \notin inQueue /\ m # taskId
        /\ \A q \in Pollers : poller[q].msg # m /\ poller[q].new # m
    BY DEF Unused
  <2>3. /\ poller'[p] = [pc |-> "put", msg |-> NoMessage, new |-> m]
        /\ \A q \in Pollers \ {p} : poller'[q] = poller[q]
    BY <2>1
  <2>4. /\ kills < MaxKills /\ kills' = kills + 1
        /\ UNCHANGED <<taskId, earlier, troubles>>
    BY <1>8 DEF StartTask
  <2>5. TaskTypeOK' /\ TaskKept'
    BY <2>1, <2>2, <2>3, <2>4
  <2>6. PollersHold' /\ Fresh'
    BY <2>1, <2>2, <2>3, <2>4
  <2> QED
    BY <2>5, <2>6
<1>9. ASSUME NEW p \in Pollers, PollerKilled(p) PROVE TaskInv'
  <2>1. poller' = [poller EXCEPT ![p] = Polling]
    BY <1>9 DEF PollerKilled
  <2>2. kills < MaxKills /\ kills' = kills + 1
    BY <1>9 DEF PollerKilled
  <2>3. UNCHANGED <<inQueue, visible, taskId, earlier, troubles>>
    BY <1>9 DEF PollerKilled
  <2> QED
    BY <2>1, <2>2, <2>3 DEF Polling
<1>10. ASSUME NEW m \in Messages, TimesOut(m) PROVE TaskInv'
  BY <1>10 DEF TimesOut
<1>11. ASSUME NEW m \in Messages, Retire(m) PROVE TaskInv'
  <2>1. troubles' = {} => troubles = {} /\ m # taskId /\ ~ Unput(m)
    BY <1>11 DEF Retire
  <2>2. TaskTypeOK' /\ PollersHold'
    BY <1>11 DEF Retire
  <2>3. TaskKept' /\ Fresh'
    BY <1>11, <2>1 DEF Retire, Unput
  <2> QED
    BY <2>2, <2>3
<1>12. CASE Settle
  BY <1>12 DEF Settle
<1>13. CASE UNCHANGED taskVars
  BY <1>13 DEF taskVars
<1> QED
  BY <1>1, <1>2, <1>3, <1>4, <1>5, <1>6, <1>7, <1>8, <1>9, <1>10, <1>11, <1>12, <1>13
  DEF TaskNext, PollerStep

\* The message a task waits for is in the queue, and pollers delete only
\* messages no task waits for, whatever pollers do and whenever they die, until
\* SQS drops it or a task without an id takes one that is not put yet.
THEOREM TaskIsKept == TaskSpec => []TaskKept
<1>1. TaskInv => TaskKept
  BY DEF TaskInv
<1> QED
  BY <1>1, TaskInitHolds, TaskStepHolds, PTL DEF TaskSpec

\* What pollers, the queue and the task are keeps its type.
THEOREM TaskTyping == TaskSpec => []TaskTypeOK
<1>1. TaskInv => TaskTypeOK
  BY DEF TaskInv
<1> QED
  BY <1>1, TaskInitHolds, TaskStepHolds, PTL DEF TaskSpec

-----------------------------------------------------------------------------
(* The sequence.                                                            *)

\* What a client is about to put.
InHand == \A c \in Clients :
             /\ counter[c].pc = "init" => /\ counter[c].value \in {Unset, 0}
                                          /\ counter[c].put = 0
             /\ counter[c].pc = "put" => /\ counter[c].value # Unset
                                         /\ counter[c].put = counter[c].value + 1

SequenceInv == SequenceTypeOK /\ EveryPutCounts /\ InHand

USE SequenceAssumption

\* The invariant holds at first.
LEMMA SequenceInitHolds == SequenceInit => SequenceInv
  BY DEF SequenceInit, SequenceInv, SequenceTypeOK, EveryPutCounts, InHand

Objects == [pc : {"new", "init", "ready", "put", "return", "error"},
            value : 0..MaxValue \cup {Unset}, last : 0..MaxValue \cup {Unset},
            put : 0..MaxValue \cup {Unset}, result : 0..MaxValue \cup {Unset}]

\* A read leaves a client with values of the right types.
LEMMA GotType == ASSUME SequenceTypeOK, NEW c \in Clients
                 PROVE  /\ Got(counter[c]) \in Objects
                        /\ Got(counter[c]).pc = counter[c].pc
                        /\ Got(counter[c]).put = counter[c].put
  BY DEF Got, SequenceTypeOK, Objects

\* What becomes of an object that moves on.
LEMMA Moves ==
    ASSUME NEW g \in Objects,
           NEW pc \in {"new", "init", "ready", "put", "return", "error"}
    PROVE  LET h == [g EXCEPT !.pc = pc] IN h \in Objects /\ h.pc = pc
  BY DEF Objects

LEMMA Starts ==
    ASSUME NEW g \in Objects
    PROVE  LET h == [g EXCEPT !.pc = "init", !.put = 0]
           IN h \in Objects /\ h.pc = "init" /\ h.put = 0 /\ h.value = g.value
<1>1. 0 \in 0..MaxValue \cup {Unset}
  OBVIOUS
<1> QED BY <1>1 DEF Objects

LEMMA Counts ==
    ASSUME NEW g \in Objects, NEW n \in 0..MaxValue
    PROVE  LET h == [g EXCEPT !.pc = "put", !.put = n, !.result = Unset]
           IN /\ h \in Objects /\ h.pc = "put"
              /\ h.put = n /\ h.value = g.value
  BY DEF Objects

LEMMA Returns ==
    ASSUME NEW g \in Objects, NEW n \in 0..MaxValue \cup {Unset}
    PROVE  LET h == [g EXCEPT !.pc = "ready", !.result = n]
           IN h \in Objects /\ h.pc = "ready"
  BY DEF Objects

\* A step of one client that has nothing, or the next value, to put after it.
LEMMA OneObject ==
    ASSUME SequenceInv, NEW c \in Clients, NEW h \in Objects,
           counter' = [counter EXCEPT ![c] = h],
           UNCHANGED <<stored, counted>>,
           h.pc = "init" => h.value \in {Unset, 0} /\ h.put = 0,
           h.pc = "put" => h.value # Unset /\ h.put = h.value + 1
    PROVE  SequenceInv'
<1>1. /\ counter' \in [Clients -> Objects] /\ counter'[c] = h
      /\ \A d \in Clients \ {c} : counter'[d] = counter[d]
  BY DEF SequenceInv, SequenceTypeOK, Objects
<1>2. SequenceTypeOK' /\ EveryPutCounts'
  BY <1>1 DEF SequenceInv, SequenceTypeOK, EveryPutCounts, Objects
<1>3. InHand'
  BY <1>1 DEF SequenceInv, InHand
<1> QED BY <1>2, <1>3 DEF SequenceInv

\* It holds after each step.
LEMMA SequenceStepHolds == SequenceInv /\ [SequenceNext]_sequenceVars => SequenceInv'
<1> SUFFICES ASSUME SequenceInv, [SequenceNext]_sequenceVars PROVE SequenceInv'
  OBVIOUS
<1>1. ASSUME NEW c \in Clients, Construct(c) PROVE SequenceInv'
  <2>1. PICK g : g = Got(counter[c])
    OBVIOUS
  <2>2. g \in Objects
    BY <2>1, GotType DEF SequenceInv
  <2>3. CASE g.value \in {Unset, 0}
    <3>1. PICK h : h = [g EXCEPT !.pc = "init", !.put = 0]
      OBVIOUS
    <3>2. h \in Objects /\ h.pc = "init" /\ h.put = 0 /\ h.value \in {Unset, 0}
      BY <2>2, <2>3, <3>1, Starts
    <3>3. counter' = [counter EXCEPT ![c] = h]
      BY <1>1, <2>1, <2>3, <3>1 DEF Construct
    <3> QED
      BY <1>1, <3>2, <3>3, OneObject DEF Construct
  <2>4. CASE g.value \notin {Unset, 0}
    <3>1. PICK h : h = [g EXCEPT !.pc = "ready"]
      OBVIOUS
    <3>2. h \in Objects /\ h.pc = "ready"
      BY <2>2, <3>1, Moves
    <3>3. counter' = [counter EXCEPT ![c] = h]
      BY <1>1, <2>1, <2>4, <3>1 DEF Construct
    <3> QED
      BY <1>1, <3>2, <3>3, OneObject DEF Construct
  <2> QED
    BY <2>3, <2>4
<1>2. ASSUME NEW c \in Clients, CountUp(c) PROVE SequenceInv'
  <2>1. PICK g : g = Got(counter[c])
    OBVIOUS
  <2>2. g \in Objects
    BY <2>1, GotType DEF SequenceInv
  <2>3. /\ g.value \in Nat /\ g.value # Unset /\ g.value + 1 \in 0..MaxValue
        /\ fnc(g.value) = g.value + 1
    BY <1>2, <2>1, <2>2 DEF CountUp, fnc, Objects
  <2>4. PICK h : h = [g EXCEPT !.pc = "put", !.put = fnc(g.value), !.result = Unset]
    OBVIOUS
  <2>5. /\ h \in Objects /\ h.pc = "put"
        /\ h.value # Unset /\ h.put = h.value + 1
    BY <2>2, <2>3, <2>4, Counts
  <2>6. counter' = [counter EXCEPT ![c] = h]
    BY <1>2, <2>1, <2>4 DEF CountUp
  <2> QED
    BY <1>2, <2>5, <2>6, OneObject DEF CountUp
<1>3. ASSUME NEW c \in Clients, PutValue(c) PROVE SequenceInv'
  <2> USE DEF SequenceInv, SequenceTypeOK, EveryPutCounts, InHand
  <2>1. /\ counter[c].pc \in {"init", "put"}
        /\ counter[c].value \in {Unset, stored.current}
    BY <1>3 DEF PutValue, Expected
  <2>2. stored' = [current |-> counter[c].put,
                   last |-> IF counter[c].value = Unset THEN stored.last
                                                        ELSE counter[c].value]
    BY <1>3 DEF PutValue
  <2>3. PICK pc \in {"return", "ready", "error"} :
           counter' = [counter EXCEPT ![c].pc = pc]
    BY <1>3 DEF PutValue
  <2>4. SequenceTypeOK' /\ InHand'
    BY <2>1, <2>2, <2>3
  <2>5. CASE counter[c].pc = "init"
    BY <1>3, <2>2, <2>4, <2>5 DEF PutValue
  <2>6. CASE counter[c].pc = "put"
    <3>1. stored.current = counter[c].value /\ stored.current # Unset
      BY <2>1, <2>6
    <3>2. counted' = counted + 1 /\ stored'.current = counter[c].value + 1
      BY <1>3, <2>2, <2>6 DEF PutValue
    <3> QED
      BY <2>4, <3>1, <3>2
  <2> QED
    BY <2>1, <2>5, <2>6
<1>4. ASSUME NEW c \in Clients, PutRefused(c) PROVE SequenceInv'
  BY <1>4 DEF PutRefused, SequenceInv, SequenceTypeOK, EveryPutCounts, InHand
<1>5. ASSUME NEW c \in Clients, ReturnValue(c) PROVE SequenceInv'
  <2>1. PICK g : g = Got(counter[c])
    OBVIOUS
  <2>2. g \in Objects
    BY <2>1, GotType DEF SequenceInv
  <2>3. PICK h : h = [g EXCEPT !.pc = "ready", !.result = stored.current]
    OBVIOUS
  <2>4. h \in Objects /\ h.pc = "ready"
    <3>1. stored.current \in 0..MaxValue \cup {Unset}
      BY DEF SequenceInv, SequenceTypeOK
    <3> QED BY <2>2, <2>3, <3>1, Returns
  <2>5. counter' = [counter EXCEPT ![c] = h]
    BY <1>5, <2>1, <2>3 DEF ReturnValue
  <2> QED
    BY <1>5, <2>4, <2>5, OneObject DEF ReturnValue
<1>6. ASSUME NEW c \in Clients, NewSequence(c) PROVE SequenceInv'
  BY <1>6
     DEF NewSequence, SequenceInv, SequenceTypeOK, EveryPutCounts, InHand
<1>7. CASE UNCHANGED sequenceVars
  BY <1>7
     DEF sequenceVars, SequenceInv, SequenceTypeOK, EveryPutCounts, InHand
<1> QED
  BY <1>1, <1>2, <1>3, <1>4, <1>5, <1>6, <1>7 DEF SequenceNext, SequenceStep

\* A value that goes back is a first put of a client that found none.
LEMMA BackByFirstPut ==
    SequenceInv /\ [SequenceNext]_sequenceVars =>
      (stored.current # Unset /\ stored'.current < stored.current =>
         \E c \in Clients : counter[c].pc = "init" /\ counter[c].value = Unset)
<1> SUFFICES ASSUME SequenceInv, [SequenceNext]_sequenceVars,
                    stored.current # Unset, stored'.current < stored.current
             PROVE  \E c \in Clients : /\ counter[c].pc = "init"
                                       /\ counter[c].value = Unset
  OBVIOUS
<1>1. stored.current \in 0..MaxValue
  BY DEF SequenceInv, SequenceTypeOK
<1>2. stored' # stored
  BY <1>1
<1>3. PICK c \in Clients : PutValue(c)
  BY <1>2 DEF SequenceNext, SequenceStep, Construct, CountUp, PutRefused,
              ReturnValue, NewSequence, sequenceVars
<1>4. /\ counter[c].pc \in {"init", "put"}
      /\ counter[c].value \in {Unset, stored.current}
      /\ stored'.current = counter[c].put
  BY <1>3 DEF PutValue, Expected
<1>5. CASE counter[c].pc = "init"
  <2>1. counter[c].value \in {Unset, 0} /\ counter[c].put = 0
    BY <1>5 DEF SequenceInv, InHand
  <2>2. counter[c].value # 0
    BY <1>1, <1>4, <2>1
  <2> QED BY <1>5, <2>1, <2>2
<1>6. CASE counter[c].pc = "put"
  BY <1>1, <1>4, <1>6 DEF SequenceInv, InHand
<1> QED BY <1>4, <1>5, <1>6

\* The value stored is the number of increments since it was initialised,
\* whatever clients count at the same time, and only the first put of a client
\* that found none takes it back.
THEOREM NoIncrementLost == SequenceSpec => CountsUp
<1>1. SequenceInv => EveryPutCounts
  BY DEF SequenceInv
<1> QED
  BY <1>1, SequenceInitHolds, SequenceStepHolds, BackByFirstPut, PTL
  DEF SequenceSpec, CountsUp, OnlyFirstPut

\* The item in SimpleDB and what the clients have of it keep their types.
THEOREM SequenceTyping == SequenceSpec => []SequenceTypeOK
<1>1. SequenceInv => SequenceTypeOK
  BY DEF SequenceInv
<1> QED
  BY <1>1, SequenceInitHolds, SequenceStepHolds, PTL DEF SequenceSpec

-----------------------------------------------------------------------------
(* The batch service.                                                       *)

\* A result is in S3 by the name of the result of a file; one was fetched from there.
Stored(f)    == results[resultName[f]] # NoFile
Retrieved(f) == fetched \cap SameName(f) # {}

\* What is stored by a name is the result of a file that has this name.
ResultsInv == \A n \in Names : results[n] # NoFile => resultName[results[n]] = n

\* The input message of a file is deleted only after an output message was written,
\* which is written only after the result it names was saved, and is deleted only
\* after a result was fetched from there.
FileInv(f) ==
    /\ submitted[f] = "written" => input[f] # "none"
    /\ input[f] = "gone" => \E m \in Outputs : m[1] = f /\ output[m] # "none"

MessageInv(m) ==
    /\ output[m] # "none" /\ m[2] = "named" => Stored(m[1])
    /\ output[m] = "gone" => m[2] = "named" /\ Retrieved(m[1])

\* A server that has not stopped has a file in hand, and has done the steps
\* before its own.
ServerInv(s) ==
    /\ server[s].pc # "stopped" => GoesOn(server[s].empty)
    /\ server[s].pc \in {"process", "write", "delete"} => server[s].msg \in Outputs
    /\ server[s].pc = "write" /\ server[s].msg[2] = "named"
          => Stored(server[s].msg[1])
    /\ server[s].pc = "delete" => output[server[s].msg] # "none"

\* So does the ResultProcessor.
ReaderInv ==
    /\ reader.pc \in {"fetch", "delete"} =>
          reader.msg \in Outputs /\ output[reader.msg] # "none"
    /\ reader.pc = "delete" =>
          reader.msg[2] = "named" /\ Retrieved(reader.msg[1])

ServiceInv == /\ ServiceTypeOK
              /\ ResultsInv
              /\ \A f \in Files : FileInv(f)
              /\ \A m \in Outputs : MessageInv(m)
              /\ \A s \in Servers : ServerInv(s)
              /\ ReaderInv

USE ServiceAssumption

\* The state of a server.
ServerRecs == [pc : {"read", "process", "write", "delete", "stopped"},
               msg : Outputs \cup {NoOutput}, empty : Nat]

\* How many empty reads a server may have counted.
Bounded(n) == n > 0 => RetryCount < 0 \/ n <= RetryCount

LEMMA OutputParts ==
    ASSUME NEW m \in Outputs
    PROVE  m[1] \in Files /\ m[2] \in Keyed /\ m = <<m[1], m[2]>>
  BY DEF Outputs

LEMMA OutputOf ==
    ASSUME NEW f \in Files, NEW key \in Keyed
    PROVE  LET m == <<f, key>> IN m \in Outputs /\ m[1] = f /\ m[2] = key
  BY DEF Outputs

\* After a number of empty reads a server reads on or is stopped.
LEMMA AfterEmptyFacts ==
    ASSUME NEW n \in Nat
    PROVE  /\ AfterEmpty(n) \in ServerRecs /\ AfterEmpty(n).empty = n
           /\ AfterEmpty(n).pc \in {"read", "stopped"}
           /\ AfterEmpty(n).pc = "read" => GoesOn(n)
  BY DEF AfterEmpty, ServerRecs

\* Another empty read keeps the count in its range.
LEMMA EmptierFacts ==
    ASSUME ServiceInv, NEW s \in Servers, server[s].pc # "stopped"
    PROVE  /\ Emptier(s) \in ServerRecs /\ Bounded(Emptier(s).empty)
           /\ Emptier(s).pc \in {"read", "stopped"}
           /\ Emptier(s).pc = "read" => GoesOn(Emptier(s).empty)
<1>1. server[s].empty \in Nat /\ GoesOn(server[s].empty)
  BY DEF ServiceInv, ServiceTypeOK, ServerInv
<1>2. PICK n : n = server[s].empty + 1
  OBVIOUS
<1>3. n \in Nat /\ Bounded(n)
  BY <1>1, <1>2 DEF GoesOn, Bounded
<1>4. Emptier(s) = AfterEmpty(n)
  BY <1>2 DEF Emptier
<1> QED BY <1>3, <1>4, AfterEmptyFacts

LEMMA ServiceInitHolds == ServiceInit => ServiceInv
<1> SUFFICES ASSUME ServiceInit PROVE ServiceInv
  OBVIOUS
<1>1. \A s \in Servers : server[s] = AfterEmpty(0)
  BY DEF ServiceInit
<1>2. /\ AfterEmpty(0) \in ServerRecs /\ AfterEmpty(0).empty = 0
      /\ AfterEmpty(0).pc \in {"read", "stopped"}
      /\ AfterEmpty(0).pc = "read" => GoesOn(0)
  BY AfterEmptyFacts
<1>3. server \in [Servers -> ServerRecs]
  BY <1>2 DEF ServiceInit
<1>4. \A s \in Servers : ServerInv(s) /\ server[s].empty = 0
  BY <1>1, <1>2 DEF ServerInv
<1>5. ServiceTypeOK
  <2>1. /\ resultName \in [Files -> Names] /\ results \in [Names -> Files \cup {NoFile}]
        /\ submitted \in [Files -> {"no", "stored", "written"}]
        /\ input \in [Files -> QueueStates] /\ output \in [Outputs -> QueueStates]
        /\ fetched \subseteq Files
    BY DEF ServiceInit, QueueStates
  <2>2. reader \in [pc : {"read", "fetch", "delete", "end"},
                    msg : Outputs \cup {NoOutput}]
    BY DEF ServiceInit
  <2> QED BY <1>3, <1>4, <2>1, <2>2 DEF ServiceTypeOK, ServerRecs
<1>6. ResultsInv /\ ReaderInv
  BY DEF ServiceInit, ResultsInv, ReaderInv
<1>7. /\ \A f \in Files : FileInv(f)
      /\ \A m \in Outputs : MessageInv(m)
  BY DEF ServiceInit, FileInv, MessageInv
<1> QED BY <1>4, <1>5, <1>6, <1>7 DEF ServiceInv

\* A step of one server, to r: what the others have done stays done.
LEMMA OneServer ==
    ASSUME ServiceInv, NEW s \in Servers, NEW r \in ServerRecs,
           server' = [server EXCEPT ![s] = r],
           UNCHANGED <<resultName, submitted, reader, fetched>>,
           input' \in [Files -> QueueStates],
           output' \in [Outputs -> QueueStates],
           results' \in [Names -> Files \cup {NoFile}], ResultsInv',
           \A n \in Names : results[n] # NoFile => results'[n] # NoFile,
           \A m \in Outputs : /\ output'[m] \in {output[m], "visible"}
                              /\ MessageInv(m)',
           \A f \in Files : FileInv(f)',
           Bounded(r.empty), r.pc # "stopped" => GoesOn(r.empty),
           r.pc \in {"process", "write", "delete"} => r.msg \in Outputs,
           r.pc = "write" /\ r.msg[2] = "named" => Stored(r.msg[1])',
           r.pc = "delete" => output'[r.msg] # "none"
    PROVE  ServiceInv'
<1>1. /\ server' \in [Servers -> ServerRecs] /\ server'[s] = r
      /\ \A t \in Servers \ {s} : server'[t] = server[t]
  BY DEF ServiceInv, ServiceTypeOK, ServerRecs
<1>2. ServiceTypeOK'
  <2>1. \A t \in Servers : Bounded(server'[t].empty)
    BY <1>1 DEF ServiceInv, ServiceTypeOK, Bounded
  <2> QED BY <1>1, <2>1 DEF ServiceInv, ServiceTypeOK, ServerRecs, Bounded
<1>3. \A f \in Files : Stored(f) => Stored(f)'
  BY DEF Stored, ServiceInv, ServiceTypeOK
<1>4. ASSUME NEW t \in Servers PROVE ServerInv(t)'
  <2>1. CASE t = s
    BY <1>1, <2>1 DEF ServerInv
  <2>2. CASE t # s
    <3>1. ServerInv(t) /\ server'[t] = server[t]
      BY <1>1, <2>2 DEF ServiceInv
    <3>2. server[t].msg \in Outputs => server[t].msg[1] \in Files
      BY OutputParts
    <3> QED BY <1>3, <3>1, <3>2 DEF ServerInv
  <2> QED BY <2>1, <2>2
<1>5. ReaderInv'
  BY DEF ServiceInv, ReaderInv, Retrieved, SameName
<1> QED BY <1>2, <1>4, <1>5 DEF ServiceInv

\* What a step that changes no message and no result keeps.
LEMMA NothingMoves ==
    ASSUME ServiceInv,
           UNCHANGED <<resultName, submitted, input, output, results, fetched>>
    PROVE  /\ input' \in [Files -> QueueStates] /\ output' \in [Outputs -> QueueStates]
           /\ results' \in [Names -> Files \cup {NoFile}] /\ ResultsInv'
           /\ \A n \in Names : results[n] # NoFile => results'[n] # NoFile
           /\ \A m \in Outputs : /\ output'[m] \in {output[m], "visible"}
                                 /\ MessageInv(m)'
           /\ \A f \in Files : FileInv(f)'
<1>1. ResultsInv'
  BY DEF ServiceInv, ResultsInv
<1>2. \A m \in Outputs : MessageInv(m)'
  BY DEF ServiceInv, MessageInv, Stored, Retrieved, SameName
<1>3. \A f \in Files : FileInv(f)'
  BY DEF ServiceInv, FileInv
<1> QED BY <1>1, <1>2, <1>3 DEF ServiceInv, ServiceTypeOK

\* What a step that only changes an input message keeps.
LEMMA InputMoves ==
    ASSUME ServiceInv, NEW f \in Files, NEW state \in {"visible", "hidden", "gone"},
           input' = [input EXCEPT ![f] = state],
           state = "gone" => \E m \in Outputs : m[1] = f /\ output[m] # "none",
           UNCHANGED <<resultName, submitted, output, results, fetched>>
    PROVE  /\ input' \in [Files -> QueueStates] /\ output' \in [Outputs -> QueueStates]
           /\ results' \in [Names -> Files \cup {NoFile}] /\ ResultsInv'
           /\ \A n \in Names : results[n] # NoFile => results'[n] # NoFile
           /\ \A m \in Outputs : /\ output'[m] \in {output[m], "visible"}
                                 /\ MessageInv(m)'
           /\ \A g \in Files : FileInv(g)'
<1>1. ResultsInv'
  BY DEF ServiceInv, ResultsInv
<1>2. \A m \in Outputs : MessageInv(m)'
  BY DEF ServiceInv, MessageInv, Stored, Retrieved, SameName
<1>3. /\ input' \in [Files -> QueueStates] /\ input'[f] = state
      /\ \A g \in Files \ {f} : input'[g] = input[g]
  BY DEF ServiceInv, ServiceTypeOK, QueueStates
<1>4. ASSUME NEW g \in Files PROVE FileInv(g)'
  <2>1. FileInv(g)
    BY DEF ServiceInv
  <2>2. CASE g = f
    BY <1>3, <2>1, <2>2 DEF FileInv
  <2>3. CASE g # f
    BY <1>3, <2>1, <2>3 DEF FileInv
  <2> QED BY <2>2, <2>3
<1> QED BY <1>1, <1>2, <1>3, <1>4 DEF ServiceInv, ServiceTypeOK

LEMMA ReadInputKeeps ==
    ASSUME ServiceInv, NEW s \in Servers, ReadInput(s)
    PROVE  ServiceInv'
<1>1. /\ server[s].pc = "read"
      /\ UNCHANGED <<resultName, submitted, output, results, reader, fetched>>
  BY DEF ReadInput
<1>2. CASE /\ server' = [server EXCEPT ![s] = Emptier(s)]
           /\ \/ UNCHANGED input
              \/ \E f \in Files : input' = [input EXCEPT ![f] = "hidden"]
  <2>1. CASE UNCHANGED input
    <3> QED BY <1>1, <1>2, <2>1, EmptierFacts, NothingMoves, OneServer
  <2>2. CASE \E f \in Files : input' = [input EXCEPT ![f] = "hidden"]
    <3>1. PICK f \in Files : input' = [input EXCEPT ![f] = "hidden"]
      BY <2>2
    <3> QED BY <1>1, <1>2, <3>1, EmptierFacts, InputMoves, OneServer
  <2> QED BY <1>2, <2>1, <2>2
<1>3. ASSUME NEW f \in Files, input' = [input EXCEPT ![f] = "hidden"],
             server' = [server EXCEPT ![s] =
                          [pc |-> "process", msg |-> <<f, "empty">>, empty |-> 0]]
      PROVE  ServiceInv'
  <2>1. PICK m : m = <<f, "empty">>
    OBVIOUS
  <2>2. m \in Outputs
    BY <2>1, OutputOf DEF Keyed
  <2>3. PICK r : r = [pc |-> "process", msg |-> m, empty |-> 0]
    OBVIOUS
  <2>4. /\ r \in ServerRecs /\ r.pc = "process" /\ r.msg = m /\ r.empty = 0
        /\ server' = [server EXCEPT ![s] = r]
    BY <1>3, <2>1, <2>2, <2>3 DEF ServerRecs
  <2>5. Bounded(r.empty) /\ GoesOn(r.empty)
    <3>1. server[s].empty \in Nat /\ GoesOn(server[s].empty)
      BY <1>1 DEF ServiceInv, ServiceTypeOK, ServerInv
    <3> QED BY <2>4, <3>1 DEF Bounded, GoesOn
  <2> QED BY <1>1, <1>3, <2>2, <2>4, <2>5, InputMoves, OneServer
<1> QED BY <1>2, <1>3 DEF ReadInput

LEMMA ProcessKeeps ==
    ASSUME ServiceInv, NEW s \in Servers, Process(s)
    PROVE  ServiceInv'
<1>1. /\ server[s] \in ServerRecs /\ server[s].pc = "process"
      /\ server[s].msg \in Outputs
      /\ GoesOn(server[s].empty) /\ Bounded(server[s].empty)
  BY DEF Process, ServiceInv, ServiceTypeOK, ServerRecs, ServerInv, Bounded
<1>2. PICK f : f = server[s].msg[1]
  OBVIOUS
<1>3. f \in Files
  BY <1>1, <1>2, OutputParts
<1>4. PICK key \in Keyed :
         /\ results' = IF key = "empty" THEN results
                       ELSE [results EXCEPT ![resultName[f]] = f]
         /\ server' = [server EXCEPT ![s] = [@ EXCEPT !.pc = "write",
                                                      !.msg = <<f, key>>]]
  BY <1>2 DEF Process, StepAfter
<1>5. UNCHANGED <<resultName, submitted, input, output, reader, fetched>>
  BY DEF Process
<1>6. PICK m : m = <<f, key>>
  OBVIOUS
<1>7. m \in Outputs /\ m[1] = f /\ m[2] = key
  BY <1>3, <1>6, OutputOf
<1>8. PICK r : r = [server[s] EXCEPT !.pc = "write", !.msg = m]
  OBVIOUS
<1>9. /\ r \in ServerRecs /\ r.pc = "write" /\ r.msg = m /\ r.empty = server[s].empty
      /\ server' = [server EXCEPT ![s] = r]
  <2>1. server' = [server EXCEPT ![s] = r]
    BY <1>4, <1>6, <1>8
  <2> QED BY <1>1, <1>7, <1>8, <2>1 DEF ServerRecs
<1>10. /\ results' \in [Names -> Files \cup {NoFile}]
       /\ \A n \in Names : results'[n] \in {results[n], f}
       /\ \A n \in Names : results'[n] # results[n] => resultName[f] = n
       /\ key = "named" => results'[resultName[f]] = f
  BY <1>3, <1>4 DEF ServiceInv, ServiceTypeOK, Keyed
<1>11. \A n \in Names : results[n] # NoFile => results'[n] # NoFile
  BY <1>3, <1>10
<1>12. ResultsInv'
  BY <1>5, <1>10 DEF ResultsInv, ServiceInv
<1>13. \A g \in Files : Stored(g) => Stored(g)'
  BY <1>5, <1>11 DEF Stored, ServiceInv, ServiceTypeOK
<1>14. \A o \in Outputs : MessageInv(o)'
  <2> SUFFICES ASSUME NEW o \in Outputs PROVE MessageInv(o)'
    OBVIOUS
  <2>1. MessageInv(o) /\ o[1] \in Files
    BY OutputParts DEF ServiceInv
  <2> QED BY <1>5, <1>13, <2>1 DEF MessageInv, Retrieved, SameName
<1>15. \A g \in Files : FileInv(g)'
  BY <1>5 DEF ServiceInv, FileInv
<1>16. r.msg[2] = "named" => Stored(r.msg[1])'
  BY <1>3, <1>5, <1>7, <1>9, <1>10 DEF Stored
<1>17. input' \in [Files -> QueueStates] /\ output' \in [Outputs -> QueueStates]
  BY <1>5 DEF ServiceInv, ServiceTypeOK
<1> QED
  BY <1>1, <1>5, <1>7, <1>9, <1>10, <1>11, <1>12, <1>14, <1>15, <1>16, <1>17, OneServer

LEMMA WriteOutputKeeps ==
    ASSUME ServiceInv, NEW s \in Servers, WriteOutput(s)
    PROVE  ServiceInv'
<1>1. PICK m : m = server[s].msg
  OBVIOUS
<1>2. /\ server[s] \in ServerRecs /\ server[s].pc = "write" /\ m \in Outputs
      /\ m[2] = "named" => Stored(m[1])
      /\ GoesOn(server[s].empty) /\ Bounded(server[s].empty)
  BY <1>1 DEF WriteOutput, ServiceInv, ServiceTypeOK, ServerRecs, ServerInv, Bounded
<1>3. PICK r : r = [server[s] EXCEPT !.pc = "delete"]
  OBVIOUS
<1>4. /\ r \in ServerRecs /\ r.pc = "delete" /\ r.msg = m
      /\ r.empty = server[s].empty
  BY <1>1, <1>2, <1>3 DEF ServerRecs
<1>5. /\ server' = [server EXCEPT ![s] = r]
      /\ output' = [output EXCEPT ![m] = "visible"]
      /\ UNCHANGED <<resultName, submitted, input, results, reader, fetched>>
  BY <1>1, <1>3 DEF WriteOutput, StepAfter
<1>6. /\ output' \in [Outputs -> QueueStates] /\ output'[m] = "visible"
      /\ \A o \in Outputs : output'[o] \in {output[o], "visible"}
      /\ \A o \in Outputs \ {m} : output'[o] = output[o]
  BY <1>2, <1>5 DEF ServiceInv, ServiceTypeOK, QueueStates
<1>7. \A f \in Files : FileInv(f)'
  BY <1>5, <1>6 DEF ServiceInv, FileInv
<1>8. \A o \in Outputs : MessageInv(o)'
  <2> SUFFICES ASSUME NEW o \in Outputs PROVE MessageInv(o)'
    OBVIOUS
  <2>1. MessageInv(o)
    BY DEF ServiceInv
  <2>2. CASE o = m
    BY <1>2, <1>5, <1>6, <2>2 DEF MessageInv, Stored
  <2>3. CASE o # m
    BY <1>5, <1>6, <2>1, <2>3 DEF MessageInv, Stored, Retrieved, SameName
  <2> QED BY <2>2, <2>3
<1>9. /\ input' \in [Files -> QueueStates]
      /\ results' \in [Names -> Files \cup {NoFile}] /\ ResultsInv'
      /\ \A n \in Names : results[n] # NoFile => results'[n] # NoFile
  BY <1>5 DEF ServiceInv, ServiceTypeOK, ResultsInv
<1> QED BY <1>2, <1>4, <1>5, <1>6, <1>7, <1>8, <1>9, OneServer

LEMMA DeleteInputKeeps ==
    ASSUME ServiceInv, NEW s \in Servers, DeleteInput(s)
    PROVE  ServiceInv'
<1>1. PICK m : m = server[s].msg
  OBVIOUS
<1>2. /\ server[s] \in ServerRecs /\ server[s].pc = "delete" /\ m \in Outputs
      /\ m[1] \in Files /\ output[m] # "none"
      /\ GoesOn(server[s].empty) /\ Bounded(server[s].empty)
  BY <1>1, OutputParts
     DEF DeleteInput, ServiceInv, ServiceTypeOK, ServerRecs, ServerInv, Bounded
<1>3. PICK r : r = [server[s] EXCEPT !.pc = "read"]
  OBVIOUS
<1>4. r \in ServerRecs /\ r.pc = "read" /\ r.empty = server[s].empty
  BY <1>2, <1>3 DEF ServerRecs
<1>5. /\ server' = [server EXCEPT ![s] = r]
      /\ input' = [input EXCEPT ![m[1]] = "gone"]
      /\ UNCHANGED <<resultName, submitted, output, results, reader, fetched>>
  BY <1>1, <1>3 DEF DeleteInput, StepAfter
<1> QED BY <1>2, <1>4, <1>5, InputMoves, OneServer

LEMMA ServerStepKeeps ==
    ASSUME ServiceInv, NEW s \in Servers, ServerStep(s)
    PROVE  ServiceInv'
<1>1. CASE ServiceFailed(s)
  <2>1. /\ server[s].pc # "stopped"
        /\ server' = [server EXCEPT ![s] = Emptier(s)]
        /\ UNCHANGED <<resultName, submitted, input, output, results, reader, fetched>>
    BY <1>1 DEF ServiceFailed
  <2> QED BY <2>1, EmptierFacts, NothingMoves, OneServer
<1> QED
  BY <1>1, ReadInputKeeps, ProcessKeeps, WriteOutputKeeps, DeleteInputKeeps
  DEF ServerStep

\* Steps of others, that keep what there is of messages, results and fetched files.
LEMMA ServersStay ==
    ASSUME ServiceInv, UNCHANGED <<resultName, server, results>>,
           \A m \in Outputs : output[m] # "none" => output'[m] # "none"
    PROVE  \A s \in Servers : ServerInv(s)'
  BY DEF ServiceInv, ServerInv, Stored

\* A message is deleted only after a result of its name was fetched.
LEMMA ReaderKeeps ==
    ASSUME ServiceInv, ReadOutput \/ Fetch \/ DeleteOutput \/ ReaderAgain
    PROVE  ServiceInv'
<1>1. CASE ReadOutput
  <2>1. /\ reader.pc = "read"
        /\ UNCHANGED <<resultName, submitted, input, results, server, fetched>>
    BY <1>1 DEF ReadOutput
  <2>2. ASSUME NEW m \in Outputs, output[m] = "visible",
               output' = [output EXCEPT ![m] = "hidden"],
               reader' \in {[pc |-> "fetch", msg |-> m], Ended}
        PROVE  ServiceInv'
    <3>1. /\ output' \in [Outputs -> QueueStates] /\ output'[m] = "hidden"
          /\ \A o \in Outputs \ {m} : output'[o] = output[o]
      BY <2>2 DEF ServiceInv, ServiceTypeOK, QueueStates
    <3>2. ServiceTypeOK' /\ ResultsInv' /\ ReaderInv'
      <4>1. /\ reader' \in [pc : {"read", "fetch", "delete", "end"},
                            msg : Outputs \cup {NoOutput}]
            /\ ReaderInv'
        BY <2>2, <3>1 DEF Ended, ReaderInv
      <4> QED BY <2>1, <3>1, <4>1 DEF ServiceInv, ServiceTypeOK, ResultsInv
    <3>3. \A f \in Files : FileInv(f)'
      BY <2>1, <2>2, <3>1 DEF ServiceInv, FileInv
    <3>4. \A o \in Outputs : MessageInv(o)'
      BY <2>1, <2>2, <3>1 DEF ServiceInv, MessageInv, Stored, Retrieved, SameName
    <3>5. \A s \in Servers : ServerInv(s)'
      BY <2>1, <2>2, <3>1, ServersStay
    <3> QED BY <3>2, <3>3, <3>4, <3>5 DEF ServiceInv
  <2>3. CASE reader' = Ended /\ UNCHANGED output
    <3>1. ServiceTypeOK' /\ ReaderInv'
      BY <2>1, <2>3 DEF Ended, ReaderInv, ServiceInv, ServiceTypeOK
    <3> QED BY <2>1, <2>3, <3>1, NothingMoves, ServersStay DEF ServiceInv
  <2> QED BY <1>1, <2>2, <2>3 DEF ReadOutput
<1>2. CASE Fetch
  <2>1. PICK m : m = reader.msg
    OBVIOUS
  <2>2. /\ reader.pc = "fetch" /\ m \in Outputs /\ m[1] \in Files /\ output[m] # "none"
        /\ UNCHANGED <<resultName, submitted, input, output, results, server>>
    BY <1>2, <2>1, OutputParts DEF Fetch, ServiceInv, ReaderInv
  <2>3. CASE reader' = Ended /\ UNCHANGED fetched
    <3>1. ServiceTypeOK' /\ ReaderInv'
      BY <2>2, <2>3 DEF Ended, ReaderInv, ServiceInv, ServiceTypeOK
    <3> QED BY <2>2, <2>3, <3>1, NothingMoves, ServersStay DEF ServiceInv
  <2>4. ASSUME m[2] = "named", results[resultName[m[1]]] # NoFile,
               fetched' = fetched \cup {results[resultName[m[1]]]},
               reader' = [reader EXCEPT !.pc = "delete"]
        PROVE  ServiceInv'
    <3>1. PICK g : g = results[resultName[m[1]]]
      OBVIOUS
    <3>2. g \in Files /\ g \in SameName(m[1]) /\ fetched' = fetched \cup {g}
      BY <2>2, <2>4, <3>1 DEF ServiceInv, ServiceTypeOK, ResultsInv, SameName
    <3>3. reader' \in [pc : {"read", "fetch", "delete", "end"},
                       msg : Outputs \cup {NoOutput}]
      BY <2>4 DEF ServiceInv, ServiceTypeOK
    <3>4. reader'.pc = "delete" /\ reader'.msg = m
      BY <2>1, <2>4 DEF ServiceInv, ServiceTypeOK
    <3>5. \A f \in Files : Retrieved(f) => Retrieved(f)'
      BY <2>2, <3>2 DEF Retrieved, SameName
    <3>6. Retrieved(m[1])'
      BY <2>2, <3>2 DEF Retrieved, SameName
    <3>7. ServiceTypeOK' /\ ResultsInv' /\ ReaderInv'
      BY <2>2, <2>4, <3>2, <3>3, <3>4, <3>6
         DEF ServiceInv, ServiceTypeOK, ResultsInv, ReaderInv
    <3>8. \A f \in Files : FileInv(f)'
      BY <2>2 DEF ServiceInv, FileInv
    <3>9. \A o \in Outputs : MessageInv(o)'
      BY <2>2, <3>5, OutputParts DEF ServiceInv, MessageInv, Stored
    <3>10. \A s \in Servers : ServerInv(s)'
      BY <2>2, ServersStay
    <3> QED BY <3>7, <3>8, <3>9, <3>10 DEF ServiceInv
  <2> QED BY <1>2, <2>1, <2>3, <2>4 DEF Fetch
<1>3. CASE DeleteOutput
  <2>1. PICK m : m = reader.msg
    OBVIOUS
  <2>2. /\ m \in Outputs /\ output[m] # "none" /\ m[2] = "named" /\ Retrieved(m[1])
    BY <1>3, <2>1 DEF DeleteOutput, ServiceInv, ReaderInv
  <2>3. /\ output' = [output EXCEPT ![m] = "gone"]
        /\ reader' = [pc |-> "read", msg |-> NoOutput]
        /\ UNCHANGED <<resultName, submitted, input, results, server, fetched>>
    BY <1>3, <2>1 DEF DeleteOutput
  <2>4. /\ output' \in [Outputs -> QueueStates] /\ output'[m] = "gone"
        /\ \A o \in Outputs \ {m} : output'[o] = output[o]
    BY <2>2, <2>3 DEF ServiceInv, ServiceTypeOK, QueueStates
  <2>5. ServiceTypeOK' /\ ResultsInv' /\ ReaderInv'
    <3>1. /\ reader' \in [pc : {"read", "fetch", "delete", "end"},
                          msg : Outputs \cup {NoOutput}]
          /\ ReaderInv'
      BY <2>3 DEF ReaderInv
    <3> QED BY <2>3, <2>4, <3>1 DEF ServiceInv, ServiceTypeOK, ResultsInv
  <2>6. \A f \in Files : FileInv(f)'
    BY <2>2, <2>3, <2>4 DEF ServiceInv, FileInv
  <2>7. \A o \in Outputs : MessageInv(o)'
    <3> SUFFICES ASSUME NEW o \in Outputs PROVE MessageInv(o)'
      OBVIOUS
    <3>1. MessageInv(o) /\ MessageInv(m)
      BY <2>2 DEF ServiceInv
    <3>2. CASE o = m
      BY <2>2, <2>3, <3>1, <3>2 DEF MessageInv, Stored, Retrieved, SameName
    <3>3. CASE o # m
      BY <2>3, <2>4, <3>1, <3>3 DEF MessageInv, Stored, Retrieved, SameName
    <3> QED BY <3>2, <3>3
  <2>8. \A s \in Servers : ServerInv(s)'
    BY <2>2, <2>3, <2>4, ServersStay
  <2> QED BY <2>5, <2>6, <2>7, <2>8 DEF ServiceInv
<1>4. CASE ReaderAgain
  <2>1. /\ reader' = [pc |-> "read", msg |-> NoOutput]
        /\ UNCHANGED <<resultName, submitted, input, output, results, server, fetched>>
    BY <1>4 DEF ReaderAgain
  <2>2. ServiceTypeOK' /\ ReaderInv'
    BY <2>1 DEF ReaderInv, ServiceInv, ServiceTypeOK
  <2> QED BY <2>1, <2>2, NothingMoves, ServersStay DEF ServiceInv
<1> QED BY <1>1, <1>2, <1>3, <1>4

LEMMA SubmitKeeps ==
    ASSUME ServiceInv, NEW f \in Files, Submit(f)
    PROVE  ServiceInv'
<1>1. UNCHANGED <<resultName, output, results, server, reader, fetched>>
  BY DEF Submit
<1>2. ServiceTypeOK' /\ ResultsInv'
  BY <1>1 DEF Submit, ServiceInv, ServiceTypeOK, QueueStates, ResultsInv
<1>3. \A g \in Files : FileInv(g)'
  BY <1>1 DEF Submit, ServiceInv, ServiceTypeOK, FileInv
<1>4. \A m \in Outputs : MessageInv(m)'
  BY <1>1 DEF ServiceInv, MessageInv, Stored, Retrieved, SameName
<1>5. ReaderInv'
  BY <1>1 DEF ServiceInv, ReaderInv, Retrieved, SameName
<1>6. \A s \in Servers : ServerInv(s)'
  BY <1>1, ServersStay
<1> QED BY <1>2, <1>3, <1>4, <1>5, <1>6 DEF ServiceInv

LEMMA ReappearKeeps == ASSUME ServiceInv, Reappear PROVE ServiceInv'
<1>1. UNCHANGED <<resultName, submitted, results, server, reader, fetched>>
  BY DEF Reappear
<1>2. /\ input' \in [Files -> QueueStates] /\ output' \in [Outputs -> QueueStates]
      /\ \A f \in Files : /\ input'[f] = "none" <=> input[f] = "none"
      /\ \A f \in Files : /\ input'[f] = "gone" <=> input[f] = "gone"
      /\ \A m \in Outputs : /\ output'[m] = "none" <=> output[m] = "none"
      /\ \A m \in Outputs : /\ output'[m] = "gone" <=> output[m] = "gone"
  <2>1. CASE UNCHANGED input
    <3>1. ASSUME NEW m \in Outputs, output[m] = "hidden",
                 output' = [output EXCEPT ![m] = "visible"]
          PROVE  /\ output' \in [Outputs -> QueueStates]
                 /\ \A o \in Outputs : /\ output'[o] = "none" <=> output[o] = "none"
                 /\ \A o \in Outputs : /\ output'[o] = "gone" <=> output[o] = "gone"
      BY <3>1 DEF ServiceInv, ServiceTypeOK, QueueStates
    <3>2. input' \in [Files -> QueueStates]
      BY <2>1 DEF ServiceInv, ServiceTypeOK
    <3>3. \/ UNCHANGED output
          \/ \E m \in Outputs : /\ output[m] = "hidden"
                                /\ output' = [output EXCEPT ![m] = "visible"]
      BY <2>1 DEF Reappear
    <3>4. output \in [Outputs -> QueueStates]
      BY DEF ServiceInv, ServiceTypeOK
    <3> QED BY <2>1, <3>1, <3>2, <3>3, <3>4
  <2>2. CASE UNCHANGED output
    BY <2>2 DEF Reappear, ServiceInv, ServiceTypeOK, QueueStates
  <2> QED BY <2>1, <2>2 DEF Reappear
<1>3. ServiceTypeOK' /\ ResultsInv'
  BY <1>1, <1>2 DEF ServiceInv, ServiceTypeOK, ResultsInv
<1>4. \A g \in Files : FileInv(g)'
  BY <1>1, <1>2 DEF ServiceInv, FileInv
<1>5. \A m \in Outputs : MessageInv(m)'
  BY <1>1, <1>2 DEF ServiceInv, MessageInv, Stored, Retrieved, SameName
<1>6. ReaderInv'
  BY <1>1, <1>2 DEF ServiceInv, ReaderInv, Retrieved, SameName
<1>7. \A s \in Servers : ServerInv(s)'
  BY <1>1, <1>2, ServersStay
<1> QED BY <1>3, <1>4, <1>5, <1>6, <1>7 DEF ServiceInv

LEMMA ServiceStepHolds == ServiceInv /\ [ServiceNext]_serviceVars => ServiceInv'
<1> SUFFICES ASSUME ServiceInv, [ServiceNext]_serviceVars PROVE ServiceInv'
  OBVIOUS
<1>1. ASSUME NEW s \in Servers, ServerAgain(s) PROVE ServiceInv'
  <2>1. PICK r : r = AfterEmpty(0)
    OBVIOUS
  <2>2. /\ r \in ServerRecs /\ r.pc \in {"read", "stopped"} /\ Bounded(r.empty)
        /\ r.pc = "read" => GoesOn(r.empty)
    BY <2>1, AfterEmptyFacts DEF Bounded
  <2>3. /\ server' = [server EXCEPT ![s] = r]
        /\ UNCHANGED <<resultName, submitted, input, output, results, reader, fetched>>
    BY <1>1, <2>1 DEF ServerAgain
  <2> QED BY <2>2, <2>3, NothingMoves, OneServer
<1>2. CASE UNCHANGED serviceVars
  <2>1. UNCHANGED <<resultName, submitted, input, output, results, server, reader,
                    fetched>>
    BY <1>2 DEF serviceVars
  <2>2. ServiceTypeOK' /\ ReaderInv'
    BY <2>1 DEF ServiceInv, ServiceTypeOK, ReaderInv, Retrieved, SameName
  <2> QED BY <2>1, <2>2, NothingMoves, ServersStay DEF ServiceInv
<1> QED
  BY <1>1, <1>2, SubmitKeeps, ReappearKeeps, ServerStepKeeps, ReaderKeeps
  DEF ServiceNext

\* A file whose message Submitter wrote is in the input queue, or announced with a
\* result of its name, or fetched by it, or a message without a key stays in the
\* output queue, whichever servers fail, messages come again and names are shared.
THEOREM NoFileLost == ServiceSpec => []NothingLost
<1>1. ASSUME ServiceInv PROVE NothingLost
  <2> SUFFICES ASSUME NEW f \in Files, submitted[f] = "written",
                      input[f] \notin {"visible", "hidden"}
               PROVE  \/ /\ output[<<f, "named">>] \in {"visible", "hidden"}
                         /\ results[resultName[f]] \in SameName(f)
                      \/ fetched \cap SameName(f) # {}
                      \/ output[<<f, "empty">>] \in {"visible", "hidden"}
    BY DEF NothingLost
  <2>1. input[f] = "gone"
    BY <1>1 DEF ServiceInv, ServiceTypeOK, QueueStates, FileInv
  <2>2. PICK m \in Outputs : m[1] = f /\ output[m] # "none"
    BY <1>1, <2>1 DEF ServiceInv, FileInv
  <2>3. MessageInv(m) /\ output[m] \in {"visible", "hidden", "gone"}
    BY <1>1, <2>2 DEF ServiceInv, ServiceTypeOK, QueueStates
  <2>4. m[2] \in Keyed /\ m = <<f, m[2]>>
    BY <2>2, OutputParts
  <2>5. CASE m[2] = "empty"
    BY <2>3, <2>4, <2>5 DEF MessageInv
  <2>6. CASE m[2] = "named" /\ output[m] = "gone"
    BY <2>2, <2>3, <2>6 DEF MessageInv, Retrieved
  <2>7. CASE m[2] = "named" /\ output[m] # "gone"
    <3>1. Stored(f) /\ resultName[f] \in Names
      BY <1>1, <2>2, <2>3, <2>7 DEF MessageInv, ServiceInv, ServiceTypeOK
    <3>2. results[resultName[f]] \in SameName(f)
      BY <1>1, <3>1
         DEF Stored, ServiceInv, ServiceTypeOK, ResultsInv, SameName
    <3> QED BY <2>3, <2>4, <2>7, <3>2
  <2> QED BY <2>4, <2>5, <2>6, <2>7 DEF Keyed
<1> QED
  BY <1>1, ServiceInitHolds, ServiceStepHolds, PTL DEF ServiceSpec

\* A server never counts past the empty reads it stops after.
THEOREM EmptyReadsBounded == ServiceSpec => []ServiceTypeOK
<1>1. ServiceInv => ServiceTypeOK
  BY DEF ServiceInv
<1> QED
  BY <1>1, ServiceInitHolds, ServiceStepHolds, PTL DEF ServiceSpec
-----------------------------------------------------------------------------
(* The DynamoDB item.                                                      *)

\* What a save expects of a field is what the Item last knew of it, unless the
\* field was assigned twice; and that is what the row has, where it is not behind.
ItemTyped ==
    /\ row \in Rows /\ copy \in Rows /\ base \in [Fields -> Values \cup {Absent}]
    /\ item.data \in Rows
    /\ item.orig \in [Fields -> Values \cup {Absent, NEWVALUE}]
    /\ item = [data |-> item.data, orig |-> item.orig, dirty |-> item.dirty]
    /\ item.dirty \in {"no", "yes"}
    /\ item.dirty = "no" => Changed = {}
    /\ answer \in {"none", "put", "updated", "overwritten", "refused", "lost"}
    /\ behind \subseteq Fields /\ again \subseteq Changed
    /\ wrote \in 0..MaxOthers
ExpectsBase == \A f \in Fields \ again : Expects(f) = base[f]
KnowsRow    == HasData => \A f \in Fields \ behind : base[f] = row[f]

ItemInv == ItemTyped /\ ExpectsBase /\ KnowsRow /\ RefusedForReason

LEMMA RowFacts ==
    ASSUME NEW r \in Rows
    PROVE  /\ r \in [Fields -> Values \cup {Absent}]
           /\ Has(r) # {} => r[KeyField] = TheKey
  BY ItemAssumption DEF Rows, Empty, Has

LEMMA ItemInitHolds == ItemInit => ItemInv
<1> SUFFICES ASSUME ItemInit PROVE ItemInv
  OBVIOUS
<1>1. /\ item.data = Empty /\ item.orig = Empty /\ item.dirty = "no"
      /\ item = [data |-> item.data, orig |-> item.orig, dirty |-> item.dirty]
  BY DEF ItemInit, CleanItem
<1>2. Empty \in Rows /\ Changed = {} /\ ~HasData
  BY <1>1 DEF Rows, Changed, Has, HasData, Empty
<1>3. /\ Empty \in [Fields -> Values \cup {Absent}]
      /\ Empty \in [Fields -> Values \cup {Absent, NEWVALUE}]
  BY DEF Empty
<1>4. ItemTyped
  BY <1>1, <1>2, <1>3, ItemAssumption DEF ItemInit, ItemTyped
<1>5. ExpectsBase
  BY <1>1 DEF ItemInit, ExpectsBase, Expects, Empty
<1> QED BY <1>2, <1>4, <1>5 DEF ItemInit, ItemInv, KnowsRow, RefusedForReason

\* An Item made of a row, with no changes yet.
LEMMA CleanFacts ==
    ASSUME NEW data \in Rows, item' = CleanItem(data)
    PROVE  /\ item'.data = data /\ item'.orig = Empty /\ item'.dirty = "no"
           /\ item' = [data |-> item'.data, orig |-> item'.orig,
                       dirty |-> item'.dirty]
           /\ item'.orig \in [Fields -> Values \cup {Absent, NEWVALUE}]
           /\ Changed' = {}
           /\ \A f \in Fields : Expects(f)' = data[f]
<1>1. /\ item'.data = data /\ item'.orig = Empty /\ item'.dirty = "no"
      /\ item' = [data |-> item'.data, orig |-> item'.orig, dirty |-> item'.dirty]
  BY DEF CleanItem
<1> QED BY <1>1, ItemAssumption DEF Changed, Has, Empty, Expects

LEMMA NewItemKeeps == ItemInv /\ NewItem => ItemInv'
<1> SUFFICES ASSUME ItemInv, NewItem PROVE ItemInv'
  OBVIOUS
<1>1. PICK data \in Rows \ {Empty} :
         item' = [data |-> data, dirty |-> "yes",
                  orig |-> [f \in Fields |-> IF data[f] = Absent THEN Absent
                                                                 ELSE NEWVALUE]]
  BY DEF NewItem
<1>2. PICK orig : orig = [f \in Fields |-> IF data[f] = Absent THEN Absent
                                                               ELSE NEWVALUE]
  OBVIOUS
<1>3. /\ item'.data = data /\ item'.orig = orig /\ item'.dirty = "yes"
      /\ item' = [data |-> item'.data, orig |-> item'.orig, dirty |-> item'.dirty]
  BY <1>1, <1>2
<1>4. /\ orig \in [Fields -> Values \cup {Absent, NEWVALUE}]
      /\ \A f \in Fields : orig[f] = IF data[f] = Absent THEN Absent ELSE NEWVALUE
  BY <1>2
<1>5. /\ base' = Empty /\ behind' = Has(row) /\ again' = {} /\ answer' = "none"
      /\ row' = row /\ copy' = copy /\ wrote' = wrote
  BY DEF NewItem
<1>6. Empty \in [Fields -> Values \cup {Absent}] /\ Has(row) \subseteq Fields
  BY DEF Empty, Has
<1>7. ItemTyped'
  BY <1>1, <1>3, <1>4, <1>5, <1>6 DEF ItemInv, ItemTyped
<1>8. ExpectsBase'
  BY <1>3, <1>4, <1>5, ItemAssumption DEF ExpectsBase, Expects, Empty
<1>9. KnowsRow'
  BY <1>5 DEF KnowsRow, Has, Empty
<1> QED BY <1>5, <1>7, <1>8, <1>9 DEF ItemInv, RefusedForReason

LEMMA LoadItemKeeps == ItemInv /\ LoadItem => ItemInv'
<1> SUFFICES ASSUME ItemInv, LoadItem PROVE ItemInv'
  OBVIOUS
<1>1. PICK read \in {row, copy} \ {Empty} :
         item' = CleanItem(read) /\ base' = read /\ behind' = Differ(row, read)
  BY DEF LoadItem
<1>2. /\ read \in Rows /\ read \in [Fields -> Values \cup {Absent}]
      /\ Differ(row, read) \subseteq Fields
  <2>1. read \in Rows
    BY DEF ItemInv, ItemTyped
  <2> QED BY <2>1, RowFacts DEF Differ
<1>3. /\ again' = {} /\ answer' = "none" /\ row' = row /\ copy' = copy
      /\ wrote' = wrote
  BY DEF LoadItem
<1>4. /\ item'.data = read /\ item'.orig = Empty /\ item'.dirty = "no"
      /\ item' = [data |-> item'.data, orig |-> item'.orig, dirty |-> item'.dirty]
      /\ item'.orig \in [Fields -> Values \cup {Absent, NEWVALUE}]
      /\ Changed' = {}
      /\ \A f \in Fields : Expects(f)' = read[f]
  BY <1>1, <1>2, CleanFacts
<1>5. ItemTyped'
  BY <1>1, <1>2, <1>3, <1>4 DEF ItemInv, ItemTyped
<1>6. ExpectsBase'
  BY <1>1, <1>4 DEF ExpectsBase
<1>7. KnowsRow'
  BY <1>1, <1>3 DEF KnowsRow, Differ
<1> QED BY <1>3, <1>5, <1>6, <1>7 DEF ItemInv, RefusedForReason

\* The first assignment of a field stows what the Item knew of it.
LEMMA ChangeKeeps ==
    ASSUME ItemInv, HasData, NEW f \in Fields \ {KeyField},
           NEW value \in Values \cup {Absent}, Change(f, value)
    PROVE  ItemInv'
<1>1. PICK data, orig : data = item.data /\ orig = item.orig
  OBVIOUS
<1>2. /\ data \in Rows /\ orig \in [Fields -> Values \cup {Absent, NEWVALUE}]
      /\ data \in [Fields -> Values \cup {Absent}] /\ data[KeyField] = TheKey
  BY <1>1, RowFacts DEF ItemInv, ItemTyped, HasData
<1>3. PICK stowed : stowed = Stowed(f)
  OBVIOUS
<1>4. /\ stowed \in Values \cup {NEWVALUE} /\ stowed # Absent
      /\ stowed = NEWVALUE <=> data[f] = Absent
      /\ data[f] # Absent => stowed = data[f]
  BY <1>1, <1>2, <1>3, ItemAssumption DEF Stowed
<1>5. PICK new, stow : /\ new = [data EXCEPT ![f] = value]
                       /\ stow = [orig EXCEPT ![f] = stowed]
  OBVIOUS
<1>6. /\ item'.data = new /\ item'.orig = stow /\ item'.dirty = "yes"
      /\ item' = [data |-> item'.data, orig |-> item'.orig, dirty |-> item'.dirty]
  BY <1>1, <1>3, <1>5 DEF Change
<1>7. /\ new \in [Fields -> Values \cup {Absent}] /\ new[KeyField] = TheKey
      /\ new[f] = value /\ \A g \in Fields \ {f} : new[g] = data[g]
      /\ stow \in [Fields -> Values \cup {Absent, NEWVALUE}]
      /\ stow[f] = stowed /\ \A g \in Fields \ {f} : stow[g] = orig[g]
  BY <1>2, <1>4, <1>5, ItemAssumption
<1>8. new \in Rows
  BY <1>7 DEF Rows
<1>9. /\ again' = IF orig[f] = Absent THEN again ELSE again \cup {f}
      /\ answer' = "none" /\ row' = row /\ copy' = copy /\ base' = base
      /\ behind' = behind /\ wrote' = wrote
  BY <1>1 DEF Change
<1>10. again' \subseteq Changed'
  <2>1. \A g \in again : orig[g] # Absent /\ g \in Fields
    BY <1>1 DEF ItemInv, ItemTyped, Changed, Has
  <2>2. \A g \in again : stow[g] # Absent
    BY <1>4, <1>7, <2>1
  <2>3. stow[f] # Absent
    BY <1>4, <1>7
  <2>4. \A g \in again' : g \in Fields /\ item'.orig[g] # Absent
    BY <1>6, <1>9, <2>1, <2>2, <2>3
  <2> QED BY <2>4 DEF Changed, Has
<1>11. ItemTyped'
  BY <1>6, <1>7, <1>8, <1>9, <1>10 DEF ItemInv, ItemTyped
<1>12. ExpectsBase'
  <2>1. ASSUME NEW g \in Fields \ again'
        PROVE  Expects(g)' = base'[g]
    <3>1. g \in Fields \ again
      BY <1>9, <2>1
    <3>2. Expects(g) = base[g]
      BY <3>1 DEF ItemInv, ExpectsBase
    <3>3. CASE g = f
      <4>1. orig[f] = Absent
        BY <1>9, <2>1, <3>3
      <4>2. data[f] = base[f]
        BY <1>1, <3>2, <3>3, <4>1, ItemAssumption DEF Expects
      <4>3. Expects(g)' = base[f]
        BY <1>4, <1>6, <1>7, <3>3, <4>2, ItemAssumption DEF Expects
      <4> QED BY <1>9, <3>3, <4>3
    <3>4. CASE g # f
      <4>1. Expects(g)' = Expects(g)
        BY <1>1, <1>6, <1>7, <3>4 DEF Expects
      <4> QED BY <1>9, <3>2, <4>1
    <3> QED BY <3>3, <3>4
  <2> QED BY <2>1 DEF ExpectsBase
<1>13. KnowsRow'
  BY <1>9 DEF ItemInv, KnowsRow
<1> QED BY <1>9, <1>11, <1>12, <1>13 DEF ItemInv, RefusedForReason

\* After a call that succeeds, the Item knows of the fields written what they are.
LEMMA SucceedsKeeps ==
    ASSUME ItemInv, HasData, NEW new \in Rows, NEW fields \in SUBSET Fields,
           NEW done \in {"put", "updated", "overwritten"},
           Changed \subseteq fields,
           \A f \in fields : new[f] = item.data[f],
           \A f \in Fields \ fields : new[f] = row[f] \/ new[f] = base[f],
           Succeeds(new, fields, done)
    PROVE  ItemInv'
<1>1. PICK data : data = item.data
  OBVIOUS
<1>2. /\ data \in Rows /\ data \in [Fields -> Values \cup {Absent}]
      /\ new \in [Fields -> Values \cup {Absent}]
      /\ base \in [Fields -> Values \cup {Absent}]
  BY <1>1, RowFacts DEF ItemInv, ItemTyped
<1>3. /\ row' = new /\ item' = CleanItem(data) /\ behind' = behind \ fields
      /\ base' = [f \in Fields |-> IF f \in fields THEN new[f] ELSE base[f]]
      /\ again' = {} /\ answer' = done /\ wrote' = wrote /\ copy' = copy
  BY <1>1 DEF Succeeds, MarkedClean
<1>4. /\ item'.data = data /\ item'.orig = Empty /\ item'.dirty = "no"
      /\ item' = [data |-> item'.data, orig |-> item'.orig, dirty |-> item'.dirty]
      /\ item'.orig \in [Fields -> Values \cup {Absent, NEWVALUE}]
      /\ Changed' = {}
      /\ \A f \in Fields : Expects(f)' = data[f]
  BY <1>2, <1>3, CleanFacts
<1>5. /\ base' \in [Fields -> Values \cup {Absent}]
      /\ \A f \in fields : base'[f] = new[f]
      /\ \A f \in Fields \ fields : base'[f] = base[f]
  BY <1>2, <1>3
<1>6. ItemTyped'
  BY <1>2, <1>3, <1>4, <1>5 DEF ItemInv, ItemTyped
<1>7. ASSUME NEW f \in Fields
      PROVE  data[f] = base'[f]
  <2>1. CASE f \in fields
    BY <1>1, <1>5, <2>1
  <2>2. CASE f \notin fields
    <3>1. f \notin Changed /\ f \notin again
      BY <2>2 DEF ItemInv, ItemTyped
    <3>2. item.orig[f] = Absent /\ Expects(f) = base[f]
      BY <3>1 DEF Changed, Has, ItemInv, ExpectsBase
    <3> QED BY <1>1, <1>5, <2>2, <3>2, ItemAssumption DEF Expects
  <2> QED BY <2>1, <2>2
<1>8. ExpectsBase'
  BY <1>4, <1>7 DEF ExpectsBase
<1>9. ASSUME NEW f \in Fields \ behind'
      PROVE  base'[f] = row'[f]
  <2>1. CASE f \in fields
    BY <1>3, <1>5, <2>1
  <2>2. CASE f \notin fields
    <3>1. base[f] = row[f]
      BY <1>3, <2>2 DEF ItemInv, KnowsRow
    <3> QED BY <1>3, <1>5, <2>2, <3>1
  <2> QED BY <2>1, <2>2
<1>10. KnowsRow'
  BY <1>9 DEF KnowsRow
<1> QED BY <1>3, <1>6, <1>8, <1>10 DEF ItemInv, RefusedForReason

\* With no reason for it, the row is what is expected.
LEMMA RefusedKeeps ==
    ASSUME ItemInv, HasData, NEW fields \in SUBSET Fields, IsRefused,
           ~Holds(fields) \/ KeyField \in Changed
    PROVE  ItemInv'
<1>1. /\ answer' = "refused" /\ row' = row /\ copy' = copy /\ item' = item
      /\ base' = base /\ behind' = behind /\ again' = again /\ wrote' = wrote
  BY DEF IsRefused
<1>2. ItemTyped'
  BY <1>1 DEF ItemInv, ItemTyped, Changed
<1>3. ExpectsBase' /\ KnowsRow'
  BY <1>1 DEF ItemInv, ExpectsBase, Expects, KnowsRow, HasData
<1>4. behind # {} \/ again # {} \/ item.orig[KeyField] # Absent
  <2>1. CASE KeyField \in Changed
    BY <2>1 DEF Changed, Has
  <2>2. CASE ~Holds(fields)
    <3>1. PICK f \in Fields : row[f] # Expects(f)
      BY <2>2 DEF Holds
    <3> QED BY <3>1 DEF ItemInv, ExpectsBase, KnowsRow
  <2> QED BY <2>1, <2>2
<1> QED BY <1>1, <1>2, <1>3, <1>4 DEF ItemInv, RefusedForReason

LEMMA LostKeeps ==
    ASSUME ItemInv, NEW new \in Rows, IsLost(new)
    PROVE  ItemInv'
<1>1. /\ answer' = "lost" /\ row' = new /\ copy' = copy /\ item' = item /\ base' = base
      /\ behind' = Fields /\ again' = again /\ wrote' = wrote
  BY DEF IsLost
<1>2. ItemTyped'
  BY <1>1 DEF ItemInv, ItemTyped, Changed
<1> QED BY <1>1, <1>2 DEF ItemInv, ExpectsBase, Expects, KnowsRow, RefusedForReason

\* What a partial save makes of the row.
LEMMA WithChangesFacts ==
    ASSUME ItemInv, HasData
    PROVE  /\ WithChanges \in Rows
           /\ \A f \in Changed : WithChanges[f] = item.data[f]
           /\ \A f \in Fields \ Changed :
                 WithChanges[f] = row[f] \/ WithChanges[f] = base[f]
<1>1. /\ item.data \in [Fields -> Values \cup {Absent}]
      /\ row \in [Fields -> Values \cup {Absent}]
      /\ item.data[KeyField] = TheKey
  BY RowFacts DEF ItemInv, ItemTyped, HasData
<1>2. /\ WithChanges \in [Fields -> Values \cup {Absent}]
      /\ \A f \in Fields : WithChanges[f] =
            IF f \in Changed \cup {KeyField} THEN item.data[f] ELSE row[f]
  BY <1>1 DEF WithChanges
<1>3. WithChanges \in Rows
  BY <1>1, <1>2, ItemAssumption DEF Rows
<1>4. Changed \subseteq Fields
  BY DEF Changed, Has
<1>5. KeyField \notin Changed => item.data[KeyField] = base[KeyField]
  BY ItemAssumption DEF ItemInv, ItemTyped, ExpectsBase, Expects, Changed, Has
<1> QED BY <1>2, <1>3, <1>4, <1>5

LEMMA SaveKeeps == ItemInv /\ Save => ItemInv'
<1> SUFFICES ASSUME ItemInv, Save PROVE ItemInv'
  OBVIOUS
<1>1. HasData /\ item.data \in Rows /\ Known \subseteq Fields /\ Changed \subseteq Fields
  BY DEF Save, ItemInv, ItemTyped, Known, Has, Changed
<1>2. CASE Succeeds(item.data, Fields, "put")
  BY <1>1, <1>2, SucceedsKeeps
<1>3. CASE IsLost(item.data)
  BY <1>1, <1>3, LostKeeps
<1>4. CASE ~Holds(Known) /\ IsRefused
  BY <1>1, <1>4, RefusedKeeps
<1> QED BY <1>2, <1>3, <1>4 DEF Save

LEMMA OverwriteKeeps == ItemInv /\ Overwrite => ItemInv'
<1> SUFFICES ASSUME ItemInv, Overwrite PROVE ItemInv'
  OBVIOUS
<1>1. /\ HasData /\ item.data \in Rows /\ Changed \subseteq Fields
      /\ Succeeds(item.data, Fields, "overwritten")
  BY DEF Overwrite, ItemInv, ItemTyped, Has, Changed
<1> QED BY <1>1, SucceedsKeeps

LEMMA PartialSaveKeeps == ItemInv /\ PartialSave => ItemInv'
<1> SUFFICES ASSUME ItemInv, PartialSave PROVE ItemInv'
  OBVIOUS
<1>1. HasData /\ Changed \subseteq Fields
  BY DEF PartialSave, Has, Changed
<1>2. PICK new \in Rows :
         /\ new = WithChanges
         /\ \A f \in Changed : new[f] = item.data[f]
         /\ \A f \in Fields \ Changed : new[f] = row[f] \/ new[f] = base[f]
  BY <1>1, WithChangesFacts
<1>3. CASE Succeeds(new, Changed, "updated")
  BY <1>1, <1>2, <1>3, SucceedsKeeps
<1>4. CASE IsLost(new)
  BY <1>4, LostKeeps
<1>5. CASE ~(KeyField \notin Changed /\ Holds(Changed)) /\ IsRefused
  BY <1>1, <1>5, RefusedKeeps
<1> QED BY <1>2, <1>3, <1>4, <1>5 DEF PartialSave

LEMMA OthersPutKeeps == ItemInv /\ OthersPut => ItemInv'
<1> SUFFICES ASSUME ItemInv, OthersPut PROVE ItemInv'
  OBVIOUS
<1>1. /\ row' \in Rows /\ item' = item /\ answer' = answer /\ base' = base
      /\ copy' = copy /\ again' = again
      /\ behind' = behind \cup {f \in Fields : row[f] # row'[f]}
  BY DEF OthersPut, Differ
<1>2. wrote' \in 0..MaxOthers
  BY ItemAssumption DEF OthersPut, ItemInv, ItemTyped
<1>3. ItemTyped'
  BY <1>1, <1>2 DEF ItemInv, ItemTyped, Changed
<1>4. ExpectsBase' /\ KnowsRow'
  BY <1>1 DEF ItemInv, ExpectsBase, Expects, KnowsRow, HasData
<1> QED BY <1>1, <1>3, <1>4 DEF ItemInv, RefusedForReason

LEMMA CatchUpKeeps == ItemInv /\ CatchUp => ItemInv'
<1> SUFFICES ASSUME ItemInv, CatchUp PROVE ItemInv'
  OBVIOUS
<1>1. ItemTyped'
  BY DEF CatchUp, ItemInv, ItemTyped, Changed
<1> QED BY <1>1 DEF CatchUp, ItemInv, ExpectsBase, Expects, KnowsRow, HasData,
                    RefusedForReason

LEMMA ItemStepHolds == ItemInv /\ [ItemNext]_itemVars => ItemInv'
<1> SUFFICES ASSUME ItemInv, [ItemNext]_itemVars PROVE ItemInv'
  OBVIOUS
<1>1. CASE SetField
  BY <1>1, ChangeKeeps DEF SetField
<1>2. CASE DeleteField
  BY <1>2, ChangeKeeps DEF DeleteField, Has
<1>3. CASE UNCHANGED itemVars
  BY <1>3 DEF itemVars, ItemInv, ItemTyped, ExpectsBase, Expects, KnowsRow,
              HasData, Changed, RefusedForReason
<1> QED BY <1>1, <1>2, <1>3, NewItemKeeps, LoadItemKeeps, SaveKeeps, OverwriteKeeps,
           PartialSaveKeeps, OthersPutKeeps, CatchUpKeeps DEF ItemNext

\* A step after which the answer is that a save was carried out.
LEMMA SavedWhat ==
    ASSUME ItemInv, [ItemNext]_itemVars, answer # answer'
    PROVE  /\ answer' = "put" => \A f \in Known \ again : row[f] = base[f]
           /\ answer' = "updated" => \A f \in Changed \ again : row[f] = base[f]
<1>1. Known \subseteq Fields /\ Changed \subseteq Fields
  BY DEF Known, Changed, Has
<1>2. ASSUME NEW fields \in SUBSET Fields, Holds(fields)
      PROVE  \A f \in fields \ again : row[f] = base[f]
  BY <1>2 DEF Holds, ItemInv, ExpectsBase
<1>3. ItemNext
  BY DEF itemVars
<1>4. answer' = "put" => Save /\ Holds(Known)
  BY <1>3 DEF ItemNext, NewItem, LoadItem, SetField, DeleteField, Change, Save,
              Overwrite, PartialSave, OthersPut, CatchUp, Succeeds, IsRefused, IsLost
<1>5. answer' = "updated" => PartialSave /\ Holds(Changed)
  BY <1>3 DEF ItemNext, NewItem, LoadItem, SetField, DeleteField, Change, Save,
              Overwrite, PartialSave, OthersPut, CatchUp, Succeeds, IsRefused, IsLost
<1> QED BY <1>1, <1>2, <1>4, <1>5

\* No save of an Item takes a change of others with it or is refused without a
\* reason, and an Item without changes is its row but for fields it knows to be
\* behind, for any fields and values, whatever others write and whichever copy of
\* the row is read (dynamodb2/items.py).
THEOREM ItemIsRow == ItemSpec => ItemAgrees
<1>1. ItemInv => RefusedForReason /\ CleanIsRow
  <2> SUFFICES ASSUME ItemInv, item.dirty = "no", HasData, NEW f \in Fields \ behind
               PROVE  item.data[f] = row[f]
    BY DEF ItemInv, CleanIsRow
  <2>1. Changed = {} /\ again = {}
    BY DEF ItemInv, ItemTyped
  <2>2. item.orig[f] = Absent /\ Expects(f) = base[f]
    BY <2>1 DEF Changed, Has, ItemInv, ExpectsBase
  <2> QED BY <2>2, ItemAssumption DEF Expects, ItemInv, KnowsRow
<1>2. ItemInv /\ [ItemNext]_itemVars =>
         [answer # answer' =>
            /\ answer' = "put" => \A f \in Known \ again : row[f] = base[f]
            /\ answer' = "updated" => \A f \in Changed \ again : row[f] = base[f]
         ]_itemVars
  BY SavedWhat
<1> QED BY <1>1, <1>2, ItemInitHolds, ItemStepHolds, PTL
        DEF ItemSpec, ItemAgrees, NoLostUpdate

\* The parts of an Item keep their types.
THEOREM ItemTyping == ItemSpec => []ItemTypeOK
<1>1. ItemInv => ItemTypeOK
  <2> SUFFICES ASSUME ItemInv PROVE ItemTypeOK
    OBVIOUS
  <2>1. PICK rows, origs : /\ rows = Rows
                           /\ origs = [Fields -> Values \cup {Absent, NEWVALUE}]
    OBVIOUS
  <2>2. item \in [data : rows, dirty : {"no", "yes"}, orig : origs]
    <3>1. PICK d, o, y : /\ item = [data |-> d, orig |-> o, dirty |-> y]
                         /\ d \in rows /\ o \in origs /\ y \in {"no", "yes"}
      BY <2>1 DEF ItemInv, ItemTyped
    <3> QED BY <3>1
  <2>3. again \subseteq Fields
    BY DEF ItemInv, ItemTyped, Changed, Has
  <2> QED BY <2>1, <2>2, <2>3, Zenon DEF ItemInv, ItemTyped, ItemTypeOK
<1> QED BY <1>1, ItemInitHolds, ItemStepHolds, PTL DEF ItemSpec
-----------------------------------------------------------------------------
(* The schedule of a task.                                                  *)

LEMMA DayIsNat == Day \in Nat /\ Day > 0
  BY HoursAssumption DEF Day

\* What % and \div make of the times of a day.
LEMMA DayFacts ==
    ASSUME NEW n \in Nat
    PROVE  /\ Seconds(n) \in 0..Day - 1 /\ Seconds(n) <= n /\ Days(n) \in Nat
           /\ n < Day => Seconds(n) = n /\ Days(n) = 0
           /\ n >= Day /\ n < 2 * Day => Seconds(n) = n - Day /\ Days(n) = 1
<1>1. PICK d : d = Day
  OBVIOUS
<1>2. d \in Nat /\ d > 0
  BY <1>1, DayIsNat
<1>3. n % d \in 0..d - 1 /\ n \div d \in Nat
  BY <1>2
<1>4. n < d => n % d = n /\ n \div d = 0
  BY <1>2
<1>5. n >= d /\ n < 2 * d => n \div d = 1
  BY <1>2
<1>6. n = d * (n \div d) + (n % d)
  BY <1>2, SMTT(30)
<1>7. n % d <= n
  <2>1. d * (n \div d) >= 0
    BY <1>2, <1>3
  <2> QED BY <1>2, <1>3, <1>6, <2>1
<1>8. n >= d /\ n < 2 * d => n % d = n - d
  BY <1>2, <1>3, <1>5, <1>6
<1> QED BY <1>1, <1>2, <1>3, <1>4, <1>5, <1>7, <1>8 DEF Seconds, Days

\* The hour of a time, and the time of an hour.
LEMMA HourFacts ==
    /\ Hours \in Nat /\ Hours >= 2 /\ PerHour \in Nat /\ PerHour > 0
    /\ (Hours - 1) * PerHour = Day - PerHour /\ 2 * PerHour <= Day
    /\ \A h \in Nat, t \in 0..PerHour - 1 : (h * PerHour + t) \div PerHour = h
    /\ \A h \in Nat : h < Hours => h * PerHour \in Nat /\ h * PerHour <= Day - PerHour
    /\ \A h \in Nat : h > 0 => h * PerHour = (h - 1) * PerHour + PerHour
    /\ \A n \in Nat : \E h \in Nat, t \in 0..PerHour - 1 :
          h = n \div PerHour /\ t = n % PerHour /\ n = h * PerHour + t
    /\ \A n \in 0..Day - 1 : n \div PerHour < Hours
<1>1. /\ Hours \in Nat /\ Hours >= 2 /\ PerHour \in Nat /\ PerHour > 0
      /\ Day = Hours * PerHour
  BY HoursAssumption DEF Day
<1>2. ASSUME NEW a \in Nat, NEW b \in Nat, a <= b
      PROVE  a * PerHour \in Nat /\ b * PerHour \in Nat /\ a * PerHour <= b * PerHour
  BY <1>1, <1>2
<1>3. (Hours - 1) * PerHour = Day - PerHour
  BY <1>1
<1>4. 2 * PerHour <= Day
  BY <1>1, <1>2
<1>5. \A h \in Nat, t \in 0..PerHour - 1 : (h * PerHour + t) \div PerHour = h
  BY <1>1, SMTT(30)
<1>6. ASSUME NEW h \in Nat, h < Hours
      PROVE  h * PerHour \in Nat /\ h * PerHour <= Day - PerHour
  BY <1>1, <1>2, <1>3, <1>6
<1>7. \A h \in Nat : h > 0 => h * PerHour = (h - 1) * PerHour + PerHour
  BY <1>1
<1>8. ASSUME NEW n \in Nat
      PROVE  \E h \in Nat, t \in 0..PerHour - 1 :
                h = n \div PerHour /\ t = n % PerHour /\ n = h * PerHour + t
  <2>1. PICK h, t : h = n \div PerHour /\ t = n % PerHour
    OBVIOUS
  <2>2. t \in 0..PerHour - 1 /\ h \in Nat
    BY <1>1, <2>1
  <2>3. n = PerHour * h + t
    BY <1>1, <2>1, SMTT(30)
  <2>4. PerHour * h = h * PerHour
    BY <1>1, <2>2
  <2>5. n = h * PerHour + t
    BY <2>3, <2>4
  <2> QED BY <2>1, <2>2, <2>5, Zenon
<1>9. ASSUME NEW n \in 0..Day - 1
      PROVE  n \div PerHour < Hours
  <2>1. PICK q \in Nat, t \in 0..PerHour - 1 :
           q = n \div PerHour /\ n = q * PerHour + t
    BY <1>8
  <2>2. q * PerHour <= n /\ n < Hours * PerHour
    BY <1>1, <1>2, <2>1
  <2>3. CASE Hours <= q
    BY <1>1, <1>2, <2>2, <2>3
  <2> QED BY <1>1, <2>1, <2>3
<1> QED BY <1>1, <1>3, <1>4, <1>5, <1>6, <1>7, <1>8, <1>9

\* A task that has been executed, whose message did not wait for a day since: an
\* hourly one will be looked at an hour later, and as much later as it waited.
InHour == hour = Hourly /\ since # Never /\ lag < Day - PerHour =>
             since + due <= PerHour + lag

\* A daily one that did not wait past its hour was executed a while ago; or is put
\* off to the hour before its hour of the next day; or from there to its hour.
InDay == hour # Hourly /\ hour # 0 /\ began + lag < PerHour /\ since # Never =>
            /\ \/ since <= lag /\ due = 0
               \/ /\ since + due >= Day - PerHour
                  /\ since + due <= Day - PerHour + lag
                  /\ due = 0 \/ due = Day - PerHour
               \/ /\ since + due >= Day
                  /\ since + due <= Day + lag
                  /\ due = 0 \/ due = PerHour
            /\ \/ daytime = hour * PerHour + began + since
               \/ daytime = hour * PerHour + began + since - Day

ScheduleInv == ScheduleTypeOK /\ InHour /\ InDay

\* A number is not the hour of an hourly task, nor the time of one never executed.
LEMMA ScheduleFacts ==
    ASSUME ScheduleTypeOK
    PROVE  /\ daytime \in 0..Day - 1 /\ due \in Nat /\ due <= Day
           /\ lag \in Nat /\ began \in 0..PerHour - 1
           /\ Hourly \notin Int /\ Never \notin Int
           /\ since # Never => since \in Nat /\ since < 2 * Day
           /\ hour # Hourly => hour \in Nat /\ hour < Hours /\ hour \in TaskHours
<1>1. /\ Hours \in Nat /\ MaxLag \in Nat /\ Hourly \notin Int /\ Never \notin Int
      /\ TaskHours \subseteq 0..Hours - 1
  BY HoursAssumption
<1>2. Day \in Nat
  BY DayFacts, DayIsNat
<1> QED BY <1>1, <1>2 DEF ScheduleTypeOK

\* How long check waits: not longer than the rest of the hour, or the hours until
\* that of the task.
LEMMA HourlyFacts ==
    ASSUME ScheduleTypeOK, hour = Hourly
    PROVE  /\ Check \in 0..PerHour
           /\ Check = 0 => since = Never \/ since >= PerHour
           /\ Check > 0 => since # Never
           /\ Check > 0 /\ since < Day => since < PerHour /\ Check = PerHour - since
<1>1. since # Never => /\ since \in Nat
                       /\ Seconds(since) \in Nat /\ Seconds(since) <= since
                       /\ since < Day => Seconds(since) = since
  BY ScheduleFacts, DayFacts, DayIsNat
<1>2. Check = IF since = Never THEN 0
              ELSE IF Seconds(since) >= PerHour THEN 0 ELSE PerHour - Seconds(since)
  BY DEF Check, HourlyCheck
<1> QED BY <1>1, <1>2, HourFacts

LEMMA DailyFacts ==
    ASSUME ScheduleTypeOK, hour # Hourly
    PROVE  /\ Check \in 0..Day
           /\ Check = 0 => hour = now_hour /\ (since = Never \/ since >= Day)
           /\ hour = now_hour /\ since # Never /\ since < Day => Check = Day - PerHour
           /\ hour = now_hour /\ since # Never /\ since >= Day => Check = 0
           /\ hour = now_hour + 1 => Check = PerHour
<1>1. /\ hour \in Nat /\ hour < Hours /\ daytime \in 0..Day - 1 /\ daytime \in Nat
      /\ since # Never => since \in Nat /\ since < 2 * Day
  BY ScheduleFacts, DayFacts, DayIsNat
<1>2. PICK n \in Nat : n = now_hour /\ n < Hours
  BY <1>1, HourFacts DEF now_hour
<1>3. CASE hour # n
  <2>1. PICK a \in Nat : /\ a = Apart(hour) /\ a > 0 /\ a < Hours
                         /\ hour = n + 1 => a = 1
    <3>1. PICK a : a = IF hour > n THEN hour - n ELSE n - hour
      OBVIOUS
    <3>2. a \in Nat /\ a > 0 /\ a < Hours /\ (hour = n + 1 => a = 1)
      BY <1>1, <1>2, <1>3, <3>1, HourFacts
    <3>3. a = Apart(hour)
      BY <1>2, <3>1, Zenon DEF Apart
    <3> QED BY <3>2, <3>3
  <2>2. Check = a * PerHour
    BY <1>2, <1>3, <2>1 DEF Check, DailyCheck
  <2>3. a * PerHour = (a - 1) * PerHour + PerHour /\ (a - 1) * PerHour \in Nat
    BY <2>1, HourFacts
  <2>4. a * PerHour \in Nat /\ a * PerHour <= Day - PerHour
    BY <2>1, HourFacts
  <2>5. a = 1 => a * PerHour = PerHour
    BY HourFacts
  <2> QED BY <1>2, <1>3, <2>1, <2>2, <2>3, <2>4, <2>5, HourFacts, DayFacts, DayIsNat
<1>4. CASE hour = n
  <2>1. Check = IF since = Never THEN 0
                ELSE IF Days(since) >= 1 THEN 0 ELSE (Hours - 1) * PerHour
    BY <1>2, <1>4 DEF Check, DailyCheck, EnoughDays
  <2>2. since # Never => /\ since < Day => Days(since) = 0
                         /\ since >= Day => Days(since) = 1
    BY <1>1, DayFacts, DayIsNat
  <2>3. (Hours - 1) * PerHour = Day - PerHour /\ 2 * PerHour <= Day
    BY HourFacts
  <2>4. Day \in Nat /\ PerHour \in Nat /\ PerHour > 0
    BY HourFacts, DayFacts, DayIsNat
  <2> QED BY <1>1, <1>2, <1>4, <2>1, <2>2, <2>3, <2>4
<1> QED BY <1>3, <1>4

LEMMA ScheduleInitHolds == ScheduleInit => ScheduleInv
<1> SUFFICES ASSUME ScheduleInit PROVE ScheduleInv
  OBVIOUS
<1>1. Day \in Nat /\ PerHour \in Nat /\ PerHour > 0
  BY DayFacts, DayIsNat, HourFacts
<1> QED BY <1>1, HoursAssumption
        DEF ScheduleInit, ScheduleInv, ScheduleTypeOK, InHour, InDay

LEMMA RunKeeps == ScheduleInv /\ Run => ScheduleInv'
<1> SUFFICES ASSUME ScheduleInv, Run PROVE ScheduleInv'
  OBVIOUS
<1>1. ScheduleTypeOK /\ Check = 0 /\ due = 0
  BY DEF ScheduleInv, Run
<1>2. /\ since' = 0 /\ due' = 0 /\ lag' = 0 /\ began' = daytime % PerHour
      /\ hour' = hour /\ daytime' = daytime
  BY <1>1 DEF Run
<1>3. daytime \in Nat /\ Day \in Nat /\ Day > 0 /\ PerHour \in Nat /\ PerHour > 0
  BY <1>1, ScheduleFacts, HourFacts, DayIsNat
<1>4. PICK h \in Nat, t \in 0..PerHour - 1 :
         h = now_hour /\ t = began' /\ daytime = h * PerHour + t
  BY <1>2, <1>3, HourFacts, Zenon DEF now_hour
<1>5. ScheduleTypeOK'
  BY <1>1, <1>2, <1>3, <1>4, HoursAssumption DEF ScheduleTypeOK
<1>6. InHour'
  BY <1>2, <1>3 DEF InHour
<1>7. InDay'
  <2> SUFFICES ASSUME hour # Hourly
               PROVE  daytime = hour * PerHour + began' + 0
    BY <1>2, <1>3 DEF InDay
  <2>1. hour = h
    BY <1>1, <1>4, DailyFacts
  <2>2. h * PerHour \in Nat
    BY <1>1, <2>1, ScheduleFacts, HourFacts
  <2> QED BY <1>3, <1>4, <2>1, <2>2
<1> QED BY <1>5, <1>6, <1>7 DEF ScheduleInv

LEMMA PutOffKeeps == ScheduleInv /\ PutOff => ScheduleInv'
<1> SUFFICES ASSUME ScheduleInv, PutOff PROVE ScheduleInv'
  OBVIOUS
<1>1. ScheduleTypeOK /\ Check > 0 /\ due = 0 /\ InHour /\ InDay
  BY DEF ScheduleInv, PutOff
<1>2. /\ due' = Check /\ since' = since /\ hour' = hour /\ daytime' = daytime
      /\ lag' = lag /\ began' = began
  BY DEF PutOff
<1>3. Day \in Nat /\ PerHour \in Nat /\ PerHour > 0 /\ 2 * PerHour <= Day
  BY DayFacts, DayIsNat, HourFacts
<1>4. ScheduleTypeOK'
  <2>1. Check \in 0..Day
    BY <1>1, <1>3, HourlyFacts, DailyFacts
  <2> QED BY <1>1, <1>2, <2>1 DEF ScheduleTypeOK
<1>5. InHour'
  <2> SUFFICES ASSUME hour = Hourly, since # Never, lag < Day - PerHour
               PROVE  since + Check <= PerHour + lag
    BY <1>2 DEF InHour
  <2>1. since \in Nat /\ lag \in Nat
    BY <1>1, ScheduleFacts
  <2>2. since <= PerHour + lag
    BY <1>1, <2>1 DEF InHour
  <2>3. since < Day
    BY <1>3, <2>1, <2>2
  <2>4. Check = PerHour - since
    BY <1>1, <2>3, HourlyFacts
  <2> QED BY <1>3, <2>1, <2>4
<1>6. InDay'
  <2> SUFFICES ASSUME hour # Hourly, hour # 0, began + lag < PerHour, since # Never
               PROVE  \/ /\ since + Check >= Day - PerHour
                         /\ since + Check <= Day - PerHour + lag
                         /\ Check = Day - PerHour
                      \/ /\ since + Check >= Day
                         /\ since + Check <= Day + lag
                         /\ Check = PerHour
    BY <1>1, <1>2 DEF InDay
  <2>1. /\ since \in Nat /\ lag \in Nat /\ began \in Nat /\ hour \in Nat /\ hour > 0
        /\ hour < Hours /\ daytime \in Nat /\ daytime < Day
    BY <1>1, <1>3, ScheduleFacts
  <2>2. PICK start \in Nat, first \in Nat :
           /\ start = hour * PerHour /\ start <= Day - PerHour
           /\ first = (hour - 1) * PerHour /\ start = first + PerHour
    BY <2>1, HourFacts
  <2>3. /\ \/ since <= lag
           \/ since >= Day - PerHour /\ since <= Day - PerHour + lag
           \/ since >= Day /\ since <= Day + lag
        /\ daytime = start + began + since \/ daytime = start + began + since - Day
    BY <1>1, <2>1, <2>2 DEF InDay
  <2>4. ASSUME NEW h \in Nat, NEW n \in 0..PerHour - 1, daytime = h * PerHour + n
        PROVE  now_hour = h
    BY <2>4, HourFacts DEF now_hour
  <2>5. CASE since <= lag
    <3>1. daytime = start + (began + since) /\ began + since \in 0..PerHour - 1
      BY <1>3, <2>1, <2>2, <2>3, <2>5
    <3>2. now_hour = hour
      BY <2>1, <2>2, <2>4, <3>1
    <3>3. Check = Day - PerHour
      BY <1>1, <1>3, <2>1, <2>5, <3>1, <3>2, DailyFacts
    <3> QED BY <1>3, <2>1, <2>5, <3>3
  <2>6. CASE since >= Day /\ since <= Day + lag
    <3>1. /\ daytime = start + (began + since - Day)
          /\ began + since - Day \in 0..PerHour - 1
      BY <1>3, <2>1, <2>2, <2>3, <2>6
    <3>2. now_hour = hour
      BY <2>1, <2>2, <2>4, <3>1
    <3>3. Check = 0
      BY <1>1, <2>6, <3>2, DailyFacts
    <3> QED BY <1>1, <3>3
  <2>7. CASE since >= Day - PerHour /\ since <= Day - PerHour + lag
    <3>1. PICK n \in 0..PerHour - 1 : n = began + since - (Day - PerHour)
      BY <1>3, <2>1, <2>7
    <3>2. daytime = first + n
      BY <1>3, <2>1, <2>2, <2>3, <2>7, <3>1
    <3>3. now_hour = hour - 1
      <4>1. hour - 1 \in Nat
        BY <2>1
      <4> QED BY <2>2, <2>4, <3>2, <4>1
    <3>4. Check = PerHour
      BY <1>1, <2>1, <3>3, DailyFacts
    <3> QED BY <1>3, <2>1, <2>7, <3>4
  <2> QED BY <2>3, <2>5, <2>6, <2>7
<1> QED BY <1>4, <1>5, <1>6 DEF ScheduleInv

\* What a time that passes makes of the time of day, and of the time since the last
\* execution.
LEMMA PassFacts ==
    ASSUME ScheduleTypeOK, NEW time \in Nat, Pass(time)
    PROVE  /\ daytime' \in 0..Day - 1
           /\ daytime + time < 2 * Day =>
                daytime' = daytime + time \/ daytime' = daytime + time - Day
           /\ since = Never => since' = Never
           /\ since # Never => /\ since' \in 0..2 * Day - 1
                               /\ since' <= since + time
                               /\ since + time < 2 * Day => since' = since + time
<1>1. /\ daytime \in Nat /\ Day \in Nat /\ Day > 0 /\ Never \notin Int
      /\ since # Never => since \in Nat
  BY ScheduleFacts, DayFacts, DayIsNat
<1>2. PICK n \in Nat : n = daytime + time
  BY <1>1
<1>3. daytime' = Seconds(n)
  BY <1>2 DEF Pass, Seconds
<1>4. since # Never => since' = Capped(since + time)
  BY DEF Pass
<1>5. ASSUME NEW s \in Nat
      PROVE  /\ Capped(s) \in 0..2 * Day - 1 /\ Capped(s) <= s
             /\ s < 2 * Day => Capped(s) = s
  <2>1. s % Day \in 0..Day - 1
    BY DayFacts, DayIsNat DEF Seconds
  <2> QED BY <1>1, <2>1 DEF Capped
<1>6. /\ Seconds(n) \in 0..Day - 1
      /\ n < Day => Seconds(n) = n
      /\ n >= Day /\ n < 2 * Day => Seconds(n) = n - Day
  BY DayFacts, DayIsNat
<1>7. since # Never => since + time \in Nat
  BY <1>1
<1>8. since = Never => since' = Never
  BY DEF Pass
<1> QED BY <1>1, <1>2, <1>3, <1>4, <1>5, <1>6, <1>7, <1>8

LEMMA ElapseKeeps == ScheduleInv /\ Elapse => ScheduleInv'
<1> SUFFICES ASSUME ScheduleInv, Elapse PROVE ScheduleInv'
  OBVIOUS
<1>1. ScheduleTypeOK /\ due > 0 /\ InHour /\ InDay
  BY DEF ScheduleInv, Elapse
<1>2. due' = 0 /\ lag' = lag /\ hour' = hour /\ began' = began /\ Pass(due)
  BY DEF Elapse, Pass
<1>3. /\ Day \in Nat /\ PerHour \in Nat /\ PerHour > 0 /\ 2 * PerHour <= Day
      /\ due \in Nat /\ due <= Day /\ daytime \in Nat /\ daytime < Day
      /\ lag \in Nat /\ began \in Nat /\ Never \notin Int
      /\ since # Never => since \in Nat
  BY <1>1, DayFacts, DayIsNat, HourFacts, ScheduleFacts
<1>4. /\ daytime' \in 0..Day - 1
      /\ daytime' = daytime + due \/ daytime' = daytime + due - Day
      /\ since = Never => since' = Never
      /\ since # Never => /\ since' \in 0..2 * Day - 1
                          /\ since + due < 2 * Day => since' = since + due
  BY <1>1, <1>2, <1>3, PassFacts
<1>5. since' # Never => since # Never
  BY <1>4
<1>6. ScheduleTypeOK'
  BY <1>1, <1>2, <1>3, <1>4 DEF ScheduleTypeOK
<1>7. InHour'
  BY <1>1, <1>2, <1>3, <1>4, <1>5 DEF InHour
<1>8. InDay'
  <2> SUFFICES ASSUME hour # Hourly, hour # 0, began + lag < PerHour, since # Never
               PROVE  /\ \/ since' <= lag
                         \/ since' >= Day - PerHour /\ since' <= Day - PerHour + lag
                         \/ since' >= Day /\ since' <= Day + lag
                      /\ \/ daytime' = hour * PerHour + began + since'
                         \/ daytime' = hour * PerHour + began + since' - Day
    BY <1>2, <1>3, <1>4, <1>5 DEF InDay
  <2>1. PICK start \in Nat : start = hour * PerHour /\ start <= Day - PerHour
    BY <1>1, ScheduleFacts, HourFacts
  <2>2. /\ \/ since + due >= Day - PerHour /\ since + due <= Day - PerHour + lag
           \/ since + due >= Day /\ since + due <= Day + lag
        /\ daytime = start + began + since \/ daytime = start + began + since - Day
    BY <1>1, <1>3, <2>1 DEF InDay
  <2>3. since' = since + due
    BY <1>3, <1>4, <2>2
  <2>4. start + began + since' < 2 * Day
    BY <1>3, <2>1, <2>2, <2>3
  <2>5. daytime' = start + began + since' \/ daytime' = start + began + since' - Day
    <3>1. PICK d \in Nat, n \in Nat : d = daytime' /\ n = since /\ d < Day
      BY <1>3, <1>4
    <3>2. /\ d = daytime + due \/ d = daytime + due - Day
          /\ daytime = start + began + n \/ daytime = start + began + n - Day
      BY <1>4, <2>2, <3>1
    <3>3. start + began + n + due < 2 * Day
      BY <1>3, <2>3, <2>4, <3>1
    <3>4. d = start + began + n + due \/ d = start + began + n + due - Day
      BY <1>3, <3>1, <3>2, <3>3
    <3> QED BY <1>3, <2>1, <2>3, <3>1, <3>4
  <2> QED BY <2>1, <2>2, <2>3, <2>5
<1> QED BY <1>6, <1>7, <1>8 DEF ScheduleInv

LEMMA LateKeeps ==
    ASSUME ScheduleInv, NEW l \in 1..MaxLag - lag, Late(l)
    PROVE  ScheduleInv'
<1>1. ScheduleTypeOK /\ due = 0 /\ InHour /\ InDay
  BY DEF ScheduleInv, Late
<1>2. due' = 0 /\ lag' = lag + l /\ hour' = hour /\ began' = began /\ Pass(l)
  BY <1>1 DEF Late, Pass
<1>3. /\ Day \in Nat /\ PerHour \in Nat /\ PerHour > 0 /\ 2 * PerHour <= Day
      /\ daytime \in Nat /\ daytime < Day /\ lag \in Nat /\ began \in Nat
      /\ l \in Nat /\ MaxLag \in Nat /\ lag + l \in 0..MaxLag /\ Never \notin Int
      /\ since # Never => since \in Nat
  BY <1>1, DayFacts, DayIsNat, HourFacts, ScheduleFacts, HoursAssumption DEF ScheduleTypeOK
<1>4. /\ daytime' \in 0..Day - 1
      /\ l < Day => daytime' = daytime + l \/ daytime' = daytime + l - Day
      /\ since = Never => since' = Never
      /\ since # Never => /\ since' \in 0..2 * Day - 1 /\ since' <= since + l
                          /\ since + l < 2 * Day => since' = since + l
  BY <1>1, <1>2, <1>3, PassFacts
<1>5. since' # Never => since # Never
  BY <1>4
<1>6. ScheduleTypeOK'
  BY <1>1, <1>2, <1>3, <1>4 DEF ScheduleTypeOK
<1>7. InHour'
  BY <1>1, <1>2, <1>3, <1>4, <1>5 DEF InHour
<1>8. InDay'
  <2> SUFFICES ASSUME hour # Hourly, hour # 0, began + lag + l < PerHour,
                      since # Never
               PROVE  /\ \/ since' <= lag + l
                         \/ /\ since' >= Day - PerHour
                            /\ since' <= Day - PerHour + lag + l
                         \/ since' >= Day /\ since' <= Day + lag + l
                      /\ \/ daytime' = hour * PerHour + began + since'
                         \/ daytime' = hour * PerHour + began + since' - Day
    BY <1>2, <1>3, <1>4, <1>5 DEF InDay
  <2>1. PICK start \in Nat : start = hour * PerHour /\ start <= Day - PerHour
    BY <1>1, ScheduleFacts, HourFacts
  <2>2. /\ \/ since <= lag
           \/ since >= Day - PerHour /\ since <= Day - PerHour + lag
           \/ since >= Day /\ since <= Day + lag
        /\ daytime = start + began + since \/ daytime = start + began + since - Day
    BY <1>1, <1>3, <2>1 DEF InDay
  <2>3. since' = since + l
    BY <1>3, <1>4, <2>2
  <2>4. start + began + since' < 2 * Day
    BY <1>3, <2>1, <2>2, <2>3
  <2>5. daytime' = start + began + since' \/ daytime' = start + began + since' - Day
    BY <1>3, <1>4, <2>1, <2>2, <2>3, <2>4
  <2> QED BY <1>3, <2>1, <2>2, <2>3, <2>5
<1> QED BY <1>6, <1>7, <1>8 DEF ScheduleInv

LEMMA ScheduleStepHolds ==
    ScheduleInv /\ [ScheduleNext]_scheduleVars => ScheduleInv'
<1>1. ScheduleInv /\ UNCHANGED scheduleVars => ScheduleInv'
  BY DEF scheduleVars, ScheduleInv, ScheduleTypeOK, InHour, InDay
<1> QED BY <1>1, RunKeeps, PutOffKeeps, ElapseKeeps, LateKeeps DEF ScheduleNext

\* A task is executed in time and not too often: a daily one in its hour a day
\* after the last time, an hourly one after an hour, and as much later as its
\* message waited, for a day of any length in units (Task.check and run).
THEOREM TaskOnTime == ScheduleSpec => KeepsTime
<1>1. ScheduleInv => OnTime
  <2> SUFFICES ASSUME ScheduleInv, since # Never
               PROVE  IF hour = Hourly THEN lag < Day - PerHour => since <= PerHour + lag
                      ELSE hour # 0 /\ began + lag < PerHour => since <= Day + lag
    BY DEF OnTime
  <2>1. ScheduleTypeOK /\ InHour /\ InDay
    BY DEF ScheduleInv
  <2>2. /\ Day \in Nat /\ PerHour \in Nat /\ since \in Nat /\ due \in Nat /\ lag \in Nat
    BY <2>1, ScheduleFacts, DayFacts, DayIsNat, HourFacts
  <2> QED BY <2>1, <2>2 DEF InHour, InDay
<1>2. ScheduleInv => NotTooOften
  BY HourlyFacts, DailyFacts DEF ScheduleInv, NotTooOften, Run
<1>3. ScheduleInv /\ ScheduleInv' /\ [ScheduleNext]_scheduleVars =>
         [NotTooOften /\ OnTime']_scheduleVars
  <2>1. ScheduleInv' => OnTime'
    BY <1>1, PTL
  <2> QED BY <1>2, <2>1
<1> QED BY <1>3, ScheduleInitHolds, ScheduleStepHolds, PTL
        DEF ScheduleSpec, KeepsTime

\* The times of the schedule keep their types.
THEOREM ScheduleTyping == ScheduleSpec => []ScheduleTypeOK
<1>1. ScheduleInv => ScheduleTypeOK
  BY DEF ScheduleInv
<1> QED BY <1>1, ScheduleInitHolds, ScheduleStepHolds, PTL DEF ScheduleSpec
=============================================================================
