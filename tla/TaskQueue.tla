----------------------------- MODULE TaskQueue -----------------------------
(***************************************************************************)
(* The Task of boto/manage/task.py and the TaskPollers that run it: a      *)
(* repeating task lives in SimpleDB, and one message in an SQS queue       *)
(* stands for its next run.  A poller that has run the task writes the     *)
(* next message, stores its id with the task, and deletes the one it read; *)
(* it may be killed in between, and others may read the same message.      *)
(* Models of boto read SimpleDB without asking for consistency             *)
(* (sdb/db/model.py, __consistent__): a task may be loaded as it was.      *)
(***************************************************************************)
EXTENDS Integers

CONSTANTS Pollers,
          Messages,    \* message ids; one that is gone may come again
          NoMessage,
          MaxKills     \* bound: pollers killed, and tasks started anew

ASSUME MessagesAssumption == NoMessage \notin Messages

ASSUME KillsAssumption == MaxKills \in Nat

VARIABLES inQueue,   \* messages SQS has
          visible,   \* those a read may return
          taskId,    \* message_id of the task in SimpleDB, NoMessage before the first
          earlier,   \* those it had before, as a read may still find them
          poller,    \* where each poller is, with the message it read and
                     \* the one it wrote
          kills,
          troubles   \* ghost: a message the task waits for, or is about to, is
                     \* dropped by SQS, or read before its id is put

taskVars == <<inQueue, visible, taskId, earlier, poller, kills, troubles>>

Polling == [pc |-> "poll", msg |-> NoMessage, new |-> NoMessage]

\* The task has been started, by Task.start that wrote the first message, or not.
TaskInit == /\ taskId \in Messages \cup {NoMessage}
            /\ inQueue = {taskId} \ {NoMessage}
            /\ visible = inQueue
            /\ earlier = {}
            /\ poller = [p \in Pollers |-> Polling]
            /\ kills = 0
            /\ troubles = {}

\* A message id in use is one of the queue, the task or a poller.
Unused == Messages \ (inQueue \cup {taskId} \cup earlier
                        \cup {poller[p].msg : p \in Pollers}
                        \cup {poller[p].new : p \in Pollers})

\* queue.read makes the message invisible for a while.
ReadMessage(p) ==
    /\ poller[p].pc = "poll"
    /\ \E m \in visible :
          /\ poller' = [poller EXCEPT ![p].pc = "load", ![p].msg = m]
          /\ visible' = visible \ {m}
    /\ UNCHANGED <<inQueue, taskId, earlier, kills, troubles>>

\* Another poller, or Task.start, has written the message and not put its id yet.
Unput(m) == \E q \in Pollers : poller[q].pc = "put" /\ poller[q].new = m

\* Task.get_by_id: an extraneous message is left where it is.
IsCurrent(m, message_id) == message_id = NoMessage \/ m = message_id
Load(p) ==
    /\ poller[p].pc = "load"
    /\ \E message_id \in {taskId} \cup earlier :
          IF IsCurrent(poller[p].msg, message_id)
          THEN /\ poller' = [poller EXCEPT ![p].pc = "check"]
               /\ troubles' = IF Unput(poller[p].msg)
                              THEN troubles \cup {"early"} ELSE troubles
          ELSE poller' = [poller EXCEPT ![p] = Polling] /\ UNCHANGED troubles
    /\ UNCHANGED <<inQueue, visible, taskId, earlier, kills>>

\* Task.run: not yet time, and the message gets a new visibility timeout; or the
\* command is run.
Wait(p) ==
    /\ poller[p].pc = "check"
    /\ poller' = [poller EXCEPT ![p] = Polling]
    /\ visible' = visible \ {poller[p].msg}
    /\ UNCHANGED <<inQueue, taskId, earlier, kills, troubles>>

RunCommand(p) ==
    /\ poller[p].pc = "check"
    /\ poller' = [poller EXCEPT ![p].pc = "write"]
    /\ UNCHANGED <<inQueue, visible, taskId, earlier, kills, troubles>>

\* While the command runs the visibility timeout is set anew when it has run
\* out, the message may be read by others until then.
Extend(p) ==
    /\ poller[p].pc = "write"
    /\ visible' = visible \ {poller[p].msg}
    /\ UNCHANGED <<inQueue, taskId, earlier, poller, kills, troubles>>

\* The order of the three steps after the run.  Mutated: the message is deleted
\* before the new one is known.
DeleteFirst(pc) == CASE pc = "write" -> "delete" [] pc = "delete" -> "put"
                     [] pc = "put" -> "poll"
Following(pc)   == CASE pc = "write" -> "put" [] pc = "put" -> "delete"
                     [] pc = "delete" -> "poll"

WriteNext(p) ==
    /\ poller[p].pc = "write"
    /\ \E m \in Unused :
          /\ poller' = [poller EXCEPT ![p].pc = Following(@), ![p].new = m]
          /\ inQueue' = inQueue \cup {m}
          /\ visible' = visible \cup {m}
    /\ UNCHANGED <<taskId, earlier, kills, troubles>>

\* The id that is put with the task.
NewId(t) == t.new

PutTask(p) ==
    /\ poller[p].pc = "put"
    /\ taskId' = NewId(poller[p])
    /\ earlier' = earlier \cup {taskId}
    /\ poller' = [poller EXCEPT ![p] = IF @.msg = NoMessage THEN Polling
                                       ELSE [@ EXCEPT !.pc = Following("put")]]
    /\ UNCHANGED <<inQueue, visible, kills, troubles>>

DeleteMessage(p) ==
    /\ poller[p].pc = "delete"
    /\ inQueue' = inQueue \ {poller[p].msg}
    /\ visible' = visible \ {poller[p].msg}
    /\ poller' = [poller EXCEPT ![p] = IF Following("delete") = "poll"
                                       THEN Polling
                                       ELSE [@ EXCEPT !.pc = "put"]]
    /\ UNCHANGED <<taskId, earlier, kills, troubles>>

\* Task.start, called for the first time or again: it writes a message and puts
\* the task.
StartTask(p) ==
    /\ poller[p].pc = "poll" /\ kills < MaxKills
    /\ kills' = kills + 1
    /\ \E m \in Unused :
          /\ poller' = [poller EXCEPT ![p] = [pc |-> "put", msg |-> NoMessage,
                                              new |-> m]]
          /\ inQueue' = inQueue \cup {m}
          /\ visible' = visible \cup {m}
    /\ UNCHANGED <<taskId, earlier, troubles>>

\* A poller dies, or a request fails and ends its loop; another takes its place.
PollerKilled(p) ==
    /\ poller[p].pc # "poll" /\ kills < MaxKills
    /\ kills' = kills + 1
    /\ poller' = [poller EXCEPT ![p] = Polling]
    /\ UNCHANGED <<inQueue, visible, taskId, earlier, troubles>>

PollerStep(p) == \/ Load(p) \/ Wait(p) \/ RunCommand(p)
                 \/ WriteNext(p) \/ PutTask(p) \/ DeleteMessage(p)

\* SQS: a visibility timeout runs out; a message nobody deletes is dropped when
\* it has been kept long enough, that of a task put off again and again too.
TimesOut(m) == /\ m \in inQueue \ visible
               /\ visible' = visible \cup {m}
               /\ UNCHANGED <<inQueue, taskId, earlier, poller, kills, troubles>>

Retire(m) == /\ m \in inQueue
             /\ inQueue' = inQueue \ {m}
             /\ visible' = visible \ {m}
             /\ troubles' = IF m = taskId \/ Unput(m)
                            THEN troubles \cup {"expired"} ELSE troubles
             /\ UNCHANGED <<taskId, earlier, poller, kills>>

\* SimpleDB: what was put is seen by every read.
Settle == /\ earlier # {}
          /\ earlier' = {}
          /\ UNCHANGED <<inQueue, visible, taskId, poller, kills, troubles>>

TaskNext == \/ \E p \in Pollers : \/ ReadMessage(p) \/ PollerStep(p)
                                  \/ Extend(p) \/ StartTask(p) \/ PollerKilled(p)
            \/ \E m \in Messages : TimesOut(m) \/ Retire(m)
            \/ Settle

TaskSpec == TaskInit /\ [][TaskNext]_taskVars

\* Pollers go on, the message of the task is read now and then, others are dropped
\* in the end, and what was put is seen in the end.
TaskFairness ==
    /\ \A p \in Pollers : WF_taskVars(PollerStep(p))
    /\ WF_taskVars(TimesOut(taskId))
    /\ WF_taskVars(\E m \in Messages \ {taskId} : Retire(m))
    /\ WF_taskVars(Settle)
    /\ SF_taskVars(\E p \in Pollers : /\ ReadMessage(p)
                                      /\ poller'[p].msg = taskId)

-----------------------------------------------------------------------------
(* Properties.                                                             *)

TaskTypeOK ==
    /\ inQueue \subseteq Messages /\ visible \subseteq inQueue
    /\ taskId \in Messages \cup {NoMessage}
    /\ earlier \subseteq Messages \cup {NoMessage}
    /\ poller \in [Pollers -> [pc : {"poll", "load", "check", "write", "put",
                                     "delete"},
                               msg : Messages \cup {NoMessage},
                               new : Messages \cup {NoMessage}]]
    /\ kills \in 0..MaxKills
    /\ troubles \subseteq {"expired", "early"}

\* The message the task waits for is in the queue, and a poller deletes only
\* messages it no longer waits for, whatever pollers run it at the same time, are
\* killed between two steps, or start it again; so no task is forgotten, but for
\* one whose message SQS dropped after its retention period, or was run before its
\* id was put, as a task without an id takes any message for its own.
TaskKept ==
    troubles = {} =>
        /\ taskId = NoMessage \/ taskId \in inQueue
        /\ \A p \in Pollers : poller[p].pc = "delete" => poller[p].msg # taskId

\* A task that was run is looked at again, with whatever check then says.
TaskRepeats == (\E p \in Pollers : poller[p].pc = "delete")
               ~> (\E p \in Pollers : poller[p].pc = "check") \/ troubles # {}
=============================================================================
