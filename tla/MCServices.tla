----------------------------- MODULE MCServices -----------------------------
(* Instances of the helpers boto builds on its services, one at a time:    *)
(* the task queue and the times of its tasks, the counter, the listings,   *)
(* the batches of writes and of reads, the snapshots and the cache.        *)
(* `which' is the one at work; the others stay as they begin.              *)
EXTENDS TaskQueue, TaskSchedule, Sequence, Listing, BatchWrite, BatchGet,
        Snapshots, LRUCache

CONSTANTS s1, s2, c1, c2, k1, k2, k3, k4

VARIABLE which

TwoPollers   == {"p", "q"}
ThreeMessages == {"m1", "m2", "m3"}
AllHours     == 0..23
TwoServers   == {s1, s2}
TwoClients   == {c1, c2}
ThreeEntries == 1..3
OneLimit     == {2}
\* A snapshot that is tagged to be preserved.
ThirdTick    == {3}
FourKeys     == {k1, k2, k3, k4}

Helpers      == {"queue", "schedule", "sequence", "listing", "batch write",
                 "batch get", "snapshots", "cache"}

Init == /\ which \in Helpers
        /\ TaskInit     /\ (which # "queue" => taskId = "m1")
        /\ ScheduleInit /\ (which # "schedule" => hour = 0 /\ daytime = 0)
        /\ ListingInit  /\ (which # "listing" => /\ there = {} /\ ~Limited
                                                /\ lister.kind = "keys")
        /\ GetInit      /\ (which # "batch get" => rows = {} /\ total = 0)
        /\ SequenceInit /\ BatchInit /\ SnapshotInit /\ CacheInit

TaskPart ==
    /\ which = "queue" /\ TaskNext
    /\ UNCHANGED <<scheduleVars, sequenceVars, listingVars, batchVars, getVars,
                   snapshotVars, cacheVars>>

SchedulePart ==
    /\ which = "schedule" /\ ScheduleNext
    /\ UNCHANGED <<taskVars, sequenceVars, listingVars, batchVars, getVars,
                   snapshotVars, cacheVars>>

SequencePart ==
    /\ which = "sequence" /\ SequenceNext
    /\ UNCHANGED <<taskVars, scheduleVars, listingVars, batchVars, getVars,
                   snapshotVars, cacheVars>>

ListingPart ==
    /\ which = "listing" /\ ListingNext
    /\ UNCHANGED <<taskVars, scheduleVars, sequenceVars, batchVars, getVars,
                   snapshotVars, cacheVars>>

BatchPart ==
    /\ which = "batch write" /\ BatchNext
    /\ UNCHANGED <<taskVars, scheduleVars, sequenceVars, listingVars, getVars,
                   snapshotVars, cacheVars>>

GetPart ==
    /\ which = "batch get" /\ GetNext
    /\ UNCHANGED <<taskVars, scheduleVars, sequenceVars, listingVars, batchVars,
                   snapshotVars, cacheVars>>

SnapshotPart ==
    /\ which = "snapshots" /\ SnapshotNext
    /\ UNCHANGED <<taskVars, scheduleVars, sequenceVars, listingVars, batchVars,
                   getVars, cacheVars>>

CachePart ==
    /\ which = "cache" /\ CacheNext
    /\ UNCHANGED <<taskVars, scheduleVars, sequenceVars, listingVars, batchVars,
                   getVars, snapshotVars>>

Next == /\ UNCHANGED which
        /\ \/ TaskPart \/ SchedulePart \/ SequencePart \/ ListingPart
           \/ BatchPart \/ GetPart \/ SnapshotPart \/ CachePart

vars == <<which, taskVars, scheduleVars, sequenceVars, listingVars, batchVars,
          getVars, snapshotVars, cacheVars>>

\* The fairness of TaskFairness and ScheduleFairness, and that the listings and
\* the batches of reads go on, each while it is the one at work.
Fairness ==
    /\ \A p \in Pollers : WF_taskVars(which = "queue" /\ PollerStep(p))
    /\ WF_taskVars(which = "queue" /\ TimesOut(taskId))
    /\ WF_taskVars(which = "queue" /\ \E m \in Messages \ {taskId} : Retire(m))
    /\ WF_taskVars(which = "queue" /\ Settle)
    /\ SF_taskVars(which = "queue" /\ \E p \in Pollers :
                      ReadMessage(p) /\ poller'[p].msg = taskId)
    /\ WF_scheduleVars(which = "schedule" /\ (Run \/ PutOff \/ Elapse))
    /\ WF_listingVars(which = "listing" /\ ListerStep)
    /\ WF_getVars(which = "batch get" /\ GetStep)

Spec == Init /\ [][Next]_vars /\ Fairness

\* The types of all helpers.
TypeOK == /\ TaskTypeOK /\ ScheduleTypeOK /\ SequenceTypeOK
          /\ ListingTypeOK /\ BatchTypeOK /\ GetTypeOK
          /\ SnapshotTypeOK /\ CacheTypeOK

\* TaskRepeats, HourlyRuns, ListingEnds and GetEnds as one: a task is looked at
\* again, an hourly one is run again in spite of late pollers, and listings and
\* batches of reads come to their end.  (One formula takes TLC a quarter of the time
\* of four.)
HelpersGoOn ==
    \/ which = "queue" /\ \E p \in Pollers : poller[p].pc = "delete"
    \/ which = "schedule" /\ hour = Hourly
    \/ which = "listing" /\ lister.pc = "give"
    \/ which = "batch get" /\ items.pc \in {"give", "last"}
    ~> CASE which = "queue"     -> \/ \E p \in Pollers : poller[p].pc = "check"
                                   \/ troubles # {}
         [] which = "schedule"  -> since = 0
         [] which = "listing"   -> lister.pc \in {"done", "raised"}
         [] which = "batch get" -> items.pc \in {"raised", "ended", "done"}
         [] OTHER               -> TRUE
=============================================================================
