----------------------------- MODULE Snapshots -----------------------------
(***************************************************************************)
(* EC2Connection.trim_snapshots of boto/ec2/connection.py: of the          *)
(* snapshots of one volume name, the first after each of a list of target  *)
(* times is kept and the rest deleted.  Snapshots go on being taken, and   *)
(* several servers trim, at any time, while deletions may fail.            *)
(*                                                                         *)
(* Time is counted in the shortest interval between two snapshots, which   *)
(* are known by their time.  The lengths of hour, day, week and month are  *)
(* parameters; a month need not begin with a week.                         *)
(***************************************************************************)
EXTENDS Integers, FiniteSetsExt

CONSTANTS Machines,
          HourLength, DayLength, WeekLength, MonthLength,
          HourlyBackups, DailyBackups, WeeklyBackups,
          Preserved,   \* snapshots tagged preserve_snapshot
          MaxTime      \* bound

ASSUME LengthsAssumption ==
    {HourLength, DayLength, WeekLength, MonthLength} \subseteq Nat \ {0}
ASSUME BackupsAssumption ==
    {HourlyBackups, DailyBackups, WeeklyBackups} \subseteq Nat /\ MaxTime \in Nat \ {0}

VARIABLES clock,
          taken,     \* ghost: all snapshots ever taken
          snapshots, \* those there are
          doomed     \* doomed[s]: what the loop of server s is still to delete

snapshotVars == <<clock, taken, snapshots, doomed>>

SnapshotInit == /\ clock = 1
                /\ taken = {} /\ snapshots = {}
                /\ doomed = [s \in Machines |-> {}]

-----------------------------------------------------------------------------
(* The target times.                                                       *)

Start(t, length) == t - (t % length)
Back(t, length, n) == {Start(t, length) - k * length : k \in 0..n - 1}

\* Months are counted back to a date before all snapshots, which is 0; the first
\* day of each month is a target.
Months(t) == {m \in 1..t : m % MonthLength = 0}

Targets(t) == Back(t, HourLength, HourlyBackups)
              \cup Back(t, DayLength, DailyBackups)
              \cup Back(t, WeekLength, WeeklyBackups)
              \cup Months(t)

\* Two snapshots are in the same period when no target is between them.
SamePeriod(targets, a, b) == \A t \in targets : a < t <=> b < t

\* A snapshot with an earlier one in its period is not the first in it.  Mutated:
\* with a later one; the search begins again after each deletion.
NotLast(targets, snap, all) ==
    \E other \in all : other > snap /\ SamePeriod(targets, other, snap)
NotFirst(targets, snap, all) ==
    \E other \in all : other < snap /\ SamePeriod(targets, other, snap)

\* The newest is never deleted, nor is one with the tag.
Newest(all)    == Max(all)
Unspared(snap) == snap \notin Preserved

\* What the loop deletes; snapshots after the last target are all kept.
Excess(t, all) ==
    {snap \in all \ {Newest(all)} :
        /\ \E target \in Targets(t) : snap < target
        /\ NotFirst(Targets(t), snap, all)
        /\ Unspared(snap)}

-----------------------------------------------------------------------------
TakeSnapshot == /\ clock \notin taken
                /\ taken' = taken \cup {clock}
                /\ snapshots' = snapshots \cup {clock}
                /\ UNCHANGED <<clock, doomed>>

\* trim_snapshots lists the snapshots, then deletes them one by one.
Trim(s) == /\ doomed[s] = {} /\ snapshots # {}
           /\ doomed' = [doomed EXCEPT ![s] = Excess(clock, snapshots)]
           /\ UNCHANGED <<clock, taken, snapshots>>

\* delete_snapshot; when it fails, or another server was first, the loop goes on.
DeleteSnapshot(s) ==
    /\ doomed[s] # {}
    /\ doomed' = [doomed EXCEPT ![s] = @ \ {Min(@)}]
    /\ snapshots' \in {snapshots, snapshots \ {Min(doomed[s])}}
    /\ UNCHANGED <<clock, taken>>

ServerDies(s) == /\ doomed[s] # {}
                 /\ doomed' = [doomed EXCEPT ![s] = {}]
                 /\ UNCHANGED <<clock, taken, snapshots>>

TimePasses == /\ clock < MaxTime
              /\ clock' = clock + 1
              /\ UNCHANGED <<taken, snapshots, doomed>>

SnapshotNext == \/ TakeSnapshot \/ TimePasses
                \/ \E s \in Machines : Trim(s) \/ DeleteSnapshot(s) \/ ServerDies(s)

SnapshotSpec == SnapshotInit /\ [][SnapshotNext]_snapshotVars

-----------------------------------------------------------------------------
(* Properties.                                                             *)

SnapshotTypeOK == /\ clock \in 1..MaxTime
                  /\ snapshots \subseteq taken /\ taken \subseteq 1..clock
                  /\ \A s \in Machines : doomed[s] \subseteq taken \ Preserved

\* For each of the last hours, days and weeks, and for each month, the first
\* snapshot taken in it is there, and so are the oldest and the newest, whenever
\* and on whatever servers the snapshots were trimmed before, with other targets
\* each time.
FirstsKept ==
    /\ \A t \in Targets(clock) :
          LET after == {snap \in taken : snap >= t} IN
          after # {} => Min(after) \in snapshots
    /\ taken # {} => {Min(taken), Max(taken)} \subseteq snapshots

\* Between two targets no more than one is left when a server has trimmed, at any
\* time, but for those preserved, for the newest, and for deletions that failed.
OneEach ==
    snapshots # {} =>
        \A a, b \in snapshots \ (Excess(clock, snapshots) \cup Preserved
                                   \cup {Newest(snapshots)}) :
           a # b => \/ ~SamePeriod(Targets(clock), a, b)
                    \/ \A t \in Targets(clock) : t <= a

\* Trimming keeps what the code means to keep, and no more.
TrimsRight == OneEach /\ FirstsKept
=============================================================================
