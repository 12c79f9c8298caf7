--------------------------- MODULE TaskSchedule ---------------------------
(***************************************************************************)
(* When a task runs: Task.check of boto/manage/task.py, called whenever    *)
(* the message of the task is read, and the visibility timeout that its    *)
(* result becomes.  Time jumps: over the timeout, and by whatever passes   *)
(* while the message is visible and nobody reads it, as the poller sleeps  *)
(* or the command runs.  The time between a check and the timeout it sets  *)
(* is counted as such a delay too.                                         *)
(***************************************************************************)
EXTENDS Integers

CONSTANTS Hours,     \* hours of a day: 24
          PerHour,   \* units of time of an hour
          TaskHours, \* the hours a daily task may be set to
          Hourly,    \* hour = '*'
          Never,     \* the task has not been executed yet
          MaxLag     \* bound: how long the message of an execution waits in all

ASSUME HoursAssumption == /\ Hours \in Nat \ {0, 1}
                          /\ PerHour \in Nat \ {0}
                          /\ TaskHours \subseteq 0..Hours - 1
                          /\ MaxLag \in Nat
                          /\ Hourly \notin Int /\ Never \notin Int

VARIABLES hour,  \* of the task
          daytime, \* the time of day
          since, \* time since last_executed; past two days, a day less
          due,   \* time until the message is visible
          began, \* ghost: how far into its hour it was at the last execution
          lag    \* ghost: how long the message was visible since then

scheduleVars == <<hour, daytime, since, due, began, lag>>

Day == Hours * PerHour

ScheduleInit == /\ hour \in TaskHours \cup {Hourly}
                /\ daytime \in 0..Day - 1
                /\ since = Never
                /\ due = 0
                /\ began = 0
                /\ lag = 0

-----------------------------------------------------------------------------
(* check: the time to wait, zero to run now.  delta.seconds leaves out     *)
(* whole days, and the hour of the day leaves out minutes and seconds.     *)

Seconds(delta) == delta % Day
Days(delta)    == delta \div Day
now_hour       == daytime \div PerHour

\* Mutated: a task that was never executed waits.
HourlyAgain == IF since # Never /\ Seconds(since) >= PerHour THEN 0 ELSE PerHour
HourlyCheck == IF since = Never THEN 0
               ELSE IF Seconds(since) >= PerHour THEN 0
               ELSE PerHour - Seconds(since)

\* The delay in hours when it is not the hour.  Mutated: until the hour before.
NextDay(h) == Hours - 1
Apart(h)   == IF h > now_hour THEN h - now_hour ELSE now_hour - h

EnoughDays(delta) == Days(delta) >= 1

DailyCheck(h) ==
    IF h # now_hour THEN Apart(h) * PerHour
    ELSE IF since = Never THEN 0
    ELSE IF EnoughDays(since) THEN 0
    ELSE (Hours - 1) * PerHour                        \* 82800 seconds

Check == IF hour = Hourly THEN HourlyCheck ELSE DailyCheck(hour)

-----------------------------------------------------------------------------
\* Task.run: the task is executed and its next message visible at once, or the
\* message is put off.  last_executed is the time at which the task was loaded.
Run == /\ due = 0 /\ Check = 0
       /\ since' = 0
       /\ began' = daytime % PerHour
       /\ lag' = 0
       /\ UNCHANGED <<hour, daytime, due>>

PutOff == /\ due = 0 /\ Check > 0
          /\ due' = Check
          /\ UNCHANGED <<hour, daytime, since, began, lag>>

Capped(s) == IF s >= 2 * Day THEN Day + (s % Day) ELSE s

Pass(time) == /\ daytime' = (daytime + time) % Day
              /\ since' = IF since = Never THEN Never ELSE Capped(since + time)
              /\ UNCHANGED <<hour, began>>

\* The message becomes visible, or waits for a poller.
Elapse  == due > 0 /\ Pass(due) /\ due' = 0 /\ UNCHANGED lag
Late(l) == due = 0 /\ Pass(l) /\ lag' = lag + l /\ UNCHANGED due

ScheduleNext == Run \/ PutOff \/ Elapse \/ \E l \in 1..MaxLag - lag : Late(l)

ScheduleSpec == ScheduleInit /\ [][ScheduleNext]_scheduleVars
ScheduleFairness == WF_scheduleVars(Run \/ PutOff \/ Elapse)
FairScheduleSpec == ScheduleSpec /\ ScheduleFairness

-----------------------------------------------------------------------------
(* Properties.                                                             *)

ScheduleTypeOK == /\ hour \in TaskHours \cup {Hourly}
                  /\ daytime \in 0..Day - 1
                  /\ since \in 0..2 * Day - 1 \cup {Never}
                  /\ due \in 0..Day
                  /\ began \in 0..PerHour - 1
                  /\ lag \in 0..MaxLag

\* A task is not executed more often than it should be: a daily one only in its
\* hour and a day after the last time, an hourly one an hour after it.
NotTooOften ==
    Run => \/ since = Never
           \/ hour = Hourly /\ since >= PerHour
           \/ hour = now_hour /\ since >= Day

\* A task that has been executed is executed again an hour later, or a day later,
\* and as much later as its message waited for a poller in between: an hourly task
\* while that is not a day, and a daily one while it was executed so early in its
\* hour that the waiting does not bring it past the hour.  (One set to the first
\* hour of the day is put off from the last hour to the last hour.)
OnTime ==
    since # Never =>
       IF hour = Hourly THEN lag < Day - PerHour => since <= PerHour + lag
       ELSE hour # 0 /\ began + lag < PerHour => since <= Day + lag

\* The task is executed in time and not too often.
KeepsTime == [][NotTooOften /\ OnTime']_scheduleVars

\* An hourly task is executed again however late pollers have been.
HourlyRuns == hour = Hourly ~> since = 0

-----------------------------------------------------------------------------
(* What a doc says, and the code does not do.                              *)

\* `hour='3' - the task would be executed at 3AM GMT each day' (Task).
DailyRuns == hour # Hourly ~> since = 0
=============================================================================
