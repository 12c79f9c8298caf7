--------------------------- MODULE PublishProofs ----------------------------
(***************************************************************************)
(* What holds of Publish for every set of collections, photos, names,      *)
(* buckets and every number of edits and of stray calls.                   *)
(*                                                                         *)
(* The inductive invariant follows a file from its rendering to its        *)
(* record: the task and its process agree on what is being done; a call    *)
(* that was carried out, and later the upload about to be recorded, is     *)
(* what the service holds under an exclusive key, unless a stray call has  *)
(* been there since; and nothing older than what is recorded is on its way *)
(* but a stray call.                                                       *)
(*                                                                         *)
(* A task that has begun has so many steps to go for each photo left, and  *)
(* each step leaves it one less.                                           *)
(***************************************************************************)
EXTENDS Publish, FiniteSetTheorems, TLAPS

\* A published photo is a member, recorded under one of its names and in a
\* version it had; a removed one is published.
RecordOK(c, p) ==
    /\ published[c][p] # Unpublished =>
          /\ p \in Members[c] /\ published[c][p].id \in Names[p]
          /\ published[c][p].version <= version[p]
    /\ p \in removed[c] => published[c][p] # Unpublished

\* The photo in hand was rendered in a version that is not older than the one
\* that is published.
InHand(c) ==
    /\ task[c].photo \in Members[c]
    /\ task[c].name \in Names[task[c].photo]
    /\ task[c].picture \in Pictures
    /\ task[c].picture.photo = task[c].photo
    /\ task[c].picture.version <= version[task[c].photo]
    /\ published[c][task[c].photo] # Unpublished
       => published[c][task[c].photo].version <= task[c].picture.version

Exporting(c) == task[c].pc \in {"exporting", "rendered", "uploading",
                                "recording"}
Waiting(c)   == task[c].pc \in {"uploading", "confirming"}

\* Where a task stands, and what it and its process are doing.
TaskInv(c) ==
    /\ Exporting(c) => task[c].todo \subseteq Members[c]
    /\ task[c].pc \in {"rendered", "uploading", "recording"} => InHand(c)
    /\ task[c].pc = "recording" => /\ task[c].bucket \in Buckets
                                   /\ task[c].exit \in {"zero", "excused"}
    /\ task[c].pc \in {"deleting", "confirming"}
       => task[c].todo \subseteq removed[c]
    /\ task[c].pc = "confirming" => task[c].photo \in task[c].todo
    /\ Waiting(c) => /\ script[c].call \in Calls
                     /\ script[c].code \in ExitCodes \cup {"running"}
                     /\ script[c].code = "zero" => script[c].effect = "applied"
    /\ ~Waiting(c) => script[c] = NoScript
    /\ task[c].pc = "uploading" => /\ script[c].call.key = task[c].name
                                   /\ script[c].call.content = task[c].picture
    /\ task[c].pc = "confirming" =>
          /\ script[c].call.key = published[c][task[c].photo].id
          /\ script[c].call.content = NoObject

\* A call that was carried out is what the service holds.
AppliedInv(c) ==
    LET call == script[c].call IN
    /\ Waiting(c) /\ script[c].effect = "applied"
    /\ Exclusive(c, task[c].photo, call.key)
    => \/ objects[call.bucket][call.key] = call.content
       \/ MadeByStray(call.bucket, call.key)

\* So is the upload about to be recorded.
RecordingInv(c) ==
    /\ task[c].pc = "recording" /\ task[c].exit = "zero"
    /\ Exclusive(c, task[c].photo, task[c].name)
    => \/ objects[task[c].bucket][task[c].name] = task[c].picture
       \/ MadeByStray(task[c].bucket, task[c].name)

IInv == /\ TypeOK
        /\ \A c \in Collections : \A p \in Photos : RecordOK(c, p)
        /\ \A c \in Collections :
              TaskInv(c) /\ AppliedInv(c) /\ RecordingInv(c)
        /\ PublishedIsStored

-----------------------------------------------------------------------------
(* What a step does not disturb.                                           *)

\* What is stored stays stored while the objects are left alone.
LEMMA StoredKept ==
    ASSUME PublishedIsStored, UNCHANGED <<published, objects>>,
           \A c \in Collections : removed[c] \subseteq removed'[c],
           stray \subseteq stray'
    PROVE  PublishedIsStored'
  BY SMTT(60) DEF PublishedIsStored, Exclusive, MadeByStray, Effects

\* A task is not disturbed by a step that leaves it, its process, its
\* collection and the objects alone.
LEMMA TaskKept ==
    ASSUME IInv, NEW c \in Collections,
           task'[c] = task[c], script'[c] = script[c],
           published'[c] = published[c], UNCHANGED objects,
           version' \in [Photos -> Versions],
           \A p \in Photos : version[p] <= version'[p],
           removed[c] \subseteq removed'[c], stray \subseteq stray'
    PROVE  TaskInv(c)' /\ AppliedInv(c)' /\ RecordingInv(c)'
<1>1. TaskInv(c) /\ AppliedInv(c) /\ RecordingInv(c)
  BY DEF IInv
<1>2. InHand(c) => InHand(c)'
  BY MembersAssumption, BoundsAssumption
     DEF IInv, TypeOK, InHand, Pictures, Versions
<1>3. TaskInv(c)'
  BY <1>1, <1>2 DEF TaskInv, Exporting, Waiting
<1>4. AppliedInv(c)' /\ RecordingInv(c)'
  BY <1>1 DEF AppliedInv, RecordingInv, Waiting, Exclusive, MadeByStray, Effects
<1> QED BY <1>3, <1>4

\* A step of one task, or of its process, that leaves everything else alone but
\* for a call that may become a stray one.
LEMMA OneScript ==
    ASSUME IInv, NEW c \in Collections,
           UNCHANGED <<version, published, removed, prefs, objects>>,
           stray \subseteq stray', stray' \subseteq Calls,
           task' \in [Collections -> Tasks],
           script' \in [Collections -> Scripts \cup {NoScript}],
           \A d \in Collections \ {c} : /\ task'[d] = task[d]
                                       /\ script'[d] = script[d],
           TaskInv(c)', AppliedInv(c)', RecordingInv(c)'
    PROVE  IInv'
<1>1. TypeOK'
  BY DEF IInv, TypeOK
<1>2. \A d \in Collections : \A p \in Photos : RecordOK(d, p)'
  BY DEF IInv, RecordOK
<1>3. ASSUME NEW d \in Collections
      PROVE  TaskInv(d)' /\ AppliedInv(d)' /\ RecordingInv(d)'
  <2>1. CASE d = c
    BY <2>1
  <2>2. CASE d # c
    <3>1. \A p \in Photos : version[p] <= version'[p]
      BY BoundsAssumption DEF IInv, TypeOK, Versions
    <3> QED BY <2>2, <3>1, TaskKept DEF IInv, TypeOK
  <2> QED BY <2>1, <2>2
<1>4. PublishedIsStored'
  BY StoredKept DEF IInv
<1> QED BY <1>1, <1>2, <1>3, <1>4 DEF IInv

LEMMA OneTask ==
    ASSUME IInv, NEW c \in Collections,
           UNCHANGED <<version, published, removed, prefs, stray, objects>>,
           task' \in [Collections -> Tasks],
           script' \in [Collections -> Scripts \cup {NoScript}],
           \A d \in Collections \ {c} : /\ task'[d] = task[d]
                                       /\ script'[d] = script[d],
           TaskInv(c)', AppliedInv(c)', RecordingInv(c)'
    PROVE  IInv'
<1>1. stray \subseteq stray' /\ stray' \subseteq Calls
  BY DEF IInv, TypeOK
<1> QED BY <1>1, OneScript

LEMMA InitIInv == Init => IInv
<1> SUFFICES ASSUME Init PROVE IInv
  OBVIOUS
<1>1. TypeOK
  BY BoundsAssumption
     DEF Init, TypeOK, Versions, Tasks, TaskPCs, Idle, Scripts, Contents,
         Pictures, NoObject
<1>2. \A c \in Collections : \A p \in Photos : RecordOK(c, p)
  BY DEF Init, RecordOK
<1>3. \A c \in Collections : TaskInv(c) /\ AppliedInv(c) /\ RecordingInv(c)
  BY DEF Init, TaskInv, AppliedInv, RecordingInv, Exporting, Waiting, Idle
<1>4. PublishedIsStored
  BY MembersAssumption DEF Init, PublishedIsStored
<1> QED BY <1>1, <1>2, <1>3, <1>4 DEF IInv

-----------------------------------------------------------------------------
(* The user and the dialogs, and a crash.                                  *)

LEMMA EditPhotoIInv ==
    ASSUME IInv, NEW p \in Photos, EditPhoto(p)
    PROVE  IInv'
<1>1. /\ version' \in [Photos -> Versions]
      /\ \A q \in Photos : version[q] <= version'[q]
  BY BoundsAssumption DEF IInv, TypeOK, Versions, EditPhoto
<1>2. UNCHANGED <<published, removed, prefs, task, script, stray, objects>>
  BY DEF EditPhoto
<1>3. TypeOK'
  BY <1>1, <1>2 DEF IInv, TypeOK
<1>4. \A c \in Collections : \A q \in Photos : RecordOK(c, q)'
  <2> SUFFICES ASSUME NEW c \in Collections, NEW q \in Photos
               PROVE  RecordOK(c, q)'
    OBVIOUS
  <2>1. published[c][q] # Unpublished => published[c][q].version \in Nat
    BY BoundsAssumption DEF IInv, TypeOK, Records, Versions
  <2>2. version[q] \in Nat /\ version'[q] \in Nat /\ version[q] <= version'[q]
    BY <1>1, BoundsAssumption DEF IInv, TypeOK, Versions
  <2> QED BY <1>2, <2>1, <2>2 DEF IInv, RecordOK
<1>5. \A c \in Collections : TaskInv(c)' /\ AppliedInv(c)' /\ RecordingInv(c)'
  BY <1>1, <1>2, TaskKept
<1>6. PublishedIsStored'
  BY <1>2, StoredKept DEF IInv
<1> QED BY <1>3, <1>4, <1>5, <1>6 DEF IInv

LEMMA RemovePhotoIInv ==
    ASSUME IInv, NEW c \in Collections, NEW p \in Photos, RemovePhoto(c, p)
    PROVE  IInv'
<1>1. /\ published[c][p] # Unpublished
      /\ removed' = [removed EXCEPT ![c] = removed[c] \cup {p}]
      /\ UNCHANGED <<version, published, prefs, task, script, stray, objects>>
  BY DEF RemovePhoto
<1>2. TypeOK'
  BY <1>1 DEF IInv, TypeOK
<1>3. \A d \in Collections : \A q \in Photos : RecordOK(d, q)'
  BY <1>1 DEF IInv, TypeOK, RecordOK
<1>4. \A d \in Collections : removed[d] \subseteq removed'[d]
  BY <1>1 DEF IInv, TypeOK
<1>5. \A q \in Photos : version[q] <= version'[q]
  BY <1>1, BoundsAssumption DEF IInv, TypeOK, Versions
<1>6. \A d \in Collections : TaskInv(d)' /\ AppliedInv(d)' /\ RecordingInv(d)'
  BY <1>1, <1>2, <1>4, <1>5, TaskKept DEF TypeOK
<1>7. PublishedIsStored'
  BY <1>1, <1>4, StoredKept DEF IInv
<1> QED BY <1>2, <1>3, <1>6, <1>7 DEF IInv

LEMMA SetPrefsIInv ==
    ASSUME IInv, NEW new \in [keys : {"nil", "set"}, bucket : Buckets \cup {None}],
           SetPrefs(new)
    PROVE  IInv'
<1>1. /\ prefs' = new
      /\ UNCHANGED <<version, published, removed, task, script, stray, objects>>
  BY DEF SetPrefs
<1>2. TypeOK'
  BY <1>1 DEF IInv, TypeOK
<1>3. \A d \in Collections : \A q \in Photos : RecordOK(d, q)'
  BY <1>1 DEF IInv, RecordOK
<1>4. \A q \in Photos : version[q] <= version'[q]
  BY <1>1, BoundsAssumption DEF IInv, TypeOK, Versions
<1>5. \A d \in Collections : TaskInv(d)' /\ AppliedInv(d)' /\ RecordingInv(d)'
  BY <1>1, <1>2, <1>4, TaskKept DEF TypeOK
<1>6. PublishedIsStored'
  BY <1>1, StoredKept DEF IInv
<1> QED BY <1>2, <1>3, <1>5, <1>6 DEF IInv

LEMMA PrefsIInv ==
    ASSUME IInv,
           NewConnection \/ SetKeys \/ \E b \in Buckets : SetBucket(b)
    PROVE  IInv'
<1>1. CASE NewConnection
  BY <1>1, SetPrefsIInv DEF NewConnection
<1>2. CASE SetKeys
  <2>1. [prefs EXCEPT !.keys = "set"]
          \in [keys : {"nil", "set"}, bucket : Buckets \cup {None}]
    BY DEF IInv, TypeOK
  <2> QED BY <1>2, <2>1, SetPrefsIInv DEF SetKeys
<1>3. ASSUME NEW b \in Buckets, SetBucket(b) PROVE IInv'
  <2>1. [prefs EXCEPT !.bucket = b]
          \in [keys : {"nil", "set"}, bucket : Buckets \cup {None}]
    BY DEF IInv, TypeOK
  <2> QED BY <1>3, <2>1, SetPrefsIInv DEF SetBucket
<1> QED BY <1>1, <1>2, <1>3

LEMMA IdleType == Idle \in Tasks /\ Idle.pc = "idle"
BY DEF Idle, Tasks, TaskPCs, NoObject

\* An idle task without a process satisfies all that is said of tasks.
LEMMA IdleInv ==
    ASSUME NEW c \in Collections, task'[c] = Idle, script'[c] = NoScript
    PROVE  TaskInv(c)' /\ AppliedInv(c)' /\ RecordingInv(c)'
BY IdleType DEF TaskInv, AppliedInv, RecordingInv, Exporting, Waiting

LEMMA CrashIInv ==
    ASSUME IInv, Crash
    PROVE  IInv'
<1>1. PICK survive \in SUBSET {c \in Collections : script[c].code = "running"} :
        stray' = stray \cup {script[c].call : c \in survive}
  BY DEF Crash
<1>2. \A c \in survive : script[c].call \in Calls
  <2>1. \A c \in survive : script[c] # NoScript
    BY DEF NoScript
  <2> QED BY <2>1 DEF IInv, TypeOK, Scripts
<1>3. /\ task' = [c \in Collections |-> Idle]
      /\ script' = [c \in Collections |-> NoScript]
      /\ UNCHANGED <<version, published, removed, prefs, objects>>
  BY DEF Crash
<1>4. TypeOK'
  BY <1>1, <1>2, <1>3, IdleType DEF IInv, TypeOK
<1>5. \A c \in Collections : \A p \in Photos : RecordOK(c, p)'
  BY <1>3 DEF IInv, RecordOK
<1>6. \A c \in Collections : TaskInv(c)' /\ AppliedInv(c)' /\ RecordingInv(c)'
  BY <1>3, IdleInv
<1>7. PublishedIsStored'
  BY <1>1, <1>3, StoredKept DEF IInv
<1> QED BY <1>4, <1>5, <1>6, <1>7 DEF IInv

-----------------------------------------------------------------------------
(* The steps of a task that leave the catalog alone.                       *)

\* The task ends.
LEMMA EndTaskIInv ==
    ASSUME IInv, NEW c \in Collections, EndTask(c),
           script' = script \/ script' = [script EXCEPT ![c] = NoScript],
           ~Waiting(c) \/ script' = [script EXCEPT ![c] = NoScript],
           UNCHANGED <<version, published, removed, prefs, stray, objects>>
    PROVE  IInv'
<1>1. /\ task' = [task EXCEPT ![c] = Idle]
      /\ script'[c] = NoScript
  BY DEF EndTask, IInv, TypeOK, TaskInv
<1>2. /\ task' \in [Collections -> Tasks] /\ task'[c] = Idle
      /\ script' \in [Collections -> Scripts \cup {NoScript}]
      /\ \A d \in Collections \ {c} : /\ task'[d] = task[d]
                                      /\ script'[d] = script[d]
  BY <1>1, IdleType DEF IInv, TypeOK
<1>3. TaskInv(c)' /\ AppliedInv(c)' /\ RecordingInv(c)'
  BY <1>1, <1>2, IdleInv
<1> QED BY <1>2, <1>3, OneTask

\* The task goes on without a process.
LEMMA TaskGoesOn ==
    ASSUME IInv, NEW c \in Collections, NEW t \in Tasks,
           task' = [task EXCEPT ![c] = t],
           script' = [script EXCEPT ![c] = NoScript],
           UNCHANGED <<version, published, removed, prefs, stray, objects>>,
           t.pc \notin {"uploading", "confirming", "recording"},
           t.pc \in {"exporting", "rendered"} => t.todo \subseteq Members[c],
           t.pc = "rendered" => InHand(c)',
           t.pc = "deleting" => t.todo \subseteq removed[c]
    PROVE  IInv'
<1>1. /\ task'[c] = t /\ script'[c] = NoScript
      /\ task' \in [Collections -> Tasks]
      /\ script' \in [Collections -> Scripts \cup {NoScript}]
      /\ \A d \in Collections \ {c} : /\ task'[d] = task[d]
                                      /\ script'[d] = script[d]
  BY DEF IInv, TypeOK
<1>2. TaskInv(c)' /\ AppliedInv(c)' /\ RecordingInv(c)'
  BY <1>1 DEF TaskInv, AppliedInv, RecordingInv, Exporting, Waiting
<1> QED BY <1>1, <1>2, OneTask

\* Between two waits for a process there is none.
LEMMA NoProcess ==
    ASSUME IInv, NEW c \in Collections, ~Waiting(c), UNCHANGED script
    PROVE  script' = [script EXCEPT ![c] = NoScript]
BY DEF IInv, TypeOK, TaskInv

LEMMA StartIInv ==
    ASSUME IInv, NEW c \in Collections, StartExport(c) \/ StartDelete(c)
    PROVE  IInv'
<1>1. script' = [script EXCEPT ![c] = NoScript]
  BY NoProcess DEF StartExport, StartDelete, Waiting
<1>2. CASE StartExport(c)
  <2>1. PICK todo \in SUBSET (Members[c] \ removed[c]) :
          task' = [task EXCEPT ![c] = [Idle EXCEPT !.pc = "exporting",
                                                   !.todo = todo]]
    BY <1>2 DEF StartExport
  <2> DEFINE t == [Idle EXCEPT !.pc = "exporting", !.todo = todo]
  <2>2. /\ t \in Tasks /\ t.pc = "exporting" /\ t.todo = todo
        /\ todo \subseteq Members[c]
    BY IdleType, MembersAssumption DEF Tasks, TaskPCs
  <2>3. UNCHANGED <<version, published, removed, prefs, stray, objects>>
    BY <1>2 DEF StartExport
  <2> HIDE DEF t
  <2> QED BY <1>1, <2>1, <2>2, <2>3, TaskGoesOn DEF t
<1>3. CASE StartDelete(c)
  <2> DEFINE t == [Idle EXCEPT !.pc = "deleting", !.todo = removed[c]]
  <2>1. /\ t \in Tasks /\ t.pc = "deleting" /\ t.todo = removed[c]
    BY IdleType DEF IInv, TypeOK, Tasks, TaskPCs
  <2>2. /\ task' = [task EXCEPT ![c] = t]
        /\ UNCHANGED <<version, published, removed, prefs, stray, objects>>
    BY <1>3 DEF StartDelete
  <2> HIDE DEF t
  <2> QED BY <1>1, <2>1, <2>2, TaskGoesOn
<1> QED BY <1>2, <1>3

LEMMA RenderIInv ==
    ASSUME IInv, NEW c \in Collections, Render(c)
    PROVE  IInv'
<1>0. PICK p \in task[c].todo : \E name \in Names[p] :
        task' = [task EXCEPT ![c].pc = "rendered", ![c].photo = p,
                             ![c].name = name,
                             ![c].picture = [photo |-> p,
                                             version |-> version[p]]]
  BY DEF Render
<1>1. PICK name \in Names[p] :
        task' = [task EXCEPT ![c].pc = "rendered", ![c].photo = p,
                             ![c].name = name,
                             ![c].picture = [photo |-> p,
                                             version |-> version[p]]]
  BY <1>0
<1> DEFINE picture == [photo |-> p, version |-> version[p]]
           t == [task[c] EXCEPT !.pc = "rendered", !.photo = p,
                                !.name = name, !.picture = picture]
<1>2. /\ task[c].pc = "exporting" /\ task[c] \in Tasks
      /\ task[c].todo \subseteq Members[c] /\ p \in Members[c] /\ p \in Photos
  BY MembersAssumption DEF Render, IInv, TypeOK, TaskInv, Exporting
<1>3. name \in Keys
  BY <1>2, NamesAssumption
<1>4. picture \in Pictures /\ picture.photo = p /\ picture.version = version[p]
  BY <1>2 DEF IInv, TypeOK, Pictures
<1> HIDE DEF picture
<1>5. /\ t \in Tasks /\ t.pc = "rendered" /\ t.todo = task[c].todo
      /\ t.photo = p /\ t.name = name /\ t.picture = picture
  BY <1>2, <1>3, <1>4 DEF Tasks, TaskPCs
<1>6. task' = [task EXCEPT ![c] = t]
  BY <1>1 DEF IInv, TypeOK, picture
<1>7. /\ script' = [script EXCEPT ![c] = NoScript]
      /\ UNCHANGED <<version, published, removed, prefs, stray, objects>>
  BY NoProcess DEF Render, Waiting
<1> HIDE DEF t
<1>8. task'[c] = t
  BY <1>6 DEF IInv, TypeOK
<1>9. InHand(c)'
  <2>1. version[p] \in Nat
    BY <1>2, BoundsAssumption DEF IInv, TypeOK, Versions
  <2>2. RecordOK(c, p)
    BY <1>2 DEF IInv
  <2> QED BY <1>2, <1>4, <1>5, <1>7, <1>8, <2>1, <2>2 DEF InHand, RecordOK
<1> QED BY <1>2, <1>5, <1>6, <1>7, <1>9, TaskGoesOn

LEMMA RenderFailsIInv ==
    ASSUME IInv, NEW c \in Collections, RenderFails(c)
    PROVE  IInv'
<1>1. PICK p \in task[c].todo : task' = [task EXCEPT ![c].todo = @ \ {p}]
  BY DEF RenderFails
<1> DEFINE t == [task[c] EXCEPT !.todo = task[c].todo \ {p}]
<1>2. /\ task[c].pc = "exporting" /\ task[c] \in Tasks
      /\ task[c].todo \subseteq Members[c]
  BY DEF RenderFails, IInv, TypeOK, TaskInv, Exporting
<1>3. /\ t \in Tasks /\ t.pc = "exporting" /\ t.todo = task[c].todo \ {p}
      /\ t.todo \subseteq Members[c]
  BY <1>2 DEF Tasks, TaskPCs
<1>4. task' = [task EXCEPT ![c] = t]
  BY <1>1 DEF IInv, TypeOK
<1>5. /\ script' = [script EXCEPT ![c] = NoScript]
      /\ UNCHANGED <<version, published, removed, prefs, stray, objects>>
  BY NoProcess DEF RenderFails, Waiting
<1> HIDE DEF t
<1> QED BY <1>3, <1>4, <1>5, TaskGoesOn

LEMMA EndsIInv ==
    ASSUME IInv, NEW c \in Collections,
           Canceled(c) \/ ExportDone(c) \/ DeleteDone(c)
    PROVE  IInv'
<1>1. ~Waiting(c) /\ EndTask(c)
      /\ UNCHANGED <<version, published, removed, prefs, script, stray, objects>>
  BY DEF Canceled, ExportDone, DeleteDone, Waiting
<1> QED BY <1>1, EndTaskIInv

\* What Execute starts: a call for the bucket of the preferences, not applied.
LEMMA ExecuteFacts ==
    ASSUME TypeOK, NEW c \in Collections, NEW key \in Keys,
           NEW content \in Pictures \cup {NoObject},
           Configured, Execute(c, key, content)
    PROVE  /\ script' \in [Collections -> Scripts \cup {NoScript}]
           /\ \A d \in Collections \ {c} : script'[d] = script[d]
           /\ script'[c].call \in Calls
           /\ script'[c].call.key = key /\ script'[c].call.content = content
           /\ script'[c].effect = "none" /\ script'[c].code = "running"
<1> DEFINE call == [bucket |-> prefs.bucket, key |-> key, content |-> content]
           s == [call |-> call, effect |-> "none", code |-> "running"]
<1>1. call \in Calls /\ call.key = key /\ call.content = content
  BY DEF TypeOK, Configured, Calls
<1>2. script' = [script EXCEPT ![c] = s]
  BY DEF Execute
<1> HIDE DEF call
<1>3. s \in Scripts /\ s.call = call /\ s.effect = "none" /\ s.code = "running"
  BY <1>1 DEF Scripts
<1> HIDE DEF s
<1> QED BY <1>1, <1>2, <1>3 DEF TypeOK

\* A task moves to another place, for the same photo or for another one.
LEMMA TaskMoves ==
    ASSUME task \in [Collections -> Tasks], NEW c \in Collections,
           NEW pc \in TaskPCs, task' = [task EXCEPT ![c].pc = pc]
    PROVE  /\ task' \in [Collections -> Tasks]
           /\ \A d \in Collections \ {c} : task'[d] = task[d]
           /\ task'[c].pc = pc /\ task'[c].todo = task[c].todo
           /\ task'[c].photo = task[c].photo /\ task'[c].name = task[c].name
           /\ task'[c].picture = task[c].picture
  BY DEF Tasks

LEMMA TaskTakes ==
    ASSUME task \in [Collections -> Tasks], NEW c \in Collections,
           NEW p \in Photos,
           task' = [task EXCEPT ![c].pc = "confirming", ![c].photo = p]
    PROVE  /\ task' \in [Collections -> Tasks]
           /\ \A d \in Collections \ {c} : task'[d] = task[d]
           /\ task'[c].pc = "confirming" /\ task'[c].todo = task[c].todo
           /\ task'[c].photo = p
<1>1. "confirming" \in TaskPCs
  BY DEF TaskPCs
<1> QED BY <1>1, ZenonT(60) DEF Tasks

LEMMA UploadIInv ==
    ASSUME IInv, NEW c \in Collections, Upload(c)
    PROVE  IInv'
<1>1. /\ task[c].pc = "rendered" /\ InHand(c) /\ task[c] \in Tasks
      /\ task[c].todo \subseteq Members[c]
      /\ UNCHANGED <<version, published, removed, prefs, stray, objects>>
  BY DEF Upload, IInv, TypeOK, TaskInv, Exporting
<1>2. CASE Configured
  <2>1. /\ task' = [task EXCEPT ![c].pc = "uploading"]
        /\ Execute(c, task[c].name, task[c].picture)
    BY <1>2 DEF Upload
  <2>2. task[c].name \in Keys /\ task[c].picture \in Pictures
    BY <1>1, MembersAssumption, NamesAssumption DEF InHand
  <2>3. /\ script' \in [Collections -> Scripts \cup {NoScript}]
        /\ \A d \in Collections \ {c} : script'[d] = script[d]
        /\ script'[c].call \in Calls
        /\ script'[c].call.key = task[c].name
        /\ script'[c].call.content = task[c].picture
        /\ script'[c].effect = "none" /\ script'[c].code = "running"
    BY <1>2, <2>1, <2>2, ExecuteFacts DEF IInv
  <2>4. /\ task' \in [Collections -> Tasks]
        /\ \A d \in Collections \ {c} : task'[d] = task[d]
        /\ task'[c].pc = "uploading" /\ task'[c].todo = task[c].todo
        /\ task'[c].photo = task[c].photo /\ task'[c].name = task[c].name
        /\ task'[c].picture = task[c].picture
    <3>1. task \in [Collections -> Tasks] /\ "uploading" \in TaskPCs
      BY DEF IInv, TypeOK, TaskPCs
    <3> QED BY <2>1, <3>1, TaskMoves
  <2>5. InHand(c)'
    BY <1>1, <2>4 DEF InHand
  <2>6. TaskInv(c)' /\ AppliedInv(c)' /\ RecordingInv(c)'
    BY <1>1, <2>3, <2>4, <2>5
       DEF TaskInv, AppliedInv, RecordingInv, Exporting, Waiting
  <2> QED BY <1>1, <2>3, <2>4, <2>6, OneTask
<1>3. CASE ~Configured
  <2>1. ~Waiting(c) /\ EndTask(c) /\ UNCHANGED script
    BY <1>1, <1>3 DEF Upload, Waiting
  <2> QED BY <1>1, <2>1, EndTaskIInv
<1> QED BY <1>2, <1>3

LEMMA UploadReturnedIInv ==
    ASSUME IInv, NEW c \in Collections, UploadReturned(c)
    PROVE  IInv'
<1> DEFINE call == script[c].call
<1>1. /\ task[c].pc = "uploading" /\ InHand(c) /\ task[c] \in Tasks
      /\ task[c].todo \subseteq Members[c]
      /\ call \in Calls /\ call.bucket \in Buckets
      /\ call.key = task[c].name /\ call.content = task[c].picture
      /\ script[c].code = "zero" => script[c].effect = "applied"
      /\ script' = [script EXCEPT ![c] = NoScript]
      /\ UNCHANGED <<version, published, removed, prefs, stray, objects>>
  BY DEF UploadReturned, IInv, TypeOK, TaskInv, Exporting, Waiting, Calls
<1>2. CASE Passes(script[c].code)
  <2>1. /\ task' = [task EXCEPT ![c].pc = "recording",
                                ![c].bucket = call.bucket,
                                ![c].exit = script[c].code]
        /\ script[c].code \in {"zero", "excused"}
    BY <1>2 DEF UploadReturned, Passes
  <2>2. /\ task' \in [Collections -> Tasks]
        /\ \A d \in Collections \ {c} : task'[d] = task[d]
        /\ task'[c].pc = "recording" /\ task'[c].todo = task[c].todo
        /\ task'[c].photo = task[c].photo /\ task'[c].name = task[c].name
        /\ task'[c].picture = task[c].picture
        /\ task'[c].bucket = call.bucket /\ task'[c].exit = script[c].code
    BY <1>1, <2>1 DEF IInv, TypeOK, Tasks, TaskPCs, ExitCodes
  <2>3. /\ script' \in [Collections -> Scripts \cup {NoScript}]
        /\ script'[c] = NoScript
        /\ \A d \in Collections \ {c} : script'[d] = script[d]
    BY <1>1 DEF IInv, TypeOK
  <2>4. InHand(c)'
    BY <1>1, <2>2 DEF InHand
  <2>5. AppliedInv(c)
    BY DEF IInv
  <2>6. RecordingInv(c)'
    BY <1>1, <2>2, <2>5
       DEF RecordingInv, AppliedInv, Waiting, Exclusive, MadeByStray, Effects
  <2>7. TaskInv(c)' /\ AppliedInv(c)'
    BY <1>1, <2>1, <2>2, <2>3, <2>4 DEF TaskInv, AppliedInv, Exporting, Waiting
  <2> QED BY <1>1, <2>2, <2>3, <2>6, <2>7, OneTask
<1>3. CASE ~Passes(script[c].code)
  <2>1. EndTask(c)
    BY <1>3 DEF UploadReturned
  <2> QED BY <1>1, <2>1, EndTaskIInv
<1> QED BY <1>2, <1>3

LEMMA DeletePhotoIInv ==
    ASSUME IInv, NEW c \in Collections, DeletePhoto(c)
    PROVE  IInv'
<1>1. /\ task[c].pc = "deleting" /\ task[c] \in Tasks
      /\ task[c].todo \subseteq removed[c]
      /\ UNCHANGED <<version, published, removed, prefs, stray, objects>>
  BY DEF DeletePhoto, IInv, TypeOK, TaskInv
<1>2. CASE Configured
  <2>1. PICK p \in task[c].todo :
          /\ task' = [task EXCEPT ![c].pc = "confirming", ![c].photo = p]
          /\ Execute(c, IdOf(c, p), NoObject)
    BY <1>2 DEF DeletePhoto
  <2>2. /\ p \in Photos /\ published[c][p].id \in Keys
        /\ IdOf(c, p) = published[c][p].id
    <3>1. p \in Photos /\ p \in removed[c]
      BY <1>1 DEF Tasks
    <3> QED BY <3>1, NamesAssumption DEF IInv, RecordOK, IdOf
  <2>3. /\ script' \in [Collections -> Scripts \cup {NoScript}]
        /\ \A d \in Collections \ {c} : script'[d] = script[d]
        /\ script'[c].call \in Calls
        /\ script'[c].call.key = published[c][p].id
        /\ script'[c].call.content = NoObject
        /\ script'[c].effect = "none" /\ script'[c].code = "running"
    BY <1>2, <2>1, <2>2, ExecuteFacts DEF IInv
  <2>4. /\ task' \in [Collections -> Tasks]
        /\ \A d \in Collections \ {c} : task'[d] = task[d]
        /\ task'[c].pc = "confirming" /\ task'[c].todo = task[c].todo
        /\ task'[c].photo = p
    <3>1. task' = [task EXCEPT ![c].pc = "confirming", ![c].photo = p]
      BY <2>1
    <3>2. /\ task \in [Collections -> Tasks] /\ p \in Photos
          /\ "confirming" \in TaskPCs
      BY <2>2 DEF IInv, TypeOK, TaskPCs
    <3> QED BY <3>1, <3>2, TaskTakes
  <2>5. TaskInv(c)' /\ AppliedInv(c)' /\ RecordingInv(c)'
    BY <1>1, <2>3, <2>4
       DEF TaskInv, AppliedInv, RecordingInv, Exporting, Waiting
  <2> QED BY <1>1, <2>3, <2>4, <2>5, OneTask
<1>3. CASE ~Configured
  <2>1. ~Waiting(c) /\ EndTask(c) /\ UNCHANGED script
    BY <1>1, <1>3 DEF DeletePhoto, Waiting
  <2> QED BY <1>1, <2>1, EndTaskIInv
<1> QED BY <1>2, <1>3

-----------------------------------------------------------------------------
(* The steps of a task that write to the catalog.                          *)

LEMMA RecordIInv ==
    ASSUME IInv, NEW c \in Collections, Record(c)
    PROVE  IInv'
<1>0. PICK p : p = task[c].photo
  OBVIOUS
<1> DEFINE r == [id |-> task[c].name, bucket |-> task[c].bucket,
                 version |-> task[c].picture.version, exit |-> task[c].exit]
           t == [Idle EXCEPT !.pc = "exporting", !.todo = Rest(task[c].todo, p)]
<1>1. /\ task[c].pc = "recording" /\ InHand(c)
      /\ task[c].todo \subseteq Members[c] /\ task[c] \in Tasks
      /\ task[c].bucket \in Buckets /\ task[c].exit \in {"zero", "excused"}
      /\ script[c] = NoScript
  BY DEF Record, IInv, TypeOK, TaskInv, Exporting, Waiting
<1>2. /\ p \in Members[c] /\ p \in Photos
      /\ task[c].name \in Names[p] /\ task[c].name \in Keys
      /\ task[c].picture.version \in Versions
  BY <1>0, <1>1, MembersAssumption, NamesAssumption DEF InHand, Pictures
<1>3. /\ r \in Records /\ r # Unpublished
      /\ r.id = task[c].name /\ r.bucket = task[c].bucket
      /\ r.version = task[c].picture.version /\ r.exit = task[c].exit
  BY <1>1, <1>2, NoneAssumption DEF Records, Unpublished, ExitCodes
<1>4. /\ t \in Tasks /\ t.pc = "exporting"
      /\ t.todo \subseteq Members[c]
  BY <1>1, IdleType DEF Tasks, TaskPCs, Rest
<1>5. /\ published' = [published EXCEPT ![c][p] = r]
      /\ task' = [task EXCEPT ![c] = t]
      /\ UNCHANGED <<version, removed, prefs, script, stray, objects>>
  BY <1>0 DEF Record
<1>6. RecordingInv(c) /\ task[c].picture.photo = p
  BY <1>0, <1>1 DEF IInv, InHand
<1> HIDE DEF r, t
<1>7. /\ published' \in [Collections -> [Photos -> Records \cup {Unpublished}]]
      /\ published'[c][p] = r
      /\ \A q \in Photos \ {p} : published'[c][q] = published[c][q]
      /\ \A d \in Collections \ {c} : published'[d] = published[d]
  BY <1>2, <1>3, <1>5 DEF IInv, TypeOK
<1>8. /\ task' \in [Collections -> Tasks] /\ task'[c] = t
      /\ \A d \in Collections \ {c} : task'[d] = task[d]
  BY <1>4, <1>5 DEF IInv, TypeOK
<1>9. TypeOK'
  BY <1>5, <1>7, <1>8 DEF IInv, TypeOK
<1>10. \A d \in Collections : \A q \in Photos : RecordOK(d, q)'
  <2>1. RecordOK(c, p)'
    BY <1>0, <1>1, <1>2, <1>3, <1>5, <1>7 DEF RecordOK, InHand
  <2>2. ASSUME NEW d \in Collections, NEW q \in Photos, d # c \/ q # p
        PROVE  RecordOK(d, q)'
    BY <1>5, <1>7, <2>2 DEF IInv, RecordOK
  <2> QED BY <2>1, <2>2
<1>11. ASSUME NEW d \in Collections
       PROVE  TaskInv(d)' /\ AppliedInv(d)' /\ RecordingInv(d)'
  <2>1. CASE d = c
    BY <1>1, <1>4, <1>5, <1>8, <2>1
       DEF TaskInv, AppliedInv, RecordingInv, Exporting, Waiting
  <2>2. CASE d # c
    <3>1. \A q \in Photos : version[q] <= version'[q]
      BY <1>5, BoundsAssumption DEF IInv, TypeOK, Versions
    <3> QED BY <1>5, <1>7, <1>8, <1>9, <2>2, <3>1, TaskKept DEF TypeOK
  <2> QED BY <2>1, <2>2
<1>12. PublishedIsStored'
  <2> SUFFICES ASSUME NEW d \in Collections, NEW q \in Members[d],
                      published'[d][q] # Unpublished,
                      published'[d][q].exit # "excused", q \notin removed[d],
                      Exclusive(d, q, published'[d][q].id)
               PROVE  LET o == objects[published'[d][q].bucket][published'[d][q].id]
                      IN \/ o = Damaged
                         \/ o.photo = q /\ o.version >= published'[d][q].version
                         \/ MadeByStray(published'[d][q].bucket,
                                        published'[d][q].id)
    BY <1>5 DEF PublishedIsStored, Exclusive, MadeByStray, Effects
  <2>1. CASE d = c /\ q = p
    <3>1. \/ objects[r.bucket][r.id] = task[c].picture
          \/ MadeByStray(r.bucket, r.id)
      BY <1>0, <1>1, <1>3, <1>6, <1>7, <2>1 DEF RecordingInv
    <3>2. r.version >= r.version
      BY <1>2, <1>3, BoundsAssumption DEF Versions
    <3> QED BY <1>3, <1>6, <1>7, <2>1, <3>1, <3>2
  <2>2. CASE d # c \/ q # p
    <3>1. q \in Photos /\ published'[d][q] = published[d][q]
      BY <1>7, <2>2, MembersAssumption
    <3> QED BY <3>1, ZenonT(60) DEF IInv, PublishedIsStored
  <2> QED BY <2>1, <2>2
<1> QED BY <1>9, <1>10, <1>11, <1>12 DEF IInv

LEMMA DeleteReturnedIInv ==
    ASSUME IInv, NEW c \in Collections, DeleteReturned(c)
    PROVE  IInv'
<1> DEFINE p == task[c].photo
           t == [Idle EXCEPT !.pc = "deleting", !.todo = Rest(task[c].todo, p)]
<1>1. /\ task[c].pc = "confirming" /\ task[c] \in Tasks
      /\ p \in task[c].todo /\ task[c].todo \subseteq removed[c] /\ p \in Photos
  BY DEF DeleteReturned, IInv, TypeOK, TaskInv, Tasks
<1>2. /\ t \in Tasks /\ t.pc = "deleting" /\ t.todo = task[c].todo \ {p}
  BY <1>1, IdleType, ZenonT(60) DEF Tasks, TaskPCs, Rest
<1>3. /\ published' = [published EXCEPT ![c][p] = Unpublished]
      /\ removed' = [removed EXCEPT ![c] = removed[c] \ {p}]
      /\ task' = [task EXCEPT ![c] = t]
      /\ script' = [script EXCEPT ![c] = NoScript]
      /\ UNCHANGED <<version, prefs, stray, objects>>
  BY DEF DeleteReturned
<1> HIDE DEF p, t
<1>4. /\ published' \in [Collections -> [Photos -> Records \cup {Unpublished}]]
      /\ published'[c][p] = Unpublished
      /\ \A q \in Photos \ {p} : published'[c][q] = published[c][q]
      /\ \A d \in Collections \ {c} : published'[d] = published[d]
  BY <1>1, <1>3 DEF IInv, TypeOK
<1>5. /\ removed' \in [Collections -> SUBSET Photos]
      /\ removed'[c] = removed[c] \ {p}
      /\ \A d \in Collections \ {c} : removed'[d] = removed[d]
  BY <1>3 DEF IInv, TypeOK
<1>6. /\ task' \in [Collections -> Tasks] /\ task'[c] = t
      /\ script' \in [Collections -> Scripts \cup {NoScript}]
      /\ script'[c] = NoScript
      /\ \A d \in Collections \ {c} : /\ task'[d] = task[d]
                                      /\ script'[d] = script[d]
  BY <1>2, <1>3 DEF IInv, TypeOK
<1>7. TypeOK'
  BY <1>3, <1>4, <1>5, <1>6 DEF IInv, TypeOK
<1>8. \A d \in Collections : \A q \in Photos : RecordOK(d, q)'
  BY <1>3, <1>4, <1>5 DEF IInv, RecordOK
<1>9. ASSUME NEW d \in Collections
      PROVE  TaskInv(d)' /\ AppliedInv(d)' /\ RecordingInv(d)'
  <2>1. CASE d = c
    BY <1>1, <1>2, <1>5, <1>6, <2>1
       DEF TaskInv, AppliedInv, RecordingInv, Exporting, Waiting
  <2>2. CASE d # c
    <3>1. \A q \in Photos : version[q] <= version'[q]
      BY <1>3, BoundsAssumption DEF IInv, TypeOK, Versions
    <3> QED BY <1>3, <1>4, <1>5, <1>6, <1>7, <2>2, <3>1, TaskKept DEF TypeOK
  <2> QED BY <2>1, <2>2
<1>10. PublishedIsStored'
  <2>1. ASSUME NEW d \in Collections, NEW q \in Members[d],
               published'[d][q] # Unpublished, q \notin removed'[d]
        PROVE  published'[d][q] = published[d][q] /\ q \notin removed[d]
    BY <1>4, <1>5, <2>1, MembersAssumption
  <2>2. PublishedIsStored
    BY DEF IInv
  <2>3. /\ UNCHANGED <<objects, version, stray>>
        /\ \A b, k : MadeByStray(b, k)' <=> MadeByStray(b, k)
    BY <1>3 DEF MadeByStray, Effects
  <2> QED BY <2>1, <2>2, <2>3 DEF PublishedIsStored, Exclusive
<1> QED BY <1>7, <1>8, <1>9, <1>10 DEF IInv

-----------------------------------------------------------------------------
(* The processes and the service.                                          *)

\* A call that is waited for has a name of the photo in hand for its key, and
\* the picture in hand or nothing for its content.
LEMMA CallFacts ==
    ASSUME IInv, NEW c \in Collections, script[c].code = "running"
    PROVE  /\ Waiting(c) /\ task[c] \in Tasks /\ script[c] \in Scripts
           /\ script[c].call \in Calls
           /\ task[c].photo \in Members[c] /\ task[c].photo \in Photos
           /\ script[c].call.key \in Names[task[c].photo]
           /\ task[c].pc = "confirming" => task[c].photo \in removed[c]
<1>1. script[c] # NoScript
  BY DEF NoScript
<1>2. Waiting(c) /\ script[c].call \in Calls /\ TaskInv(c) /\ task[c] \in Tasks
  BY <1>1 DEF IInv, TypeOK, TaskInv
<1>3. script[c] \in Scripts
  BY <1>1 DEF IInv, TypeOK
<1>4. CASE task[c].pc = "uploading"
  BY <1>2, <1>3, <1>4, MembersAssumption DEF TaskInv, InHand
<1>5. CASE task[c].pc = "confirming"
  <2>1. task[c].photo \in removed[c] /\ task[c].photo \in Photos
    BY <1>2, <1>5 DEF TaskInv, Tasks
  <2>2. RecordOK(c, task[c].photo)
    BY <2>1 DEF IInv
  <2> QED BY <1>2, <1>3, <1>5, <2>1, <2>2 DEF TaskInv, RecordOK
<1> QED BY <1>2, <1>4, <1>5 DEF Waiting

LEMMA ScriptTouchesIInv ==
    ASSUME IInv, NEW c \in Collections, ScriptTouches(c)
    PROVE  IInv'
<1> DEFINE Stray(b, k) == \E s \in stray : /\ s.bucket = b /\ s.key = k
                                            /\ objects'[b][k] \in Effects(s)
<1>0. PICK call : call = script[c].call
  OBVIOUS
<1>1. PICK new \in Effects(call) :
        /\ objects' = [objects EXCEPT ![call.bucket][call.key] = new]
        /\ script' = [script EXCEPT ![c].effect = IF new = call.content
                                                  THEN "applied" ELSE "none"]
  BY <1>0 DEF ScriptTouches
<1>2. /\ script[c].code = "running"
      /\ UNCHANGED <<version, published, removed, prefs, task, stray>>
  BY DEF ScriptTouches
<1>3. /\ Waiting(c) /\ task[c] \in Tasks /\ script[c] \in Scripts
      /\ call \in Calls /\ call.bucket \in Buckets /\ call.key \in Keys
      /\ task[c].photo \in Members[c]
      /\ call.key \in Names[task[c].photo]
      /\ task[c].pc = "confirming" => task[c].photo \in removed[c]
  BY <1>0, <1>2, CallFacts DEF Calls
<1>4. new \in Contents
  BY <1>3 DEF Effects, Calls, Contents
<1>5. PICK effect \in {"none", "applied"} :
        /\ script' = [script EXCEPT ![c].effect = effect]
        /\ effect = "applied" => new = call.content
  BY <1>1
<1>6. /\ script' \in [Collections -> Scripts \cup {NoScript}]
      /\ script'[c].call = call /\ script'[c].code = "running"
      /\ script'[c].effect = effect
      /\ \A d \in Collections \ {c} : script'[d] = script[d]
  BY <1>0, <1>2, <1>3, <1>5 DEF IInv, TypeOK, Scripts
<1>7. /\ objects' \in [Buckets -> [Keys -> Contents]]
      /\ objects'[call.bucket][call.key] = new
      /\ \A b \in Buckets : \A k \in Keys :
            b # call.bucket \/ k # call.key
            => /\ objects'[b][k] = objects[b][k]
               /\ MadeByStray(b, k) => Stray(b, k)
  BY <1>1, <1>3, <1>4 DEF IInv, TypeOK, MadeByStray
<1>8. TypeOK'
  BY <1>2, <1>6, <1>7 DEF IInv, TypeOK
<1>9. \A d \in Collections : \A q \in Photos : RecordOK(d, q)'
  BY <1>2 DEF IInv, RecordOK
\* Nobody else has this key to himself.
<1>10. ASSUME NEW d \in Collections, NEW q \in Members[d],
              Exclusive(d, q, call.key)
       PROVE  d = c /\ q = task[c].photo
  BY <1>3, <1>10 DEF Exclusive
<1>11. ASSUME NEW d \in Collections
       PROVE  TaskInv(d)' /\ AppliedInv(d)' /\ RecordingInv(d)'
  <2>1. TaskInv(d) /\ AppliedInv(d) /\ RecordingInv(d)
    BY DEF IInv
  <2>2. CASE d = c
    <3>1. TaskInv(c)'
      BY <1>0, <1>2, <1>3, <1>6, <2>1, <2>2
         DEF TaskInv, Exporting, Waiting, InHand
    <3>2. AppliedInv(c)'
      BY <1>5, <1>6, <1>7 DEF AppliedInv
    <3>3. RecordingInv(c)'
      BY <1>2, <1>3 DEF RecordingInv, Waiting
    <3> QED BY <2>2, <3>1, <3>2, <3>3
  <2>3. CASE d # c
    <3>1. TaskInv(d)'
      BY <1>2, <1>6, <2>1, <2>3 DEF TaskInv, Exporting, Waiting, InHand
    <3>2. AppliedInv(d)'
      <4> SUFFICES ASSUME Waiting(d), script[d].effect = "applied",
                          Exclusive(d, task[d].photo, script[d].call.key)
                   PROVE  \/ objects'[script[d].call.bucket][script[d].call.key]
                               = script[d].call.content
                          \/ Stray(script[d].call.bucket, script[d].call.key)
        BY <1>2, <1>6, <2>3 DEF AppliedInv, Waiting, Exclusive, MadeByStray, Effects
      <4>1. task[d].photo \in Members[d]
        <5>1. CASE task[d].pc = "uploading"
          BY <2>1, <5>1 DEF TaskInv, InHand
        <5>2. CASE task[d].pc = "confirming"
          <6>1. task[d].photo \in removed[d] /\ task[d].photo \in Photos
            BY <2>1, <5>2 DEF TaskInv, IInv, TypeOK, Tasks
          <6> QED BY <6>1 DEF IInv, RecordOK
        <5> QED BY <5>1, <5>2 DEF Waiting
      <4>2. script[d].call.key # call.key
        BY <1>10, <2>3, <4>1
      <4>3. script[d].call.bucket \in Buckets /\ script[d].call.key \in Keys
        BY <2>1 DEF TaskInv, Calls
      <4> QED BY <1>7, <2>1, <4>2, <4>3 DEF AppliedInv
    <3>3. RecordingInv(d)'
      <4> SUFFICES ASSUME task[d].pc = "recording", task[d].exit = "zero",
                          Exclusive(d, task[d].photo, task[d].name)
                   PROVE  \/ objects'[task[d].bucket][task[d].name]
                               = task[d].picture
                          \/ Stray(task[d].bucket, task[d].name)
        BY <1>2 DEF RecordingInv, Exclusive, MadeByStray, Effects
      <4>1. /\ task[d].photo \in Members[d] /\ task[d].bucket \in Buckets
            /\ task[d].name \in Keys
        BY <2>1, MembersAssumption, NamesAssumption DEF TaskInv, InHand
      <4>2. task[d].name # call.key
        BY <1>10, <2>3, <4>1
      <4> QED BY <1>7, <2>1, <4>1, <4>2 DEF RecordingInv
    <3> QED BY <3>1, <3>2, <3>3
  <2> QED BY <2>2, <2>3
<1>12. PublishedIsStored'
  <2> SUFFICES ASSUME NEW d \in Collections, NEW q \in Members[d],
                      published[d][q] # Unpublished,
                      published[d][q].exit # "excused", q \notin removed[d],
                      Exclusive(d, q, published[d][q].id)
               PROVE  LET o == objects'[published[d][q].bucket][published[d][q].id]
                      IN \/ o = Damaged
                         \/ o.photo = q /\ o.version >= published[d][q].version
                         \/ Stray(published[d][q].bucket, published[d][q].id)
    BY <1>2 DEF PublishedIsStored, Exclusive, MadeByStray, Effects
  <2>1. /\ published[d][q].bucket \in Buckets /\ published[d][q].id \in Keys
        /\ q \in Photos
    BY MembersAssumption DEF IInv, TypeOK, Records
  <2>2. CASE published[d][q].bucket = call.bucket /\ published[d][q].id = call.key
    <3>1. d = c /\ q = task[c].photo
      BY <1>10, <2>2
    <3>2. task[c].pc = "uploading"
      BY <1>3, <3>1 DEF Waiting
    <3>3. InHand(c) /\ call.content = task[c].picture
      BY <1>0, <3>2 DEF IInv, TaskInv
    <3>4. new = task[c].picture \/ new = Damaged
      BY <3>3 DEF Effects
    <3>5. /\ task[c].picture.photo = q
          /\ task[c].picture.version \in Versions
          /\ published[d][q].version \in Versions
          /\ published[d][q].version <= task[c].picture.version
      BY <2>1, <3>1, <3>3 DEF InHand, Pictures, IInv, TypeOK, Records
    <3>6. task[c].picture.version >= published[d][q].version
      BY <3>5, BoundsAssumption DEF Versions
    <3> QED BY <1>7, <2>2, <3>4, <3>5, <3>6
  <2>3. CASE published[d][q].bucket # call.bucket \/ published[d][q].id # call.key
    <3>1. /\ objects'[published[d][q].bucket][published[d][q].id]
               = objects[published[d][q].bucket][published[d][q].id]
          /\ MadeByStray(published[d][q].bucket, published[d][q].id)
             => Stray(published[d][q].bucket, published[d][q].id)
      BY <1>7, <2>1, <2>3
    <3>2. PublishedIsStored
      BY DEF IInv
    <3>3. \/ objects[published[d][q].bucket][published[d][q].id] = Damaged
          \/ /\ objects[published[d][q].bucket][published[d][q].id].photo = q
             /\ objects[published[d][q].bucket][published[d][q].id].version
                  >= published[d][q].version
          \/ MadeByStray(published[d][q].bucket, published[d][q].id)
      BY <3>2 DEF PublishedIsStored
    <3> QED BY <3>1, <3>3
  <2> QED BY <2>2, <2>3
<1> QED BY <1>8, <1>9, <1>11, <1>12 DEF IInv

\* The ends of a process, with what they may leave behind.
LEMMA ScriptEndsIInv ==
    ASSUME IInv, NEW c \in Collections, ScriptEnds(c)
    PROVE  IInv'
<1>1. PICK code \in ExitCodes :
        /\ script' = [script EXCEPT ![c].code = code]
        /\ code = "zero" => script[c].effect = "applied"
  BY DEF ScriptEnds, ScriptSucceeds, ScriptExcused, ScriptFails, ExitCodes
<1>2. /\ script[c].code = "running"
      /\ UNCHANGED <<version, published, removed, prefs, task, objects>>
      /\ UNCHANGED stray \/ MayLeave(script[c].call)
  BY DEF ScriptEnds, ScriptSucceeds, ScriptExcused, ScriptFails
<1>3. /\ Waiting(c) /\ script[c] \in Scripts /\ script[c].call \in Calls
  BY <1>2, CallFacts
<1>4. stray \subseteq stray' /\ stray' \subseteq Calls
  BY <1>2, <1>3 DEF MayLeave, IInv, TypeOK
<1>5. /\ script' \in [Collections -> Scripts \cup {NoScript}]
      /\ script'[c].call = script[c].call /\ script'[c].code = code
      /\ script'[c].effect = script[c].effect
      /\ \A d \in Collections \ {c} : script'[d] = script[d]
  BY <1>1, <1>3 DEF IInv, TypeOK, Scripts
<1>6. task' \in [Collections -> Tasks] /\ task' = task
  BY <1>2 DEF IInv, TypeOK
<1>7. TaskInv(c) /\ AppliedInv(c)
  BY DEF IInv
<1>8. TaskInv(c)'
  BY <1>1, <1>2, <1>3, <1>5, <1>7 DEF TaskInv, Exporting, Waiting, InHand
<1>9. AppliedInv(c)'
  BY <1>2, <1>4, <1>5, <1>7
     DEF AppliedInv, Waiting, Exclusive, MadeByStray, Effects
<1>10. RecordingInv(c)'
  BY <1>2, <1>3 DEF RecordingInv, Waiting
<1> QED BY <1>2, <1>4, <1>5, <1>6, <1>8, <1>9, <1>10, OneScript

\* A stray call makes of one place what it makes, and leaves the others alone.
LEMMA StrayTouchesIInv ==
    ASSUME IInv, StrayTouches
    PROVE  IInv'
<1>1. PICK call \in stray : \E new \in Effects(call) :
        objects' = [objects EXCEPT ![call.bucket][call.key] = new]
  BY DEF StrayTouches
<1>2. PICK new \in Effects(call) :
        objects' = [objects EXCEPT ![call.bucket][call.key] = new]
  BY <1>1
<1>3. UNCHANGED <<version, published, removed, prefs, task, script, stray>>
  BY DEF StrayTouches
<1>4. call \in Calls /\ call.bucket \in Buckets /\ call.key \in Keys
  BY <1>1 DEF IInv, TypeOK, Calls
<1>5. new \in Contents
  BY <1>4 DEF Effects, Calls, Contents
<1> DEFINE Stray(b, k) == \E s \in stray : /\ s.bucket = b /\ s.key = k
                                            /\ objects'[b][k] \in Effects(s)
<1>6. /\ objects' \in [Buckets -> [Keys -> Contents]]
      /\ \A b \in Buckets : \A k \in Keys :
            \/ Stray(b, k)
            \/ /\ objects'[b][k] = objects[b][k]
               /\ MadeByStray(b, k) => Stray(b, k)
  <2>1. /\ objects' \in [Buckets -> [Keys -> Contents]]
        /\ objects'[call.bucket][call.key] = new
        /\ \A b \in Buckets : \A k \in Keys :
              \/ b = call.bucket /\ k = call.key
              \/ objects'[b][k] = objects[b][k]
    BY <1>2, <1>4, <1>5 DEF IInv, TypeOK
  <2> QED BY <1>1, <2>1 DEF MadeByStray
<1>7. TypeOK'
  BY <1>3, <1>6 DEF IInv, TypeOK
<1>8. \A c \in Collections : \A q \in Photos : RecordOK(c, q)'
  BY <1>3 DEF IInv, RecordOK
<1>9. ASSUME NEW c \in Collections
      PROVE  TaskInv(c)' /\ AppliedInv(c)' /\ RecordingInv(c)'
  <2>1. TaskInv(c) /\ AppliedInv(c) /\ RecordingInv(c)
    BY DEF IInv
  <2>2. TaskInv(c)'
    BY <1>3, <2>1 DEF TaskInv, Exporting, Waiting, InHand
  <2>3. AppliedInv(c)'
    BY <1>3, <1>6, <2>1 DEF AppliedInv, TaskInv, Waiting, Calls, Exclusive,
                            MadeByStray, Effects
  <2>4. task[c].pc = "recording" => /\ task[c].bucket \in Buckets
                                    /\ task[c].name \in Keys
    BY <2>1, MembersAssumption, NamesAssumption DEF TaskInv, InHand
  <2>5. RecordingInv(c)'
    BY <1>3, <1>6, <2>1, <2>4 DEF RecordingInv, Exclusive, MadeByStray, Effects
  <2> QED BY <2>2, <2>3, <2>5
<1>10. PublishedIsStored'
  <2>1. ASSUME NEW c \in Collections, NEW q \in Members[c],
               published[c][q] # Unpublished
        PROVE  published[c][q].bucket \in Buckets /\ published[c][q].id \in Keys
    BY <2>1, MembersAssumption DEF IInv, TypeOK, Records
  <2>2. PublishedIsStored
    BY DEF IInv
  <2> QED BY <1>3, <1>6, <2>1, <2>2
          DEF PublishedIsStored, Exclusive, MadeByStray, Effects
<1> QED BY <1>7, <1>8, <1>9, <1>10 DEF IInv

-----------------------------------------------------------------------------
(* The theorems.                                                           *)

LEMMA NextIInv == IInv /\ [Next]_vars => IInv'
<1> SUFFICES ASSUME IInv, [Next]_vars PROVE IInv'
  OBVIOUS
<1>1. CASE UNCHANGED vars
  <2>1. TypeOK'
    BY <1>1 DEF vars, IInv, TypeOK
  <2>2. \A c \in Collections : \A p \in Photos : RecordOK(c, p)'
    BY <1>1 DEF vars, IInv, RecordOK
  <2>3. ASSUME NEW c \in Collections
        PROVE  TaskInv(c)' /\ AppliedInv(c)' /\ RecordingInv(c)'
    <3>1. TaskInv(c) /\ AppliedInv(c) /\ RecordingInv(c)
      BY DEF IInv
    <3>2. TaskInv(c)'
      BY <1>1, <3>1 DEF vars, TaskInv, Exporting, Waiting, InHand
    <3>3. AppliedInv(c)'
      BY <1>1, <3>1 DEF vars, AppliedInv, Waiting, Exclusive, MadeByStray, Effects
    <3>4. RecordingInv(c)'
      BY <1>1, <3>1 DEF vars, RecordingInv, Exclusive, MadeByStray, Effects
    <3> QED BY <3>2, <3>3, <3>4
  <2>4. PublishedIsStored'
    BY <1>1, StoredKept DEF vars, IInv
  <2> QED BY <2>1, <2>2, <2>3, <2>4 DEF IInv
<1>2. ASSUME NEW p \in Photos, EditPhoto(p) PROVE IInv'
  BY <1>2, EditPhotoIInv
<1>3. ASSUME NEW c \in Collections, NEW p \in Photos, RemovePhoto(c, p)
      PROVE  IInv'
  BY <1>3, RemovePhotoIInv
<1>4. CASE NewConnection \/ SetKeys \/ \E b \in Buckets : SetBucket(b)
  BY <1>4, PrefsIInv
<1>5. ASSUME NEW c \in Collections, StartExport(c) \/ StartDelete(c) PROVE IInv'
  BY <1>5, StartIInv
<1>6. ASSUME NEW c \in Collections, TaskStep(c) PROVE IInv'
  BY <1>6, RenderIInv, RenderFailsIInv, EndsIInv, UploadIInv, UploadReturnedIInv,
     RecordIInv, DeletePhotoIInv, DeleteReturnedIInv DEF TaskStep
<1>7. ASSUME NEW c \in Collections, ScriptTouches(c) PROVE IInv'
  BY <1>7, ScriptTouchesIInv
<1>8. ASSUME NEW c \in Collections, ScriptEnds(c) PROVE IInv'
  BY <1>8, ScriptEndsIInv
<1>9. CASE StrayTouches
  BY <1>9, StrayTouchesIInv
<1>10. CASE Crash
  BY <1>10, CrashIInv
<1> QED BY <1>1, <1>2, <1>3, <1>4, <1>5, <1>6, <1>7, <1>8, <1>9, <1>10 DEF Next

\* The state of processRenderedPhotos, deletePhotosFromPublishedCollection and
\* their processes always is one the invariant describes.
THEOREM Invariant == Spec => []IInv
BY InitIInv, NextIInv, PTL DEF Spec

\* Types: in particular a record of the catalog is never made of a nil.
THEOREM TypeCorrect == Spec => []TypeOK
<1>1. IInv => TypeOK
  BY DEF IInv
<1> QED BY <1>1, Invariant, PTL

\* What processRenderedPhotos recorded is on the service, whatever tasks,
\* deletions, changes of account, cancellations and crashes come in between.
THEOREM Published == Spec => []PublishedIsStored
<1>1. IInv => PublishedIsStored
  BY DEF IInv
<1> QED BY <1>1, Invariant, PTL

\* Only deletedCallback makes Lightroom forget a published photo.
LEMMA ForgottenByDelete ==
    ASSUME IInv, [Next]_vars, NEW c \in Collections, NEW p \in Photos,
           published[c][p] # Unpublished, published'[c][p] = Unpublished
    PROVE  DeleteReturned(c) /\ task[c].photo = p
<1>1. PICK d \in Collections : Record(d) \/ DeleteReturned(d)
  BY DEF Next, vars, EditPhoto, RemovePhoto, NewConnection, SetKeys, SetBucket,
         SetPrefs, StartExport, StartDelete, TaskStep, Render, RenderFails,
         Canceled, ExportDone, Upload, UploadReturned, DeletePhoto, DeleteDone,
         ScriptTouches, ScriptEnds, ScriptSucceeds, ScriptExcused, ScriptFails,
         StrayTouches, Crash
<1>2. CASE DeleteReturned(d)
  <2>1. published' = [published EXCEPT ![d][task[d].photo] = Unpublished]
    BY <1>2 DEF DeleteReturned
  <2>2. d = c /\ task[d].photo = p
    BY <2>1 DEF IInv, TypeOK
  <2> QED BY <1>2, <2>2
<1>3. CASE Record(d)
  <2> DEFINE r == [id |-> task[d].name, bucket |-> task[d].bucket,
                   version |-> task[d].picture.version, exit |-> task[d].exit]
  <2>1. published' = [published EXCEPT ![d][task[d].photo] = r]
    BY <1>3 DEF Record
  <2>2. task[d].name \in Keys
    BY <1>3, MembersAssumption, NamesAssumption
       DEF Record, IInv, TaskInv, InHand
  <2>3. r # Unpublished
    BY <2>2, NoneAssumption DEF Unpublished
  <2> HIDE DEF r
  <2> QED BY <2>1, <2>3 DEF IInv, TypeOK
<1> QED BY <1>1, <1>2, <1>3

\* A deletion that ended with exit code 0, in the bucket the photo was published
\* to, removed the object that was recorded, unless a stray call brought one back.
THEOREM Deleted == Spec => DeletedIsGone
<1> DEFINE Gone == \A c \in Collections : \A p \in Members[c] :
         LET r == published[c][p] IN
         /\ r # Unpublished /\ published'[c][p] = Unpublished
         /\ script[c].code = "zero" /\ script[c].call.bucket = r.bucket
         /\ Exclusive(c, p, r.id)
         => \/ objects[r.bucket][r.id] = NoObject
            \/ MadeByStray(r.bucket, r.id)
<1>1. IInv /\ [Next]_vars => Gone
  <2> SUFFICES ASSUME IInv, [Next]_vars,
                      NEW c \in Collections, NEW p \in Members[c],
                      published[c][p] # Unpublished,
                      published'[c][p] = Unpublished,
                      script[c].code = "zero",
                      script[c].call.bucket = published[c][p].bucket,
                      Exclusive(c, p, published[c][p].id)
               PROVE  \/ objects[published[c][p].bucket][published[c][p].id]
                           = NoObject
                      \/ MadeByStray(published[c][p].bucket, published[c][p].id)
    OBVIOUS
  <2>1. p \in Photos
    BY MembersAssumption
  <2>2. task[c].pc = "confirming" /\ task[c].photo = p
    BY <2>1, ForgottenByDelete DEF DeleteReturned
  <2>3. TaskInv(c) /\ AppliedInv(c)
    BY DEF IInv
  <2> QED BY <2>2, <2>3 DEF TaskInv, AppliedInv, Waiting
<1>2. Gone => [Gone]_vars
  OBVIOUS
<1> HIDE DEF Gone
<1>3. Spec => [][Gone]_vars
  BY <1>1, Invariant, PTL DEF Spec
<1> QED BY <1>3, PTL DEF DeletedIsGone, Gone

-----------------------------------------------------------------------------
(* Tasks come to their end.                                                *)

\* The photo in hand is one the loop still has on its list.
Chosen(c) == task[c].pc \in {"rendered", "uploading", "recording", "confirming"}
             => task[c].photo \in task[c].todo

\* Of the five steps a photo takes, those that were taken.
Taken(c) == CASE task[c].pc \in {"exporting", "deleting"}    -> 0
              [] task[c].pc = "rendered"                     -> 1
              [] task[c].pc \in {"uploading", "confirming"}
                 /\ script[c].code = "running"               -> 2
              [] task[c].pc \in {"uploading", "confirming"}
                 /\ script[c].code # "running"               -> 3
              [] task[c].pc = "recording"                    -> 4

\* The most steps the task and its processes take before the task ends.
StepsLeft(c) == IF task[c].pc = "idle" THEN 0
                ELSE 5 * Cardinality(task[c].todo) + 1 - Taken(c)

\* Each step of a task, and the end of each process it waits for, takes one from
\* those left; nothing adds to them while the task runs.
TaskComesCloser(c) ==
    /\ TaskStep(c) \/ ScriptEnds(c) => StepsLeft(c)' < StepsLeft(c)
    /\ StepsLeft(c)' > StepsLeft(c) => task[c].pc = "idle"

\* What comes closer comes closer for every collection.
TasksComeCloser == \A c \in Collections : TaskComesCloser(c)

\* A loop over finitely many photos has a number of them left, one less when one
\* is done.
LEMMA ListsAreFinite ==
    ASSUME IsFiniteSet(Photos), NEW todo \in SUBSET Photos
    PROVE  /\ Cardinality(todo) \in Nat
           /\ \A p \in todo : /\ Cardinality(todo \ {p}) = Cardinality(todo) - 1
                              /\ Cardinality(todo) >= 1
<1>1. IsFiniteSet(todo) /\ Cardinality(todo) \in Nat
  BY FS_Subset, FS_CardinalityType
<1>2. ASSUME NEW p \in todo
      PROVE  Cardinality(todo \ {p}) = Cardinality(todo) - 1 /\ Cardinality(todo) >= 1
  <2>1. Cardinality(todo \ {p}) = Cardinality(todo) - 1
    BY <1>1, FS_RemoveElement
  <2>2. Cardinality(todo \ {p}) \in Nat
    BY <1>1, FS_RemoveElement, FS_CardinalityType
  <2> QED BY <1>1, <2>1, <2>2
<1> QED BY <1>1, <1>2

\* What the steps of a task make of its place, its list and the photo in hand.
Moves(c, from, to) == task[c].pc = from /\ task'[c].pc = to

SameList(c) == task'[c].todo = task[c].todo

Advances(c) ==
    \/ task[c].pc # "idle" /\ task'[c].pc = "idle"
    \/ Moves(c, "exporting", "rendered") /\ SameList(c) /\ task'[c].photo \in task[c].todo
    \/ /\ Moves(c, "exporting", "exporting")
       /\ \E p \in task[c].todo : task'[c].todo = task[c].todo \ {p}
    \/ /\ Moves(c, "rendered", "uploading") /\ SameList(c)
       /\ task'[c].photo = task[c].photo /\ script'[c].code = "running"
    \/ /\ Moves(c, "uploading", "recording") /\ SameList(c)
       /\ task'[c].photo = task[c].photo /\ script[c].code # "running"
    \/ /\ Moves(c, "recording", "exporting")
       /\ task'[c].todo = task[c].todo \ {task[c].photo}
    \/ /\ Moves(c, "deleting", "confirming") /\ SameList(c)
       /\ task'[c].photo \in task[c].todo /\ script'[c].code = "running"
    \/ /\ Moves(c, "confirming", "deleting") /\ script[c].code # "running"
       /\ task'[c].todo = task[c].todo \ {task[c].photo}

\* A step of a task leaves the other collections' tasks and processes alone.
OthersRest(c) == \A d \in Collections \ {c} :
                    task'[d] = task[d] /\ script'[d] = script[d]

LEMMA EndAdvances ==
    ASSUME IInv, NEW c \in Collections, EndTask(c), task[c].pc # "idle",
           script' = script \/ script' = [script EXCEPT ![c] = NoScript]
    PROVE  Advances(c) /\ OthersRest(c)
<1>1. task' = [task EXCEPT ![c] = Idle]
  BY DEF EndTask
<1>2. task'[c] = Idle /\ OthersRest(c)
  BY <1>1 DEF IInv, TypeOK, OthersRest
<1> QED BY <1>2, IdleType DEF Advances

LEMMA RenderAdvances ==
    ASSUME IInv, NEW c \in Collections, Render(c)
    PROVE  Advances(c) /\ OthersRest(c)
<1>0. PICK p \in task[c].todo : \E name \in Names[p] :
        task' = [task EXCEPT ![c].pc = "rendered", ![c].photo = p,
                             ![c].name = name,
                             ![c].picture = [photo |-> p,
                                             version |-> version[p]]]
  BY DEF Render
<1>1. PICK name \in Names[p] :
        task' = [task EXCEPT ![c].pc = "rendered", ![c].photo = p,
                             ![c].name = name,
                             ![c].picture = [photo |-> p,
                                             version |-> version[p]]]
  BY <1>0
<1>2. task \in [Collections -> Tasks] /\ task[c].pc = "exporting" /\ UNCHANGED script
  BY DEF IInv, TypeOK, Render
<1>3. /\ task'[c].pc = "rendered" /\ task'[c].photo = p
      /\ task'[c].todo = task[c].todo
  BY <1>1, <1>2 DEF Tasks
<1>4. \A d \in Collections \ {c} : task'[d] = task[d]
  BY <1>1, <1>2
<1> QED BY <1>2, <1>3, <1>4 DEF Advances, Moves, SameList, OthersRest

LEMMA RenderFailsAdvances ==
    ASSUME IInv, NEW c \in Collections, RenderFails(c)
    PROVE  Advances(c) /\ OthersRest(c)
<1>1. task \in [Collections -> Tasks] /\ task[c].pc = "exporting" /\ UNCHANGED script
  BY DEF IInv, TypeOK, RenderFails
<1>2. PICK p \in task[c].todo : task' = [task EXCEPT ![c].todo = @ \ {p}]
  BY DEF RenderFails
<1>3. task'[c].pc = "exporting" /\ task'[c].todo = task[c].todo \ {p}
  BY <1>1, <1>2 DEF Tasks
<1>4. \A d \in Collections \ {c} : task'[d] = task[d]
  BY <1>1, <1>2
<1> QED BY <1>1, <1>3, <1>4 DEF Advances, Moves, OthersRest

LEMMA UploadAdvances ==
    ASSUME IInv, NEW c \in Collections, Upload(c)
    PROVE  Advances(c) /\ OthersRest(c)
<1>1. /\ task \in [Collections -> Tasks] /\ task[c].pc = "rendered"
      /\ TypeOK /\ InHand(c)
  BY DEF IInv, TypeOK, Upload, TaskInv
<1>2. CASE Configured
  <2>1. /\ task' = [task EXCEPT ![c].pc = "uploading"]
        /\ Execute(c, task[c].name, task[c].picture)
    BY <1>2 DEF Upload
  <2>2. task[c].name \in Keys /\ task[c].picture \in Pictures
    BY <1>1, MembersAssumption, NamesAssumption DEF InHand
  <2>3. /\ \A d \in Collections \ {c} : script'[d] = script[d]
        /\ script'[c].code = "running"
    BY <1>1, <1>2, <2>1, <2>2, ExecuteFacts
  <2>4. "uploading" \in TaskPCs
    BY DEF TaskPCs
  <2>5. /\ \A d \in Collections \ {c} : task'[d] = task[d]
        /\ task'[c].pc = "uploading" /\ task'[c].todo = task[c].todo
        /\ task'[c].photo = task[c].photo
    BY <1>1, <2>1, <2>4, TaskMoves
  <2> QED BY <1>1, <2>3, <2>5 DEF Advances, Moves, SameList, OthersRest
<1>3. CASE ~Configured
  BY <1>1, <1>3, EndAdvances DEF Upload
<1> QED BY <1>2, <1>3

LEMMA UploadReturnedAdvances ==
    ASSUME IInv, NEW c \in Collections, UploadReturned(c)
    PROVE  Advances(c) /\ OthersRest(c)
<1>1. /\ task \in [Collections -> Tasks] /\ task[c].pc = "uploading"
      /\ script' = [script EXCEPT ![c] = NoScript]
      /\ script \in [Collections -> Scripts \cup {NoScript}]
      /\ script[c].code # "running"
  BY DEF IInv, TypeOK, UploadReturned, ExitCodes
<1>2. CASE Passes(script[c].code)
  <2>1. task' = [task EXCEPT ![c].pc = "recording",
                             ![c].bucket = script[c].call.bucket,
                             ![c].exit = script[c].code]
    BY <1>2 DEF UploadReturned
  <2>2. /\ task'[c].pc = "recording" /\ task'[c].todo = task[c].todo
        /\ task'[c].photo = task[c].photo
    BY <1>1, <2>1 DEF Tasks
  <2>3. OthersRest(c)
    BY <1>1, <2>1 DEF OthersRest
  <2> QED BY <1>1, <2>2, <2>3 DEF Advances, Moves, SameList
<1>3. CASE ~Passes(script[c].code)
  BY <1>1, <1>3, EndAdvances DEF UploadReturned
<1> QED BY <1>2, <1>3

LEMMA RecordAdvances ==
    ASSUME IInv, NEW c \in Collections, Record(c) \/ DeleteReturned(c)
    PROVE  Advances(c) /\ OthersRest(c)
<1> DEFINE rest == task[c].todo \ {task[c].photo}
<1>1. /\ task \in [Collections -> Tasks]
      /\ script \in [Collections -> Scripts \cup {NoScript}]
  BY DEF IInv, TypeOK
<1>2. CASE Record(c)
  <2>1. task[c].pc = "recording" /\ UNCHANGED script
    BY <1>2 DEF Record
  <2>2. task' = [task EXCEPT ![c] = [Idle EXCEPT !.pc = "exporting", !.todo = rest]]
    BY <1>2 DEF Record, Rest
  <2>3. task'[c].pc = "exporting" /\ task'[c].todo = rest /\ OthersRest(c)
    BY <1>1, <2>1, <2>2 DEF Idle, OthersRest
  <2> QED BY <2>1, <2>3 DEF Advances, Moves
<1>3. CASE DeleteReturned(c)
  <2>1. /\ task[c].pc = "confirming" /\ script[c].code # "running"
        /\ script' = [script EXCEPT ![c] = NoScript]
    BY <1>3 DEF DeleteReturned, ExitCodes
  <2>2. task' = [task EXCEPT ![c] = [Idle EXCEPT !.pc = "deleting", !.todo = rest]]
    BY <1>3 DEF DeleteReturned, Rest
  <2>3. task'[c].pc = "deleting" /\ task'[c].todo = rest /\ OthersRest(c)
    BY <1>1, <2>1, <2>2 DEF Idle, OthersRest
  <2> QED BY <2>1, <2>3 DEF Advances, Moves
<1> QED BY <1>2, <1>3

LEMMA DeletePhotoAdvances ==
    ASSUME IInv, NEW c \in Collections, DeletePhoto(c)
    PROVE  Advances(c) /\ OthersRest(c)
<1>1. /\ task \in [Collections -> Tasks] /\ task[c].pc = "deleting" /\ TypeOK
      /\ task[c].todo \subseteq removed[c] /\ removed[c] \subseteq Photos
  BY DEF IInv, TypeOK, DeletePhoto, TaskInv
<1>2. CASE Configured
  <2>1. PICK p \in task[c].todo :
          /\ task' = [task EXCEPT ![c].pc = "confirming", ![c].photo = p]
          /\ Execute(c, IdOf(c, p), NoObject)
    BY <1>2 DEF DeletePhoto
  <2>2. p \in Photos /\ IdOf(c, p) \in Keys
    <3>1. p \in Photos /\ p \in removed[c]
      BY <1>1
    <3>2. RecordOK(c, p) /\ p \in Photos
      BY <3>1 DEF IInv
    <3> QED BY <3>1, <3>2, MembersAssumption, NamesAssumption DEF RecordOK, IdOf
  <2>3. /\ \A d \in Collections \ {c} : script'[d] = script[d]
        /\ script'[c].code = "running"
    BY <1>1, <1>2, <2>1, <2>2, ExecuteFacts
  <2>4. /\ \A d \in Collections \ {c} : task'[d] = task[d]
        /\ task'[c].pc = "confirming" /\ task'[c].todo = task[c].todo
        /\ task'[c].photo = p
    <3>1. task' = [task EXCEPT ![c].pc = "confirming", ![c].photo = p]
      BY <2>1
    <3> QED BY <1>1, <2>2, <3>1, TaskTakes
  <2> QED BY <1>1, <2>3, <2>4 DEF Advances, Moves, SameList, OthersRest
<1>3. CASE ~Configured
  BY <1>1, <1>3, EndAdvances DEF DeletePhoto
<1> QED BY <1>2, <1>3

\* Every step of a task is one of those.
LEMMA TaskAdvances ==
    ASSUME IInv, NEW c \in Collections, TaskStep(c)
    PROVE  Advances(c) /\ OthersRest(c)
<1>1. CASE Canceled(c) \/ ExportDone(c) \/ DeleteDone(c)
  BY <1>1, EndAdvances DEF Canceled, ExportDone, DeleteDone
<1> QED
  BY <1>1, RenderAdvances, RenderFailsAdvances, UploadAdvances, UploadReturnedAdvances,
     RecordAdvances, DeletePhotoAdvances DEF TaskStep

\* A task starts with no photo in hand, and only when none is at work.
LEMMA Starts ==
    ASSUME IInv, NEW c \in Collections, StartExport(c) \/ StartDelete(c)
    PROVE  /\ task[c].pc = "idle" /\ task'[c].pc \in {"exporting", "deleting"}
           /\ OthersRest(c)
<1>1. task \in [Collections -> Tasks] /\ task[c].pc = "idle" /\ UNCHANGED script
  BY ZenonT(60) DEF IInv, TypeOK, StartExport, StartDelete
<1>2. CASE StartExport(c)
  <2>1. PICK todo \in SUBSET (Members[c] \ removed[c]) :
          task' = [task EXCEPT ![c] = [Idle EXCEPT !.pc = "exporting",
                                                   !.todo = todo]]
    BY <1>2, Zenon DEF StartExport
  <2> QED BY <1>1, <2>1 DEF OthersRest, Idle
<1>3. CASE StartDelete(c)
  <2>1. task' = [task EXCEPT ![c] = [Idle EXCEPT !.pc = "deleting",
                                                !.todo = removed[c]]]
    BY <1>3, Zenon DEF StartDelete
  <2> QED BY <1>1, <2>1 DEF OthersRest, Idle
<1> QED BY <1>2, <1>3

\* A process leaves the tasks alone; when it ends, only its own code changes.
LEMMA ScriptSteps ==
    ASSUME IInv, NEW c \in Collections, ScriptTouches(c) \/ ScriptEnds(c)
    PROVE  /\ task' = task
           /\ \A d \in Collections \ {c} : script'[d] = script[d]
           /\ ScriptEnds(c) => script[c].code = "running" /\ script'[c].code # "running"
           /\ ~ScriptEnds(c) => script'[c].code = script[c].code
<1>1. script \in [Collections -> Scripts \cup {NoScript}]
  BY DEF IInv, TypeOK
<1>2. CASE ScriptEnds(c)
  BY <1>1, <1>2
  DEF ScriptEnds, ScriptSucceeds, ScriptExcused, ScriptFails, Scripts, NoScript
<1>3. CASE ScriptTouches(c) /\ ~ScriptEnds(c)
  <2>1. task' = task
    BY <1>3 DEF ScriptTouches
  <2>2. PICK effect \in {"applied", "none"} : script' = [script EXCEPT ![c].effect = effect]
    BY <1>3 DEF ScriptTouches
  <2> QED BY <1>1, <1>3, <2>1, <2>2 DEF Scripts, NoScript
<1> QED BY <1>2, <1>3

\* What a step is for a task: its own or its process's, or none of its business.
LEMMA StepsOfTask ==
    ASSUME IInv, [Next]_vars, NEW c \in Collections
    PROVE  \/ task'[c] = task[c] /\ script'[c].code = script[c].code
           \/ task[c].pc = "idle" /\ task'[c].pc \in {"exporting", "deleting"}
           \/ Advances(c)
           \/ /\ ScriptEnds(c) /\ task'[c] = task[c]
              /\ script[c].code = "running" /\ script'[c].code # "running"
           \/ task'[c].pc = "idle"
<1>1. ASSUME NEW d \in Collections, StartExport(d) \/ StartDelete(d) \/ TaskStep(d)
      PROVE  \/ task'[c] = task[c] /\ script'[c].code = script[c].code
             \/ task[c].pc = "idle" /\ task'[c].pc \in {"exporting", "deleting"}
             \/ Advances(c)
  BY <1>1, Starts, TaskAdvances DEF OthersRest
<1>2. ASSUME NEW d \in Collections, ScriptTouches(d) \/ ScriptEnds(d)
      PROVE  \/ task'[c] = task[c] /\ script'[c].code = script[c].code
             \/ /\ ScriptEnds(c) /\ task'[c] = task[c]
                /\ script[c].code = "running" /\ script'[c].code # "running"
  <2>1. CASE d = c
    BY <1>2, <2>1, ScriptSteps
  <2>2. CASE d # c
    BY <1>2, <2>2, ScriptSteps
  <2> QED BY <2>1, <2>2
<1>3. CASE Crash
  BY <1>3, IdleType DEF Crash
<1>4. CASE \/ \E p \in Photos : EditPhoto(p)
           \/ \E d \in Collections, p \in Photos : RemovePhoto(d, p)
           \/ NewConnection \/ SetKeys \/ \E b \in Buckets : SetBucket(b)
           \/ StrayTouches \/ UNCHANGED vars
  BY <1>4
  DEF EditPhoto, RemovePhoto, NewConnection, SetKeys, SetBucket, SetPrefs, StrayTouches, vars
<1> QED BY <1>1, <1>2, <1>3, <1>4 DEF Next

\* The photo in hand stays on the list until it is done.
AllChosen == \A c \in Collections : Chosen(c)

LEMMA ChosenStays == IInv /\ AllChosen /\ [Next]_vars => AllChosen'
<1> SUFFICES ASSUME IInv, AllChosen, [Next]_vars, NEW c \in Collections
             PROVE  Chosen(c)'
  BY DEF AllChosen
<1>1. Chosen(c)
  BY DEF AllChosen
<1>2. CASE Advances(c)
  BY <1>1, <1>2 DEF Advances, Moves, SameList, Chosen
<1>3. CASE \/ task'[c] = task[c]
           \/ task'[c].pc \in {"idle", "exporting", "deleting"}
  BY <1>1, <1>3 DEF Chosen
<1> QED BY <1>2, <1>3, StepsOfTask

\* The steps that are left are a number, zero for an idle task only.
LEMMA StepsAreLeft ==
    ASSUME IsFiniteSet(Photos), IInv, AllChosen, NEW c \in Collections
    PROVE  /\ StepsLeft(c) \in Nat /\ (StepsLeft(c) = 0 <=> task[c].pc = "idle")
           /\ Cardinality(task[c].todo) \in Nat
           /\ task[c].pc # "idle" => Taken(c) \in 0..4
           /\ Taken(c) > 0 /\ task[c].pc # "idle" => Cardinality(task[c].todo) >= 1
<1>1. task[c] \in Tasks /\ Chosen(c)
  BY DEF IInv, TypeOK, AllChosen
<1>2. task[c].todo \in SUBSET Photos /\ task[c].pc \in TaskPCs
  BY <1>1 DEF Tasks
<1>3. Cardinality(task[c].todo) \in Nat
  BY <1>2, ListsAreFinite
<1>4. task[c].pc # "idle" => Taken(c) \in 0..4
  BY <1>2 DEF Taken, TaskPCs
<1>5. ASSUME task[c].pc \in {"rendered", "uploading", "recording", "confirming"}
      PROVE  Cardinality(task[c].todo) >= 1
  BY <1>1, <1>2, <1>5, ListsAreFinite DEF Chosen
<1>6. task[c].pc \in {"exporting", "deleting"} => Taken(c) = 0
  BY DEF Taken
<1>7. Taken(c) > 0 /\ task[c].pc # "idle" => Cardinality(task[c].todo) >= 1
  BY <1>2, <1>5, <1>6 DEF TaskPCs
<1> QED BY <1>3, <1>4, <1>7 DEF StepsLeft

\* A task that advances has fewer steps left.
LEMMA AdvancesCloser ==
    ASSUME IsFiniteSet(Photos), IInv, IInv', AllChosen, NEW c \in Collections, Advances(c)
    PROVE  StepsLeft(c)' < StepsLeft(c)
<1> DEFINE n == Cardinality(task[c].todo)
<1>1. /\ task[c] \in Tasks /\ task'[c] \in Tasks /\ Chosen(c)
      /\ task[c].todo \in SUBSET Photos
  BY DEF IInv, TypeOK, AllChosen, Tasks
<1>2. /\ StepsLeft(c) \in Nat /\ (StepsLeft(c) = 0 <=> task[c].pc = "idle") /\ n \in Nat
      /\ \A p \in task[c].todo : Cardinality(task[c].todo \ {p}) = n - 1
  BY <1>1, StepsAreLeft, ListsAreFinite
<1>3. SameList(c) => Cardinality(task'[c].todo) = n
  BY DEF SameList
<1>4. CASE task[c].pc # "idle" /\ task'[c].pc = "idle"
  BY <1>2, <1>4 DEF StepsLeft
<1>5. CASE Moves(c, "exporting", "rendered") /\ SameList(c)
  BY <1>2, <1>3, <1>5 DEF Moves, StepsLeft, Taken
<1>6. CASE /\ Moves(c, "exporting", "exporting")
           /\ \E p \in task[c].todo : task'[c].todo = task[c].todo \ {p}
  <2>1. Cardinality(task'[c].todo) = n - 1
    BY <1>2, <1>6
  <2> QED BY <1>2, <1>6, <2>1 DEF Moves, StepsLeft, Taken
<1>7. CASE /\ Moves(c, "rendered", "uploading") /\ SameList(c)
           /\ script'[c].code = "running"
  BY <1>2, <1>3, <1>7 DEF Moves, StepsLeft, Taken
<1>8. CASE /\ Moves(c, "uploading", "recording") /\ SameList(c)
           /\ script[c].code # "running"
  BY <1>2, <1>3, <1>8 DEF Moves, StepsLeft, Taken
<1>9. CASE /\ Moves(c, "recording", "exporting")
           /\ task'[c].todo = task[c].todo \ {task[c].photo}
  <2>1. Cardinality(task'[c].todo) = n - 1
    BY <1>1, <1>2, <1>9 DEF Chosen, Moves
  <2> QED BY <1>2, <1>9, <2>1 DEF Moves, StepsLeft, Taken
<1>10. CASE /\ Moves(c, "deleting", "confirming") /\ SameList(c)
            /\ script'[c].code = "running"
  BY <1>2, <1>3, <1>10 DEF Moves, StepsLeft, Taken
<1>11. CASE /\ Moves(c, "confirming", "deleting") /\ script[c].code # "running"
            /\ task'[c].todo = task[c].todo \ {task[c].photo}
  <2>1. Cardinality(task'[c].todo) = n - 1
    BY <1>1, <1>2, <1>11 DEF Chosen, Moves
  <2> QED BY <1>2, <1>11, <2>1 DEF Moves, StepsLeft, Taken
<1> QED BY <1>4, <1>5, <1>6, <1>7, <1>8, <1>9, <1>10, <1>11 DEF Advances

\* So has one whose process ended, for a process runs only while it is waited for.
LEMMA EndsCloser ==
    ASSUME IsFiniteSet(Photos), IInv, AllChosen, NEW c \in Collections,
           task'[c] = task[c], script[c].code = "running", script'[c].code # "running"
    PROVE  StepsLeft(c)' < StepsLeft(c)
<1>1. task[c].pc \in {"uploading", "confirming"}
  BY DEF IInv, TaskInv, Waiting, NoScript
<1> QED BY <1>1, StepsAreLeft DEF StepsLeft, Taken

\* The steps left are those of a state.
Numbered == \A c \in Collections :
               StepsLeft(c) \in Nat /\ (StepsLeft(c) = 0 <=> task[c].pc = "idle")

LEMMA StepsAreNumbers == IsFiniteSet(Photos) /\ IInv /\ AllChosen => Numbered
  BY StepsAreLeft DEF Numbered

\* Every step of a task, and the end of every process it waits for, leaves it fewer
\* steps.
LEMMA StepsCloser ==
    ASSUME IsFiniteSet(Photos), IInv, IInv', AllChosen, Numbered, Numbered', [Next]_vars
    PROVE  TasksComeCloser
<1> SUFFICES ASSUME NEW c \in Collections PROVE TaskComesCloser(c)
  BY DEF TasksComeCloser
<1>1. StepsLeft(c) \in Nat /\ StepsLeft(c)' \in Nat
  BY DEF Numbered
<1>2. CASE Advances(c) \/ TaskStep(c)
  <2>1. StepsLeft(c)' < StepsLeft(c)
    BY <1>2, TaskAdvances, AdvancesCloser
  <2> QED BY <1>1, <2>1 DEF TaskComesCloser
<1>3. CASE ScriptEnds(c)
  <2>1. StepsLeft(c)' < StepsLeft(c)
    BY <1>3, ScriptSteps, EndsCloser
  <2> QED BY <1>1, <2>1 DEF TaskComesCloser
<1>4. CASE ~Advances(c) /\ ~TaskStep(c) /\ ~ScriptEnds(c)
  <2>1. CASE task'[c] = task[c] /\ script'[c].code = script[c].code
    <3>1. StepsLeft(c)' = StepsLeft(c)
      BY <2>1 DEF StepsLeft, Taken
    <3> QED BY <1>1, <1>4, <3>1 DEF TaskComesCloser
  <2>2. CASE task[c].pc = "idle"
    BY <1>4, <2>2 DEF TaskComesCloser
  <2>3. CASE task'[c].pc = "idle"
    <3>1. StepsLeft(c)' = 0
      BY <2>3 DEF StepsLeft
    <3> QED BY <1>1, <1>4, <3>1 DEF TaskComesCloser
  <2> QED BY <1>4, <2>1, <2>2, <2>3, StepsOfTask
<1> QED BY <1>2, <1>3, <1>4

\* A task ends after at most so many steps of its own, and ends of its processes,
\* as StepsLeft says when it starts: five for each photo and one, whichever photos
\* fail to render or to upload, for any finite set of photos; nothing that other
\* tasks, the user, stray calls or the service do adds to them.
THEOREM TasksBounded ==
    ASSUME IsFiniteSet(Photos)
    PROVE  Spec => [][TasksComeCloser]_vars /\ []Numbered
<1>1. Init => AllChosen
  BY DEF Init, AllChosen, Chosen, Idle
<1>2. IInv /\ AllChosen => Numbered
  BY StepsAreNumbers
<1>3. IInv /\ IInv' /\ AllChosen /\ Numbered /\ Numbered' /\ [Next]_vars => TasksComeCloser
  BY StepsCloser
<1>4. TasksComeCloser => [TasksComeCloser]_vars
  OBVIOUS
<1> QED
  BY <1>1, <1>2, <1>3, <1>4, ChosenStays, Invariant, PTL DEF Spec
=============================================================================
