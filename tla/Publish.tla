------------------------------ MODULE Publish -------------------------------
(***************************************************************************)
(* Publishing photos and deleting published ones: the callbacks Lightroom  *)
(* runs, each in a task of its own, processRenderedPhotos of               *)
(* DreamObjectsExportServiceProvider.lua and                               *)
(* deletePhotosFromPublishedCollection of DreamObjectsPublishSupport.lua,  *)
(* over the calls of DreamObjectsAPI.lua.                                  *)
(*                                                                         *)
(* Tasks are coroutines: they give way while they wait, for a rendered     *)
(* file, for an s3.py process or for the catalog, and every action below   *)
(* goes from one such point to the next.  Meanwhile the other collections' *)
(* tasks run, the user edits, removes, cancels and changes the account,    *)
(* which is one for all collections (prefs), and Lightroom may crash.      *)
(*                                                                         *)
(* An s3.py process is what StoreCall says of it: it may touch its object  *)
(* and ends with exit code 0 or another one.  Whichever it was, one of its *)
(* attempts may have been given up when its answer did not come, and may   *)
(* still be carried out later: it is a stray call.                         *)
(***************************************************************************)
EXTENDS Integers, FiniteSets

CONSTANTS Collections,  \* published collections
          Photos,       \* photos of the catalog
          Keys,         \* leaf names of rendered files, and so keys of objects
          Buckets,      \* buckets the user may name
          Members,      \* Members[c]: the photos of collection c
          Names,        \* Names[p]: the leaf names p may be rendered under
          None,         \* nil
          MaxVersion,   \* bound on the edits of a photo
          MaxStray      \* bound on the calls that are stray

ASSUME MembersAssumption == Members \in [Collections -> SUBSET Photos]
ASSUME NamesAssumption == Names \in [Photos -> SUBSET Keys]
ASSUME BoundsAssumption == MaxVersion \in Nat /\ MaxStray \in Nat
ASSUME NoneAssumption == None \notin Photos \cup Keys \cup Buckets

VARIABLES version,    \* version[p]: how often p was edited
          published,  \* published[c][p]: what Lightroom recorded, or Unpublished
          removed,    \* removed[c]: the photos in `Delete Photos to Remove'
          prefs,      \* the plug-in's preferences: key pair and bucket
          task,       \* task[c]: the task that works on collection c
          script,     \* script[c]: the s3.py process task[c] waits for
          stray,      \* calls nobody waits for that may still have an effect
          objects     \* objects[b][k]: what the service holds

vars == <<version, published, removed, prefs, task, script, stray, objects>>

Versions == 0..MaxVersion

\* A file, or an object, by the photo and the version it shows.
Pictures == [photo : Photos, version : Versions]
NoObject == [photo |-> None, version |-> 0]
Damaged  == [photo |-> None, version |-> 1]
Contents == Pictures \cup {NoObject, Damaged}

\* Exit codes: 0 of a command carried out, 0 of a call that is excused, others.
ExitCodes == {"zero", "excused", "failed"}

\* What Lightroom keeps of a published photo: the id the plug-in recorded.  The
\* rest is what a reader of the model may know and no part of the code keeps:
\* the bucket and the version sent, and how the upload ended.
Records     == [id : Keys, bucket : Buckets, version : Versions,
                exit : ExitCodes]
Unpublished == [id |-> None, bucket |-> None, version |-> 0, exit |-> "none"]

\* A call of s3.py: `content' is the file for a create and NoObject, what the
\* caller wants, for a delete; `effect' says whether the service carried it
\* out intact.
Calls == [bucket : Buckets, key : Keys, content : Pictures \cup {NoObject}]
NoCall == [bucket |-> None, key |-> None, content |-> NoObject]
Idle    == [pc |-> "idle", todo |-> {}, photo |-> None, name |-> None,
            picture |-> NoObject, bucket |-> None, exit |-> "none"]
NoScript == [call |-> NoCall, effect |-> "none", code |-> "none"]

\* What a loop over photos has left to do.  Mutated: it does not move on.
NoProgress(todo, p) == todo
Rest(todo, p)       == todo \ {p}

Init == /\ version = [p \in Photos |-> 0]
        /\ published = [c \in Collections |-> [p \in Photos |-> Unpublished]]
        /\ removed = [c \in Collections |-> {}]
        /\ prefs = [keys |-> "nil", bucket |-> None]
        /\ task = [c \in Collections |-> Idle]
        /\ script = [c \in Collections |-> NoScript]
        /\ stray = {}
        /\ objects = [b \in Buckets |-> [k \in Keys |-> NoObject]]

-----------------------------------------------------------------------------
(* The user, in the catalog and in the dialogs.                            *)

EditPhoto(p) == /\ version[p] < MaxVersion
                /\ version' = [version EXCEPT ![p] = @ + 1]
                /\ UNCHANGED <<published, removed, prefs, task, script, stray,
                               objects>>

\* Lightroom keeps a published photo that left its collection until the plug-in
\* says that it is deleted.
RemovePhoto(c, p) == /\ published[c][p] # Unpublished /\ p \notin removed[c]
                     /\ removed' = [removed EXCEPT ![c] = @ \cup {p}]
                     /\ UNCHANGED <<version, published, prefs, task, script,
                                    stray, objects>>

SetPrefs(new) == /\ prefs' = new
                 /\ UNCHANGED <<version, published, removed, task, script,
                                stray, objects>>

\* startDialog for a new connection forgets the account of all the others.
NewConnection == SetPrefs([keys |-> "nil", bucket |-> None])

\* The OK of showApiKeyDialog and of showBucketDialog.
SetKeys      == SetPrefs([prefs EXCEPT !.keys = "set"])
SetBucket(b) == SetPrefs([prefs EXCEPT !.bucket = b])

-----------------------------------------------------------------------------
(* The calls of DreamObjectsAPI.lua.                                       *)

\* The command line is put together from the preferences: joining a nil to it
\* is a Lua error.  Mutated: the bucket is not needed.
ConfiguredKeys == prefs.keys = "set"
Configured == prefs.keys = "set" /\ prefs.bucket # None

\* runcommand starts a process, for the bucket named at that moment.
Execute(c, key, content) ==
    script' = [script EXCEPT ![c] =
                  [call    |-> [bucket |-> prefs.bucket, key |-> key,
                                content |-> content],
                   effect |-> "none", code |-> "running"]]

\* The task ends, with an error or without.
EndTask(c) == task' = [task EXCEPT ![c] = Idle]

-----------------------------------------------------------------------------
(* processRenderedPhotos.                                                  *)

\* Lightroom starts the task with some photos of the collection.
StartExport(c) ==
    /\ task[c].pc = "idle"
    /\ \E todo \in SUBSET (Members[c] \ removed[c]) :
          /\ todo # {}
          /\ task' = [task EXCEPT ![c] = [Idle EXCEPT !.pc = "exporting",
                                                      !.todo = todo]]
    /\ UNCHANGED <<version, published, removed, prefs, script, stray, objects>>

\* waitForRender returns the file of the next photo, as it was when rendered.
Render(c) ==
    /\ task[c].pc = "exporting"
    /\ \E p \in task[c].todo : \E name \in Names[p] :
          task' = [task EXCEPT ![c].pc = "rendered", ![c].photo = p,
                               ![c].name = name,
                               ![c].picture = [photo |-> p,
                                               version |-> version[p]]]
    /\ UNCHANGED <<version, published, removed, prefs, script, stray, objects>>

\* waitForRender reports an error: the photo is passed over.
RenderFails(c) ==
    /\ task[c].pc = "exporting"
    /\ \E p \in task[c].todo : task' = [task EXCEPT ![c].todo = @ \ {p}]
    /\ UNCHANGED <<version, published, removed, prefs, script, stray, objects>>

\* The user cancels: noticed before the next photo and after its rendering.
Canceled(c) == /\ task[c].pc \in {"exporting", "rendered"}
               /\ EndTask(c)
               /\ UNCHANGED <<version, published, removed, prefs, script,
                              stray, objects>>

ExportDone(c) == /\ task[c].pc = "exporting" /\ task[c].todo = {}
                 /\ EndTask(c)
                 /\ UNCHANGED <<version, published, removed, prefs, script,
                                stray, objects>>

\* uploadPhoto, up to the wait for the process.
Upload(c) ==
    /\ task[c].pc = "rendered"
    /\ IF Configured
       THEN /\ task' = [task EXCEPT ![c].pc = "uploading"]
            /\ Execute(c, task[c].name, task[c].picture)
       ELSE EndTask(c) /\ UNCHANGED script
    /\ UNCHANGED <<version, published, removed, prefs, stray, objects>>

\* Which exit codes create lets pass.  Mutated: all of them, as delete does.
PassAll(code) == TRUE
Passes(code)  == code \in {"zero", "excused"}

\* Mutated: the process is started as runAsyncCommand does, and not waited for.
UploadNotAwaited(c) ==
    /\ task[c].pc = "uploading"
    /\ task' = [task EXCEPT ![c].pc = "recording",
                            ![c].bucket = script[c].call.bucket]
    /\ UNCHANGED <<version, published, removed, prefs, script, stray, objects>>

\* The process ended: any exit code but 0 is thrown, and ends the task; after 0
\* the rendered file is deleted.
UploadReturned(c) ==
    /\ task[c].pc = "uploading" /\ script[c].code \in ExitCodes
    /\ IF Passes(script[c].code)
       THEN task' = [task EXCEPT ![c].pc = "recording",
                                 ![c].bucket = script[c].call.bucket,
                                 ![c].exit = script[c].code]
       ELSE EndTask(c)
    /\ script' = [script EXCEPT ![c] = NoScript]
    /\ UNCHANGED <<version, published, removed, prefs, stray, objects>>

\* recordPublishedPhotoId writes the leaf name to the catalog.
Record(c) ==
    /\ task[c].pc = "recording"
    /\ published' = [published EXCEPT ![c][task[c].photo] =
                        [id |-> task[c].name, bucket |-> task[c].bucket,
                         version |-> task[c].picture.version,
                         exit |-> task[c].exit]]
    /\ task' = [task EXCEPT ![c] = [Idle EXCEPT
                   !.pc = "exporting",
                   !.todo = Rest(task[c].todo, task[c].photo)]]
    /\ UNCHANGED <<version, removed, prefs, script, stray, objects>>

-----------------------------------------------------------------------------
(* deletePhotosFromPublishedCollection.                                    *)

\* Lightroom starts the task with the ids of the removed photos.
StartDelete(c) ==
    /\ task[c].pc = "idle" /\ removed[c] # {}
    /\ task' = [task EXCEPT ![c] = [Idle EXCEPT !.pc = "deleting",
                                                !.todo = removed[c]]]
    /\ UNCHANGED <<version, published, removed, prefs, script, stray, objects>>

\* The key deleted for a photo: the id recorded for it.  Mutated: a name of the
\* photo.
AnyName(c, p)  == CHOOSE name \in Names[p] : TRUE
IdOf(c, p)     == published[c][p].id

\* deletePhoto, up to the wait for the process.
DeletePhoto(c) ==
    /\ task[c].pc = "deleting"
    /\ \E p \in task[c].todo :
          IF Configured
          THEN /\ task' = [task EXCEPT ![c].pc = "confirming", ![c].photo = p]
               /\ Execute(c, IdOf(c, p), NoObject)
          ELSE EndTask(c) /\ UNCHANGED script
    /\ UNCHANGED <<version, published, removed, prefs, stray, objects>>

\* The process ended, no matter how: deletedCallback makes Lightroom forget the
\* photo.
DeleteReturned(c) ==
    /\ task[c].pc = "confirming" /\ script[c].code \in ExitCodes
    /\ published' = [published EXCEPT ![c][task[c].photo] = Unpublished]
    /\ removed' = [removed EXCEPT ![c] = @ \ {task[c].photo}]
    /\ task' = [task EXCEPT ![c] = [Idle EXCEPT
                   !.pc = "deleting",
                   !.todo = Rest(task[c].todo, task[c].photo)]]
    /\ script' = [script EXCEPT ![c] = NoScript]
    /\ UNCHANGED <<version, prefs, stray, objects>>

DeleteDone(c) == /\ task[c].pc = "deleting" /\ task[c].todo = {}
                 /\ EndTask(c)
                 /\ UNCHANGED <<version, published, removed, prefs, script,
                                stray, objects>>

-----------------------------------------------------------------------------
(* The processes and the service, as StoreCall has them.                   *)

\* What a call may make of its object.
Effects(call) == {call.content} \cup
                 IF call.content = NoObject THEN {} ELSE {Damaged}

ScriptTouches(c) ==
    /\ script[c].code = "running"
    /\ \E new \in Effects(script[c].call) :
          /\ objects' = [objects EXCEPT
                ![script[c].call.bucket][script[c].call.key] = new]
          /\ script' = [script EXCEPT
                ![c].effect = IF new = script[c].call.content
                              THEN "applied" ELSE "none"]
    /\ UNCHANGED <<version, published, removed, prefs, task, stray>>

\* An attempt whose answer did not come may stay behind as a stray call, however
\* the attempts after it ended.
MayLeave(call) == \/ UNCHANGED stray
                  \/ /\ Cardinality(stray \cup {call}) <= MaxStray
                     /\ stray' = stray \cup {call}

\* Exit code 0 after the command was carried out.  Mutated: after an answer that is
\* an error errors() does not list.
SucceedsAnyway(c) ==
    /\ script[c].code = "running"
    /\ script' = [script EXCEPT ![c].code = "zero"]
    /\ MayLeave(script[c].call)
    /\ UNCHANGED <<version, published, removed, prefs, task, objects>>

ScriptSucceeds(c) ==
    /\ script[c].code = "running" /\ script[c].effect = "applied"
    /\ script' = [script EXCEPT ![c].code = "zero"]
    /\ MayLeave(script[c].call)
    /\ UNCHANGED <<version, published, removed, prefs, task, objects>>

\* Exit code 0 of a call that is excused: nothing is known of the object.
ScriptExcused(c) ==
    /\ script[c].code = "running"
    /\ script' = [script EXCEPT ![c].code = "excused"]
    /\ MayLeave(script[c].call)
    /\ UNCHANGED <<version, published, removed, prefs, task, objects>>

\* Any other exit code.
ScriptFails(c) ==
    /\ script[c].code = "running"
    /\ script' = [script EXCEPT ![c].code = "failed"]
    /\ MayLeave(script[c].call)
    /\ UNCHANGED <<version, published, removed, prefs, task, objects>>

StrayTouches ==
    /\ \E call \in stray : \E new \in Effects(call) :
          objects' = [objects EXCEPT ![call.bucket][call.key] = new]
    /\ UNCHANGED <<version, published, removed, prefs, task, script, stray>>

-----------------------------------------------------------------------------
\* Lightroom dies and is started again: the catalog and the preferences are
\* kept, the tasks are gone, and their processes live on as strays or die.
Crash ==
    /\ task' = [c \in Collections |-> Idle]
    /\ script' = [c \in Collections |-> NoScript]
    /\ \E survive \in SUBSET {c \in Collections : script[c].code = "running"} :
          LET left == stray \cup {script[c].call : c \in survive}
          IN Cardinality(left) <= MaxStray /\ stray' = left
    /\ UNCHANGED <<version, published, removed, prefs, objects>>

TaskStep(c) == \/ Render(c) \/ RenderFails(c) \/ Canceled(c) \/ ExportDone(c)
               \/ Upload(c) \/ UploadReturned(c) \/ Record(c)
               \/ DeletePhoto(c) \/ DeleteReturned(c) \/ DeleteDone(c)

ScriptEnds(c) == ScriptSucceeds(c) \/ ScriptExcused(c) \/ ScriptFails(c)

Next == \/ \E p \in Photos : EditPhoto(p)
        \/ \E c \in Collections, p \in Photos : RemovePhoto(c, p)
        \/ NewConnection \/ SetKeys \/ \E b \in Buckets : SetBucket(b)
        \/ \E c \in Collections :
              \/ StartExport(c) \/ StartDelete(c) \/ TaskStep(c)
              \/ ScriptTouches(c) \/ ScriptEnds(c)
        \/ StrayTouches \/ Crash

Spec == Init /\ [][Next]_vars

\* Lightroom resumes a task when what it waits for is there, and a process of
\* s3.py ends (Terminates of S3Script).
FairSpec == /\ Spec
            /\ \A c \in Collections : WF_vars(TaskStep(c))
                                      /\ WF_vars(ScriptEnds(c))

-----------------------------------------------------------------------------
(* Properties.                                                             *)

TaskPCs == {"idle", "exporting", "rendered", "uploading", "recording",
            "deleting", "confirming"}

Tasks == [pc : TaskPCs, todo : SUBSET Photos, photo : Photos \cup {None},
          name : Keys \cup {None}, picture : Pictures \cup {NoObject},
          bucket : Buckets \cup {None}, exit : ExitCodes \cup {"none"}]

Scripts == [call : Calls, effect : {"none", "applied"},
            code : ExitCodes \cup {"running"}]

TypeOK == /\ version \in [Photos -> Versions]
          /\ published \in [Collections ->
                               [Photos -> Records \cup {Unpublished}]]
          /\ removed \in [Collections -> SUBSET Photos]
          /\ prefs \in [keys : {"nil", "set"}, bucket : Buckets \cup {None}]
          /\ task \in [Collections -> Tasks]
          /\ script \in [Collections -> Scripts \cup {NoScript}]
          /\ stray \subseteq Calls
          /\ objects \in [Buckets -> [Keys -> Contents]]

\* The key is no name of another photo, nor of the same one elsewhere.
Exclusive(c, p, k) ==
    \A d \in Collections : \A q \in Members[d] :
        k \in Names[q] => d = c /\ q = p

\* What is stored there is what a stray call makes of it.
MadeByStray(b, k) == \E call \in stray : /\ call.bucket = b /\ call.key = k
                                        /\ objects[b][k] \in Effects(call)

\* A photo Lightroom shows as published is on the service, in the bucket it was
\* sent to and under the id that was recorded, in the version that was recorded
\* or a later one, whatever tasks, changes of account, cancellations and crashes
\* come in between.  Only a later upload that failed may have damaged it, and
\* only a stray call may have put something else there, or taken it away, after
\* the call that was answered.  Left out are photos whose upload was excused
\* and ids that two publications share.
PublishedIsStored ==
    \A c \in Collections : \A p \in Members[c] :
        LET r == published[c][p] IN
        /\ r # Unpublished /\ r.exit # "excused" /\ p \notin removed[c]
        /\ Exclusive(c, p, r.id)
        => \/ objects[r.bucket][r.id] = Damaged
           \/ /\ objects[r.bucket][r.id].photo = p
              /\ objects[r.bucket][r.id].version >= r.version
           \/ MadeByStray(r.bucket, r.id)

\* When Lightroom forgets a published photo after a deletion that ended with
\* exit code 0, in the bucket it was published to, the object recorded for it
\* is gone, unless a stray call brought one back: the delete went to the
\* recorded id although the photo may have been renamed since.
DeletedIsGone ==
    [][\A c \in Collections : \A p \in Members[c] :
         LET r == published[c][p] IN
         /\ r # Unpublished /\ published'[c][p] = Unpublished
         /\ script[c].code = "zero" /\ script[c].call.bucket = r.bucket
         /\ Exclusive(c, p, r.id)
         => \/ objects[r.bucket][r.id] = NoObject
            \/ MadeByStray(r.bucket, r.id)]_vars

\* Every task Lightroom starts comes to an end, whichever photos fail to render
\* or to upload and whatever happens to the account meanwhile.
TasksEnd == \A c \in Collections : task[c].pc # "idle" ~> task[c].pc = "idle"

-----------------------------------------------------------------------------
(* What a comment says, and the code does not do.                          *)

\* `Remember this in the list of photos we uploaded'
\* (DreamObjectsExportServiceProvider.lua, where the id is recorded): a photo
\* recorded under an id of its own was uploaded, so an object is there.
RecordedWasUploaded ==
    \A c \in Collections : \A p \in Members[c] :
        LET r == published[c][p] IN
        /\ r # Unpublished /\ p \notin removed[c]
        /\ Exclusive(c, p, r.id) /\ stray = {}
        => objects[r.bucket][r.id] # NoObject
=============================================================================
