# A verification of the DreamObjects publish plug-in

The repository is a Lightroom publish plug-in. Its Lua part
(`DreamObjects*.lua`) runs inside Lightroom; for every object it uploads or
deletes it starts `s3.py`, a Python script, which talks to
`objects.dreamhost.com` through the copy of boto beside it. This directory holds
TLA+ modules of the plug-in, of the script, and of the parts of boto that are
more than a wrapper around one request: those that keep state between calls, run
threads, retry, resume, or share data with other clients. TLC configurations
check them on small instances, and TLAPS checks proofs that what was found safe
there is so for every value of the constants.

## Inventory

The plug-in and what it runs:

| component | state it keeps | operations | modelled in |
|---|---|---|---|
| one `s3.py` process: `s3.py` | arguments, exit code | create, delete: `create_bucket`, then PUT or DELETE of the object | `S3Script`, promise in `StoreCall` |
| boto's retry loop and S3 requests: `_mexe` of `boto/connection.py`, `sender`, `should_retry`, `set_contents_from_file` of `boto/s3/key.py`, `create_bucket`, `delete_key` | attempts, last answer, last exception, position of the file | one attempt, redirect, retry, give up | `S3Script` |
| error reporting: `errors()` of `s3.py`, `runcommand`, `formatError` of `DreamObjectsAPI.lua` | two tables | exception to exit code, wait status to message | `S3Errors` |
| publishing and deleting: `processRenderedPhotos`, `deletePhotosFromPublishedCollection`, `DreamObjectsAPI.create`/`delete` | photos still to do, the id recorded in the catalog, the group of photos to delete | render, upload, record, cancel, delete, call back | `Publish` |
| account: `DreamObjectsUser.lua`, dialogs in `DreamObjectsAPI.lua`, `startDialog` | preferences (key pair, bucket); the property table of the open dialog; checks and validations under way | open, close, add keys, add bucket, check, validate | `Account`; what publishing reads of the preferences also in `Publish` |

The parts of boto with a protocol of their own (paths below
`src/dreamobjects.lrplugin/boto/`):

| component | state it keeps | operations | modelled in |
|---|---|---|---|
| connection pool: `connection.py` | a queue of idle connections per host and scheme, with the time each was put; one mutex | get, put, clean, and the use of a connection by the threads of `_mexe` and by whoever reads the response | `ConnectionPool` |
| resumable download: `s3/resumable_download_handler.py` | tracker file with an ETag, the file so far, count of attempts | get_file with resume, truncate, retry | `ResumableDownload` |
| resumable upload: `gs/resumable_upload_handler.py` | tracker file with the URI of a session, digest, count of attempts | send_file with catching up, roll-back, retry, MD5 check | `ResumableUpload` |
| concurrent transfers: `glacier/concurrent.py` | worker queue, result queue, stop flag, hashes | initiate, workers, collect, join, complete or abort | `ConcurrentTransfer` |
| archive writer: `glacier/writer.py` | partitioner's buffer, hashes of parts, size | write, flush, close, resume_file_upload | `ArchiveWriter` |
| tasks: `manage/task.py` | a Task in SimpleDB, a message in SQS for its next run | start, poll, check, run, write the next message, put its id, delete | `TaskQueue` (the queue), `TaskSchedule` (the time) |
| batch service: `services/submit.py`, `service.py`, `result.py` | files in S3, results by leaf name, messages in two queues | submit, process, write, delete; fetch results | `BatchService` |
| sequences: `sdb/db/sequence.py` | a counter in SimpleDB, cached in each object | construct, next, set with a condition | `Sequence` |
| listings: `s3/bucketlistresultset.py`, `sdb/queryresultset.py`, `dynamodb2/results.py` | marker or token, the page in hand, limit | fetch a page, give an entry | `Listing` |
| items: `dynamodb2/items.py` | data, `_orig_data`, dirty flag | load, assign, delete, save, partial_save | `DynamoItem` |
| batches: `dynamodb2/table.py`, `dynamodb2/results.py` | pending writes; keys left | put, flush, `__exit__`; fetch, give | `BatchWrite`, `BatchGet` |
| snapshots: `trim_snapshots` of `ec2/connection.py` | none; snapshots on the service | choose, delete one at a time | `Snapshots` |
| cache: `LRUCache` of `utils.py` | a dictionary over a doubly linked list | get, set, loop | `LRUCache`, promise in `LRU` |

How they interact. Lightroom runs each callback of the plug-in in a task of its
own. Tasks are coroutines: one runs until it waits for a rendered file, for the
catalog or for a process (`LrTasks.execute`), and then others may run, so tasks
of several collections interleave there. They share the preferences, one account
for the whole plug-in, and the objects of the bucket, whose keys are leaf names
of files. A task and its process share only the command line and the wait status.
Within a process, every request goes through `_mexe`, which takes its connection
from the pool. The helpers of boto do not call each other; each works on a
service that other clients use as well.

What is hard: answers that get lost after the service acted, retries and stale
answers in `_mexe`, two error tables that have to be each other's inverse, exit
code 0 for errors the table lacks, preferences read at the start of every single
process while dialogs change them, a catalog that says "published" and a bucket
that has to agree, Lightroom ending anywhere in between; connections shared by
threads and put back before their response is read; tracker files that have to
agree with files after a kill; messages that are delivered twice or late;
conditional writes whose answer is lost; pages fetched while others write.
`PROJECT.json` lists the hazards one by one with the line where each bites.

## Modules

- `S3Errors` - the tables and conversions between an exception of `s3.py` and
  the message of the Lua dialog. No state.
- `StoreCall` - the promise one run of `s3.py` makes to its caller: the object
  is only ever made what the command may make of it; the wait status is set once;
  wait status 0 means the command was carried out and stays so, unless the call is
  *excused*. A call that failed may still take effect later.
- `S3Script` - one process in detail. `command` and `request` say what it is
  doing, `i`, `response`, `e` are the local variables of `_mexe`, `fp` and `sent`
  the position of the file and the chunks sent in this attempt, `err` and `exit`
  how the process ended. `stored`, `late` and `object` stand for the service:
  what it made of this attempt, what it may still make of abandoned ones, and what
  the bucket holds. `answers` and `verdict` only record history. One action per
  branch of `_mexe`, `sender`, `should_retry`, `create_bucket` and `delete_key`.
- `Publish` - the tasks of all collections over processes that behave as
  `StoreCall` says. `task[c].pc` names the point where a task waits, `script[c]`
  the process it waits for, `stray` the calls that may still have an effect: those
  whose process outlived Lightroom, and any call that has ended, with exit code 0 or
  not, and has an attempt behind whose answer did not come (`MayLeave`).
- `Account` - the account section of the Publish dialog. `prefs` survives the
  dialog, `table` is its property table, of which `validKeys` and `validBucket`
  decide whether one may publish (`CanExport` is `updateCantExportBecause`) and
  `accountStatus` and `bucketStatus` are what the user reads. `checks` counts the
  tasks of `verifyKeys` and `verifyBucket` that wait to run; `Assign` is an
  assignment to the table, which starts one whenever an observed property changes.
  `validation[v]` is a task of `add_bucket`, waiting to run or for its answer.
- `ConnectionPool` - `pool[h][s]` is the queue of a `HostConnectionPool`, with
  ages in place of times; `conn[c]` what a connection is connected to and who
  reads the response attached to it, which is put back before that; `thread[t]` where
  `_mexe` is. A thread may have any number of open responses, read each of them at any
  time, also between two steps of another call, or never. `Cleaned`,
  `Rotated` and `Added` are `clean`, `get` and `put` on a queue. Python closes a
  connection nothing refers to (`KeepUsed`), which is how those dropped on a
  redirect or a retry end.
- `ResumableDownload`, `ResumableUpload` - one handler, process after process:
  `getter` (`sender`) is the process with its local variables, `tracker`
  (`uriFile`) the tracker file, `file` and `object` (`local`, `sessions` and
  `stored`) what is on both sides. Data is a sequence of chunks or bytes, each
  with the version it belongs to, so that a mixture shows. In the upload `pos` is
  where the file stands and `buf` the buffer read ahead: an attempt that fails leaves
  the file behind that buffer (`FirstRead`, `Send`). `faults` and `troubles` record the
  ways known to spoil a transfer.
- `ConcurrentTransfer` - `work` and `results` are the two queues, `caller` the
  thread that called `upload` or `download`, `worker[w]` a worker thread, `go`
  the stop flag; `remote` the upload on the service and `hashed` the hashes
  collected.
- `ArchiveWriter` - `Writer` with its partitioner and uploader, and
  `resume_file_upload`; a hash is taken for the data it is a hash of.
- `TaskQueue` - several pollers, kills included, over one message per run. `taskId` is
  what SimpleDB has, `earlier` the ids a read may still find, until `Settle`;
  `troubles` records that a message the task waits for was dropped by SQS, or that one
  was read before its id was put. `TaskSchedule` - the clock of `Task.check` and of
  the visibility timeout it sets, with `PerHour` units of time in an hour; `lag` is
  how long the message has been visible since the last execution, while the poller
  slept, ran something else, or was not there.
- `BatchService` - `input` and `output` give the state of each file's message in
  the two queues, `server[s]` is a `Service.main`, `reader` a `ResultProcessor`.
  `results` are known by their leaf names, as in S3, where those of two files may be
  one; a message of the output queue names a result in its OutputKey, or none.
- `Sequence` - `stored` is the item in SimpleDB, `counter[c]` the `Sequence` of a
  client; `counted` records how many puts of `next` there were since the item was
  initialised.
- `DynamoItem` - `row` is what DynamoDB has, `copy` what a read without
  `consistent=True` may find, `item` the Item. `BatchGet` - `Named` is what
  `_batch_get` makes of unprocessed keys, which is nothing; `dropped` and `failed`
  record the keys lost that way and those of requests that raised an exception.
- `Listing`, `BatchWrite`, `Snapshots` - as in the inventory, each with the writes of
  other clients that its code has to live with.
- `LRUCache` - the linked list with `head`, `tail` and `links`; `Loop` follows it.
  `LRU` - what the docstring promises: a sequence of keys, the most recent first.
- `MCS3Script`, `MCPublish`, `MCAccount`, `MCConnectionPool` - instances for TLC.
  `MCTransfers` instantiates the four transfers, `MCServices` eight of the other helpers
  and `MCStores` the two whose instances are alike, `BatchService` and `DynamoItem`; a
  variable `which` says which one is at work, for they do not meet.
- `S3ScriptProofs`, `AccountProofs`, `PublishProofs`, `ConnectionPoolProofs` -
  theorems about the module each is named after; `ResumableProofs` about the two
  resumable transfers, `GlacierProofs` about `ConcurrentTransfer` and
  `ArchiveWriter`, `ServiceProofs` about `TaskQueue`, `TaskSchedule`, `Sequence`,
  `BatchService` and `DynamoItem`, `HelperProofs` about `Listing`, `BatchWrite`,
  `BatchGet`, `Snapshots` and `LRUCache`. `GlacierProofs` also proves of
  `MCTransfers`, and `HelperProofs` of `MCServices`, what holds of their parts.

`S3Script` and `Publish` meet in `StoreCall`: `S3Script` is shown to implement it,
and the processes of `Publish` do what it allows. `Account` and `Publish` meet in
the preferences: the account changes of `Publish` (`NewConnection`, `SetKeys`,
`SetBucket`) are those of `Account`, and `ExportIsConfigured` of `Account` is what
keeps a task from starting without an account (`Configured` in `Publish`), unless a
new connection is begun meanwhile. `ConnectionPool` refines the "a connection is
there" of `S3Script`'s attempts for processes with several threads; `s3.py` itself
has one. `LRUCache` is shown to implement `LRU`.

The operators whose comment says *Mutated* are wrong on purpose. No
specification uses them; put in the place of the definition that follows, each
makes one property fail, which shows that the property depends on that line of
the code.

## Runs

| run | what it shows | bounds |
|---|---|---|
| `S3Script.cfg` | one process against every answer, lost answer, failure and kill: exit code 0 is earned or excused, no part of a file is ever stored, `_mexe` always has something to raise and it belongs to its own request, `StoreCall` is implemented, and the process ends unless it is redirected for ever | 6 retries as in boto, a file of 2 chunks, one status of each kind the code tells apart; `Location` also on a 200, a 403 and a 503 |
| `PublishOne.cfg` | the catalog agrees with the bucket while a photo is edited and removed, the account and the bucket change, attempts of failed and of successful calls are carried out late, and Lightroom crashes; a deletion that succeeded in the photo's own bucket removed its object, unless a stray call brought one back; every task ends | 1 photo, 1 name, 2 buckets, 1 edit, 1 stray call |
| `PublishCollide.cfg` | as the first, with two collections at once, a photo that may be renamed, and leaf names that may collide; a deletion goes to the object recorded, under whichever name it was published | 2 collections, 2 photos, 2 names, 1 bucket, 1 stray call |
| `Account.cfg` | dialogs, checks and validations in any order: what is shown, what may be published to and what is stored agree; no nil is joined to an address or a command line; `Verifying bucket...` does not stay | 1 bucket that exists and 1 that does not, empty names and keys, 2 validations at a time, 2 presses of a button over checks not yet run |
| `ConnectionPool.cfg` | threads share the pool: a connection under a request has one user, no open response, the right host, is not stale, and is made only when no other is free | 2 threads, 2 hosts, both schemes, 3 connections, 1 retry, a connection is stale after one tick |
| `Transfers.cfg` | the four transfers: what arrives is what was sent after failures, kills, resumed attempts and threads in any order; every transfer ends | objects of 2 and 3 chunks overwritten twice; files of 1 and 3 bytes, buffer of 2, 2 sessions, 1 edit; archives of 0, 1, 2 and too many parts at the default size, 2 workers; data of 5 in parts of 2, 1 revision; 1 retry each |
| `Services.cfg` | eight helpers, each with other clients, crashes, failed requests and pages: no task, increment, entry, write, key or snapshot is lost but for the reasons named; tasks run in time; the cache keeps what was used last | 2 pollers, 3 messages, 1 kill or start; all hours, in quarters, and 5 quarters of delay; 2 clients counting to 3; 3 entries in pages of 2, 2 writes by others; 5 writes in batches of 2; 4 keys in requests of 2; 9 ticks with months that do not begin with a week; 4 keys in a cache of 3 |
| `Stores.cfg` | a submitted file is in a queue, or its result, or one of the same name, is there or was fetched, with failures at each step and messages that come again; an Item's saves overwrite no change of a field it knows, are refused only for a reason, and leave it as its row is, though loads may be behind | 2 files, 2 names, 2 servers (all alike), 1 empty read; 3 fields, 1 value, 2 writes by another |
| `BucketOverlap.cfg` | violated: two validations leave a bucket that does not exist marked valid | as `Account.cfg` |
| `RecordUnuploaded.cfg` | violated: a photo recorded with no object in the bucket | 1 photo |
| `DailyTask.cfg` | violated: a daily task that is put off past its hour for ever | hours 0, 3 and 23, in halves |
| `ItemOverwritten.cfg` | violated: a save that succeeds takes a field of another client with it | 3 fields, 1 write by another |

Why the bounds are enough. The retry loop of `S3Script` has its real bound; two chunks
tell a whole file from a part, three an object whose beginning is right from one that is
right; one edit tells a recorded version from an older one; two names are what it takes
to rename and to collide; two validations are what it takes for answers to come in the
other order. With two threads and three connections the pool holds one that is busy and
one that is free while a thread waits, the case in which `get` rotates its queue. Two
workers and up to two parts let a sentinel overtake a result. Batches, pages and
requests are exceeded by the number of writes, entries and keys. A cache of three has an
item that is neither head nor tail. The day of `TaskSchedule` has its 24 hours; a
quarter of an hour is enough for a time within an hour and for a delay that crosses its
end, and the delays of `Services.cfg` are longer than an hour. Publishing is in two runs
because two names, two buckets, an edit and a stray call multiply: the first has what it
takes for an older version, a wrong bucket or a late attempt to replace what is shown or
was deleted, the second what it takes for a deletion to go to another name than the one
recorded, and for two tasks to meet. An Item has one value besides none for its fields,
which tells a field that was changed from one that was not. Retries are one where the
code has a constant: a loop that counts attempts goes round, is reset by progress, and
ends. Crashes, cancellations, timeouts and changes of the account are not bounded at
all, but for the kills of a poller, which use up message ids. For all that is safety the
theorems below do without any of these bounds.

What the violated runs show is in `PROJECT.json` under "findings".

## Assumptions

- The service reports success (2xx) only of an attempt it carried out, and, when
  it carried one out, answers with success or with 500 or 503. A body shorter
  than the file would be stored as a part of it. A fault in storing shows in the
  ETag.
- An attempt the client turned away from may be carried out at any later time,
  but then without such a fault, since nobody would read its ETag. This holds of
  processes that ended with exit code 0 as well, after a later attempt succeeded.
- Lightroom works on one publish or delete task of a collection at a time. The
  catalog and the preferences survive a crash; tasks do not. A process may.
- `rendition.wasSkipped` is never set: `skipRender` is called only when
  `cannotRepublishCount` is positive, and nothing increments it.
- A property table holds, when the dialog opens, only what `exportPresetFields`
  lists, so `validKeys` and `validBucket` are nil then; an observer is called at
  once, and only when the value changes. While a modal dialog is open, tasks run.
- Only a bucket that exists is found valid; one that exists may be found invalid,
  when the request fails.
- SQS shows a message to one reader at a time until its visibility timeout is
  over, and grants every timeout it is asked for. It drops a message that was kept for
  its retention period, the one a task waits for as well, when the task has been put
  off for so long; what the properties say of a task ends there (`expired`). A message
  id is not in use twice at a time.
- SimpleDB and DynamoDB apply a conditional write atomically. A read asked to be
  consistent is; another may be behind. `Sequence.get` asks for it; `get_item` does
  not unless told, nor does a `Model` of SimpleDB, and `DynamoItem` and `TaskQueue`
  read what was there before. Copies of DynamoDB have what the row once was.
- A lister gets its entries in one order, and the service does not repeat what lies
  before a marker; the pages of a listing are taken as current.
- A `ResultProcessor` retrieves files (`get_file=True`), and its messages are of its
  batch. Files whose results have the same leaf name have one result between them.
- httplib is that of Python 2.7: a response that ends early reads as the end of
  file unless its length is counted; one whose response is open refuses the next.

## Fairness

In `S3Script`, weak fairness of the process's own steps, because every wait for the
network ends (boto sets a socket time-out of 70 seconds) and the operating system
schedules the process; nothing is assumed of the service. In `Publish`, weak
fairness of the steps of each task and of the end of each process, which is what
`Terminates` of `S3Script` gives when no redirects go round in circles. In
`Account`, weak fairness of the checks, which `LrTasks.startAsyncTask` starts, and
of each validation, whose `LrHttp.get` ends with an answer or without. In the
transfers, weak fairness of the process and of each thread, whose waits end by time-outs
in the same way. `TaskSchedule` and `Listing` have weak
fairness of their loop, `BatchGet` of `fetch_more` and `next`, but not of the caller's
going on after an exception. `TaskQueue` has weak fairness of each poller's steps once
it has read a message, of the visibility timeout of the task's message, of the
retention period of SQS for other messages (`Retire`: stale ones go away), and of
SimpleDB's showing what was put (`Settle`), and strong fairness of one thing: a poller
gets the message of the task at some time although others come and go, as SQS does not
withhold a message for ever. Nothing says that the time for a run is ever found come:
`HelpersGoOn` has a task that was run looked at again, and leaves it to
`TaskSchedule`, where the hours are, to run; there it says so of hourly tasks only.
The user's actions, kills, crashes, edits and
writes of others have no fairness.

## Proofs

`S3ScriptProofs` proves for every `NumRetries`, `FileLen` and set of statuses:

- `TypeCorrect`: `Spec => []TypeOK`;
- `ExitZero`: `Spec => []ExitZeroIsDone`;
- `WholeFiles`: `Spec => []NeverPartial`;
- `AlwaysSomethingToRaise`: `Spec => []SomethingToRaise`;
- `ErrorsAreReported`: `Spec => []ReportsTheAnswer`;
- `Implements`: `Spec => CallSpec`, that `S3Script` implements `StoreCall`;
- `Bounded`: a process exits within `StepsLeft` steps of its own, each redirect
  adding one more turn of `_mexe` at most.

None of the invariants is inductive alone. `IInv` adds to the types: which
positions of the program go with which variables (`Phases`); that the body sent
so far is the part of the file read so far (`Bodies`); that everything the service
may still do leads to what the command wants, and that an attempt it carried out
without a fault is still what the bucket holds while the answer is awaited
(`Effects`); and what each way to end makes of the exit code (`Outcomes`).
`AlwaysSomethingToRaise` needs one more invariant on top (`InHand`): an answer in
hand belongs to the request under way. The refinement is proved step by step:
the step that ends the process is `Return`, a step of the service is `Touch`, and
after a settled call the service can only repeat what is already so, a stutter.
`Bounded` says that `StepsLeft` is, at first, two rounds of `NumRetries + 1` turns of
`FileLen + 3` steps, and six; that it falls with each step of the process but a
redirect; and that it is zero when the process has exited and not before. Nothing in
`_mexe` counts redirects, so two hosts that send it to each other keep it going.

`AccountProofs` proves for every set of buckets and of validations:

- `TypeCorrect`: `Spec => []TypeOK`;
- `ExportConfigured`: `Spec => []ExportIsConfigured`;
- `AccountShown`: `Spec => []AccountIsShown`;
- `BucketShown`: `Spec => []BucketIsShown`.

They are read off one invariant. The properties speak of moments when no task is
left; `IInv` says why they hold then: whenever a status line does not say what the
flags do, a check or a validation is there that will write it (`KeysAgree`,
`ShownIsValid`, `ValidIsShown`), and as long as a flag is true or a validation is
under way, the account it rests on is stored (`Configured`), for which a closed
dialog must leave no task behind (`NothingLeft`). The steps that only assign to the
table are handled by one lemma, `TableKeepsIInv`. No bound on the checks is used.

`PublishProofs` proves for every set of collections, photos, names, buckets, and
every number of edits and of stray calls, from the assumptions that members are
photos, that names are keys, and that nil is neither:

- `TypeCorrect`: `Spec => []TypeOK`;
- `Published`: `Spec => []PublishedIsStored`;
- `Deleted`: `Spec => DeletedIsGone`;
- `TasksBounded`: a task with finitely many photos ends within five steps for each of
  them, and one.

The invariant follows a file from its rendering to its record. A task and its
process agree on what is being done (`TaskInv`); a photo in hand was rendered in a
version not older than the published one (`InHand`), or publishing again could put
an older one in its place; a call that was carried out is what the service holds
(`AppliedInv`), and so is the upload about to be recorded (`RecordingInv`), as long
as the key is exclusive, but for what a stray call makes of it (`MadeByStray`); what is
recorded is a name and a version the photo had (`RecordOK`). The step where all of it
is needed is
`ScriptTouches`: an object that changes has a key of its own task's photo, so no
other task's call, upload or record can be meant. `Deleted` adds that
`deletedCallback` is the only way to forget a photo (`ForgottenByDelete`).
`TasksBounded` counts the steps of a task and the ends of its processes; it rests on
the photo in hand being still on the task's list (`Chosen`), and says that nothing done
by other tasks, the user, stray calls or the service adds to the count.

`ServiceProofs` has five parts.

- `TaskIsKept`: `TaskSpec => []TaskKept`, and `TaskTyping`, for any pollers, messages
  and number of kills. A poller that stores the id of the message it has written could
  name one that is gone, or that another poller is about to delete; the invariant adds
  that, while there are no troubles, nobody else knows a message that was written and
  is not put yet (`Fresh`).
- `NoIncrementLost`: `SequenceSpec => CountsUp`, and `SequenceTyping`, for any clients
  and any bound. The value a client is about to put is the one it read plus one
  (`InHand`), so a put of `next` whose condition holds counts one more than was counted;
  and what was counted is lost only to the unconditional put of an initialisation.
- `NoFileLost`: `ServiceSpec => []NothingLost`, and `EmptyReadsBounded`, for any
  files, names, servers and retry count. The invariant is the order of `Service.main`:
  the message of a file is deleted only after an output message was written, that one
  is written only after the result it names was saved, and it is deleted only after
  the result of that name was fetched (`FileInv`, `MessageInv`, `ServerInv`,
  `ReaderInv`); what is stored under a name is the result of a file of that name
  (`ResultsInv`).
- `ItemIsRow`: `ItemSpec => ItemAgrees`, and `ItemTyping`, for any fields and values.
  What a save expects of a field is what the Item last knew of it, but for a field
  assigned twice (`ExpectsBase`), and what it last knew is what the row has, but where
  its read was behind or others wrote (`KnowsRow`).
- `TaskOnTime`: `ScheduleSpec => KeepsTime`, and `ScheduleTyping`, for a day of any
  number of hours above one, of any number of units each, and any delay. A daily task
  that was executed in its hour, and whose message did not wait past it, is either still
  about there, or put off to the hour before its hour of the next day, or from there by
  one hour; it comes as late in its hour as it was, and later by the delay (`InDay`).
  An hourly one is looked at after an hour and the delay (`InHour`).

`ConnectionPoolProofs` proves, for any threads, hosts, schemes, connections, retries
and durations:

- `OneUser`: `PoolSpec => []ExclusiveUse`;
- `HostIsRight`: `PoolSpec => []RightHost`;
- `NothingStale`: `PoolSpec => NotTimedOut`;
- `GrowsWhenBusy`: `PoolSpec => PoolGrowsWhenBusy`;
- `PoolTyping`: `PoolSpec => []PoolTypeOK`.

What `clean` and `get` do to a queue is to draw entries from it (`Drawn`: an
injection from the places of the new queue to those of the old one), and `get` does
not draw the entry it returns; so a pool without duplicates stays one (`Apart`), and
a connection taken out is in no queue. The invariant adds that a sending thread has
a connection of its own, opened for its host (`Sending`, `Alone`). A thread that
puts a connection back may still read from it: what keeps others from using it is
that its response is not closed (`ConnReady`). For `NothingStale`, a queue is sorted
by age and an entry is at least as old as its connection has been quiet (`AgesOK`):
`get` sets the times of entries anew, but only of those it finds not ready.

For `GrowsWhenBusy`, a thread that is not sending holds no connection (`Free`), whatever
number of open responses it has. So when `get` finds none ready, those of the queue have
an open response each, and those that are not in the queue are being sent on. The other
place that makes one, `Reconnect`, does so for the one that has failed. The proof of
`RightHost` showed what three connections had hidden from TLC: the replacement of a
connection that was `crossed` is in the wrong queue as well, so `crossed` is passed on
to it.

`ResumableProofs` proves, for objects and files of any sizes, any number of
versions, edits, sessions and retries, and any buffer:

- `Downloaded`: `DownloadSpec => []DownloadWhole`, and `DownloadTyping`;
- `Uploaded`: `UploadSpec => []StoredIsFile`, and `UploadTyping`;
- `DownloadBounded` and `UploadBounded`: a process that begins comes to its end, in a
  number of steps given by retries and size.

As long as no fault has occurred, the file of a download is a beginning of the version
its tracker file names, except between tracker file and truncation, and the response
being read continues the file with the version the process found (`FileAgrees`); its
ETag is that of the tracker file or none (`GetterKnows`). Without troubles, each session
of an upload has a beginning of the file, all of it when it is complete
(`SessionsAgree`); the position of the file is what was sent, or the buffer ahead of it
once the loop has read, and the digest is of what was sent (`SenderAgrees`); what is
sent next is what comes next in the session (`KeepsUp`).

Both loops retry, and the one of the download begins to count anew whenever the file
has grown; the file may also shrink, when the ETag is another or there is no tracker
file, and may get a second copy behind the first, when a broken pipe makes boto fetch
the object once more (`again`). `DownloadBounded` weighs the chunks a process can still
ask for (`Credit`) against the failures until the next one (`FailuresLeft`) and the
steps of an attempt (`Stage`): a process ends in less than `2 * Size + 2` times
`11 * DRetries + 22` steps, unless the object is overwritten under it. In the upload no
attempt counts as progress (see Observations), so the count of failures alone bounds it:
`UploadBounded` has `URetries` attempts after the first, of the file's length and ten
steps each, whatever sessions the server forgets, unless the file is edited.

`GlacierProofs` proves:

- `Archives`: `WriterSpec => []ArchiveIsGiven`, and `WriterTyping`, for any part size
  and data given in pieces of any length;
- `Transferred`: `TransferSpec => []CompleteHasAll`, and `TransferTyping`, for any
  number of threads, parts and attempts;
- `NeverHangs`: `TransferSpec => []NoneWaitsInVain`, if there is a thread at all;
- `TransferBounded`: neither the caller nor a thread takes more than so many steps;
- `EachTransfer`: `Spec` of `MCTransfers` implies the specifications of the four, so
  that `TransfersTyping` and `TransfersAreWhole` hold of it.

Of the writer, what was given is the parts whose hashes were entered, one after
another, and then the buffer, as long as no part failed (`Archived`). Of the
transfer, a part is at one place only: in the worker queue, with a worker, in the
result queue, or hashed. So as many parts are hashed as results were counted
(`CallerKnows`), and the caller that has joined its threads has nothing left to wait
for (`AllHaveLeft`). Archives are of at most 4 GB times the number of parts, as
`minimum_part_size` raises a `ValueError` above that (`LargestAssumption`).

`NoneWaitsInVain` is the absence of a deadlock, thread by thread, which a deadlock check
of the whole would not see: a thread that is to run finds its queue not empty, and a
caller waits for a result, or for its threads, only while a thread runs. (The queues have
no bound, so only `get` could wait for ever.) The invariant, `QueueInv`, is that the
sentinels are behind the parts, that there is one for each thread that has not left,
and that a part without a result is in the queue or with a thread. `TransferBounded`
then counts: a thread takes at most `WRetries + 4` steps for each entry of the queue.

`HelperProofs` has a part for each of five helpers, and one for the eight of `MCServices`:

- `AllWritten`: `BatchSpec => []BlockWritesAll`, and `BatchTyping`. What waits and what
  is written are together what was put in, and nothing is both (`AllAccounted`).
- `AllGot`: `GetSpec => []GotAll`, and `GetTyping`. The same of what was given, is on
  the page, is still to be asked for, or was given up (`KeysAccounted`): keys come into
  `GivenUp` only by an answer that leaves them unprocessed or a request that fails.
- `AllListed`: `ListingSpec => []ListedAll`, and `ListingTyping`. The page comes after
  what was given (`GivenInOrder`), and up to the marker nothing that was there all the
  time is missing in both (`NothingSkipped`).
- `TrimmingIsRight`: `SnapshotSpec => []TrimsRight`, and `SnapshotTyping`, for periods of
  any length and any numbers of backups: of every period the code counts, the first
  snapshot is kept, and so is the newest of all. A snapshot that is deleted or about to
  be has an earlier one in its period and is not the newest (`Superseded`). It stays
  so, although the targets change with every trimming, because no target appears before
  the time it was trimmed at (`NoNewTargets`).
- `CacheIsLRU`: `CacheSpec => KeepsRecent`, and `CacheTyping`, for any keys and
  capacity. There is a sequence of the keys held that head, tail and links agree with
  (`Ordered`). A loop finds that sequence (`Followed`), which is the refinement
  mapping, and each method does to it what `LRU` says of the method.
- `GetBounded`, `ListingBounded`: a batch of reads ends, or raises, within three steps
  for each key, and two, as a request takes a key off at least or is the last; to call
  again after an exception begins with the keys that are left. A listing ends within
  three for each name an entry can have, and two, as a page that is not the last moves
  the marker on. Entries that others write meanwhile do not add to it: names before the
  marker are not seen, and the others were counted from the beginning.
- `EachHelper`: `Spec` of `MCServices` implies the specifications of the eight, so that
  `HelpersTyping` and `HelpersAreRight`, what each of them promises, hold of it.

What a recursive function gives (`FlattenSeq` of the hashes, the loop over the links)
calls for induction; here a fact on all indexes is shown of the least one at which it
would fail.

Every invariant and every action property of a passing run is so proved, those of
`MCStores` for its two parts. `AccountIsShown` and `ReportsTheAnswer` are proved and in
no run. Only model-checked are the violations, which are behaviours of an instance, and all liveness
(`Terminates`, `TasksEnd`, `VerifyingEnds`, `EveryTransferEnds`, `HelpersGoOn`), which
rests on fairness and `ENABLED` and so is beyond the prover. Of most of it the
arithmetic is proved nevertheless: `Bounded`, `TasksBounded`, `DownloadBounded`,
`UploadBounded`, `TransferBounded`, `GetBounded` and `ListingBounded` say that a
process, a task, a transfer, a listing and a batch of reads can take no more than so
many steps. What they leave to TLC is that who is not at its end can take a step, and so
does, being scheduled fairly; of the threads of a transfer, `NeverHangs` says who that
is. The archive writer, the checks of the dialog and the polling of tasks have no such
theorem.

## Observations

Met while modelling and true of the code; the first six disagree with a document, a
comment or a message of the code as well, as what the violated runs record does:

- Lightroom is told that a photo is deleted whatever the script did
  (`DreamObjectsPublishSupport.lua:535`): the exit code of a delete is dropped, where the
  comment above says that `deletedCallback` is called when the service has confirmed.
- A poller that reads the first message of a task before `start` has put its id runs
  it, writes the next message and puts that one's id (`task.py:147`, 163). `start` then
  puts its own over it, and the task waits for a message that is deleted (`troubles`).
- A daily task runs later in its hour each day, as its message waits for a poller that
  sleeps up to a minute, and nothing takes the delay off again. Once it is executed at
  58 minutes past its hour and read at the hour the next day, it is put off by 23 hours
  again (`task.py:97`), and a day is missed. `OnTime` is about tasks whose delays stay
  within the hour.
- `_batch_get` looks for `Keys` at the top of `UnprocessedKeys` (`table.py:962`), whose
  entries are tables, so no unprocessed key is ever asked for again (`dropped`).
- `trim_snapshots` counts months from their first day (`ec2/connection.py:1939`), where
  its documentation keeps the first snapshot from the first Sunday of each month. That
  one may be deleted. `FirstsKept` is about the periods the code counts.
- A retry of an upload that starts over because its session is gone, or that takes the
  one byte the service has for none (`resumable_upload_handler.py:434`), reads from where
  the attempt before has left the file. It may find nothing there and raise `File changed
  during upload` for a file nobody touched (`troubles`).
- `get_item` reads what may be behind unless it is told not to, so a save of an Item just
  loaded may be refused.
- A download whose response ended by an `IncompleteRead` that `close` ignored is
  reported complete; a kill between the tracker file and the truncation, or an object
  overwritten during the download, leaves a mixture of versions (`faults`).
- A connection opened while following a redirect to the other scheme is put back
  under the connection's own scheme (`RightHost` leaves out what was `crossed`).
- `minimum_part_size` divides integers, so an archive can need more than 10,000 parts.
- `ResultSet` ends at an empty page, though more may follow; a limit of 0 is sent to
  DynamoDB, which refuses it.
- An `Item` whose field is assigned twice expects the first of the two values, so its
  save is refused for ever; a conditional save whose answer was lost is refused
  when it is sent again.
- After a flush of `BatchTable` that failed the batch passes 25 and is not flushed
  until `__exit__`, where it is refused for its size; `__exit__` returns True and so
  swallows the exception of the block; `UnprocessedItems` are dropped.
- A loop over an `LRUCache` whose body looks keys up may never end, as a lookup
  moves the item in front of the loop.
- In the resumable upload the position of the server is the start of the range,
  0, so no attempt counts as progress; the condition of the seek before the digest is
  the reverse of its comment, with no consequence.
- A file that `process_file` has no result for leaves an output message whose OutputKey
  is empty. Every `ResultProcessor` that reads it fails in `process_record` and ends,
  and the message stays. Results of files with the same leaf name overwrite each other.
- A client of a `Sequence` that read before the item was there puts its first value with
  no condition, and may so take back the increments others made meanwhile.
- A request of `BatchGetResultSet` that fails has taken its keys off already; one that
  returns no item ends the items, though keys are left. `SelectResultSet.next` makes a
  new generator at each call, and so returns the first item for ever.
- A deletion goes to the bucket that is stored now, not to the one the photo was
  published to; a photo renamed and published again leaves its former object; a key
  that is emptied in the dialog still counts as valid.

## Not modelled

- `deletePublishedCollection`, `renamePublishedCollection`,
  `imposeSortOrderOnPublishedCollection`: each begins with a call of a function that
  is defined nowhere, before any state has changed.
- Comment callbacks, `callRestMethod`, `makeApiSignature`: never called, or calling
  undefined functions. `Info.lua`, `DreamObjectsMetadataDefinition.lua`: tables.
  `Makefile`: the build of a zip file.
- The other services of boto (most of its lines): a method builds one request and
  parses one answer, and no state is kept from one call to the next that could be
  in the wrong order. The same goes for signing, headers and proxies of the
  connection, and for the other methods of `EC2Connection` and `Key`.
- `SelectResultSet.next`, which keeps nothing; `get_results_from_domain` and
  `get_results_from_bucket` of `ResultProcessor`, which delete no message, and
  `get_file=False`, which fetches none; `Item.delete`, after which the Item still has
  its fields and a save may bring the row back.
- The body of a response is read in one step in `ConnectionPool`; the operators on
  files and queues of the library (`Queue`, `os`, `hashlib`) are what their
  documentation says.
