------------------------------ MODULE Account -------------------------------
(***************************************************************************)
(* The account section of the Publish dialog: startDialog and              *)
(* updateCantExportBecause of DreamObjectsExportServiceProvider.lua, the   *)
(* functions of DreamObjectsUser.lua behind its two buttons, and the modal *)
(* dialogs of DreamObjectsAPI.lua they open.                               *)
(*                                                                         *)
(* The account itself lives in the preferences of the plug-in; the dialog  *)
(* has a property table of its own, made afresh when it opens.  What joins *)
(* the two runs in tasks, at a time of its own: a check, started when the  *)
(* dialog opens and when an observed property changes, and the validation  *)
(* of a bucket against the service, started by each bucket entered.  The   *)
(* buttons stay enabled meanwhile, so several of them can be under way.    *)
(***************************************************************************)
EXTENDS Integers

CONSTANTS Buckets,      \* names of buckets the user may enter
          GoodBuckets,  \* those the service answers 200 or 403 for
          Validations,  \* the validations that can be under way at a time
          Key,          \* what a user types for a key
          Empty,        \* the empty string
          None,         \* nil
          MaxChecks     \* bound on the checks that are waiting to run

ASSUME BucketsAssumption == GoodBuckets \subseteq Buckets
ASSUME TextsAssumption == /\ None # Empty /\ None # Key /\ Empty # Key
                          /\ None \notin Buckets /\ Empty \notin Buckets
ASSUME BoundAssumption == MaxChecks \in Nat

VARIABLES prefs,      \* apiKey, sharedSecret and bucket of the preferences
          dialog,     \* "closed", or open for a "new" or "existing" connection
          modal,      \* the modal dialog on top of it
          table,      \* the property table of the dialog
          checks,     \* how many checks of the keys and of the bucket wait
          validation  \* validation[v]: the validation of a bucket

vars == <<prefs, dialog, modal, table, checks, validation>>

KeyTexts    == {Key, Empty}
BucketTexts == Buckets \cup {Empty}

\* accountStatus is "stored" or "none"; bucketStatus names the bucket or says
\* that it is being verified, invalid or missing; "blank" before any of that.
Blank == [kind |-> "blank", bucket |-> None]
Fresh == [validKeys |-> "nil", validBucket |-> "nil",
          accountStatus |-> "blank", bucketStatus |-> Blank]

NoValidation == [pc |-> "none", bucket |-> None]

Init == /\ prefs = [apiKey |-> None, sharedSecret |-> None, bucket |-> None]
        /\ dialog = "closed" /\ modal = "none"
        /\ table = Fresh
        /\ checks = [keys |-> 0, bucket |-> 0]
        /\ validation = [v \in Validations |-> NoValidation]

-----------------------------------------------------------------------------
(* Functions of DreamObjectsUser.lua on the property table.                *)

StoredKeysAreValid == prefs.apiKey = Key /\ prefs.sharedSecret # None

StoredBucketIsValid(t) == prefs.bucket \in Buckets /\ t.validBucket # "false"

NoKeys(t)   == [t EXCEPT !.validKeys = "false", !.accountStatus = "none"]
HasKeys(t)  == [t EXCEPT !.validKeys = "true", !.accountStatus = "stored"]

\* It leaves validBucket alone.
NoBucket(t) == [t EXCEPT !.bucketStatus =
    [kind |-> IF prefs.bucket = None THEN "none" ELSE "invalid",
     bucket |-> None]]

\* The bucket shown is the one stored now.
HasBucket(t) == [t EXCEPT !.validBucket = "true",
                          !.bucketStatus = [kind   |-> "bucket",
                                            bucket |-> prefs.bucket]]

BadBucket(t) == [t EXCEPT !.validBucket = "false",
                          !.bucketStatus = [kind |-> "invalid", bucket |-> None]]

\* An observer is called when a property gets another value, and starts a task.
Observed(old, new) == IF old = new THEN 0 ELSE 1

\* The property table becomes t, and `run' are the checks that ran to get there.
Assign(t, run) ==
    /\ table' = t
    /\ checks' = [keys   |-> checks.keys - run.keys
                             + Observed(table.validKeys, t.validKeys),
                  bucket |-> checks.bucket - run.bucket
                             + Observed(table.validBucket, t.validBucket)]

NoCheck     == [keys |-> 0, bucket |-> 0]
KeyCheck    == [keys |-> 1, bucket |-> 0]
BucketCheck == [keys |-> 0, bucket |-> 1]

\* updateCantExportBecause, which both observers call at once.
CanExport == table.validKeys = "true" /\ table.validBucket = "true"

-----------------------------------------------------------------------------
(* Opening and closing the dialog.                                         *)

\* startDialog: a new connection begins without an account; one check of the
\* keys and one of the bucket are started.
StartDialog(kind) ==
    /\ dialog = "closed"
    /\ dialog' = kind
    /\ prefs' = IF kind = "new" THEN [apiKey |-> None, sharedSecret |-> None,
                                      bucket |-> None]
                                ELSE prefs
    /\ table' = Fresh /\ checks' = [keys |-> 1, bucket |-> 1]
    /\ UNCHANGED <<modal, validation>>

\* The tasks that are left have the property table of a dialog that is gone.
CloseDialog == /\ dialog # "closed" /\ modal = "none"
               /\ dialog' = "closed"
               /\ table' = Fresh /\ checks' = [keys |-> 0, bucket |-> 0]
               /\ validation' = [v \in Validations |-> NoValidation]
               /\ UNCHANGED <<prefs, modal>>

-----------------------------------------------------------------------------
(* The button for the keys: add_keys and showApiKeyDialog.                 *)

PressKeys == /\ dialog # "closed" /\ modal = "none"
             /\ checks.keys <= MaxChecks
             /\ modal' = "keys"
             /\ IF dialog = "new" THEN Assign(NoKeys(table), NoCheck)
                                  ELSE UNCHANGED <<table, checks>>
             /\ UNCHANGED <<prefs, dialog, validation>>

\* A field shows what is stored; a user can type in it or leave it as it is.
Entered(stored, texts) == texts \cup {stored}

\* OK with both fields filled: validKeys becomes true whatever they hold.
KeysOK(key, secret) ==
    /\ modal = "keys"
    /\ key # None /\ secret # None
    /\ modal' = "none"
    /\ prefs' = [prefs EXCEPT !.apiKey = key, !.sharedSecret = secret]
    /\ Assign([table EXCEPT !.validKeys = "true"], NoCheck)
    /\ UNCHANGED <<dialog, validation>>

\* OK with a field never touched, which is nil: trim raises an error, after the
\* key was stored if it is the secret that is nil.
KeysError(key, secret) ==
    /\ modal = "keys"
    /\ key = None \/ secret = None
    /\ modal' = "none"
    /\ prefs' = IF key = None THEN prefs ELSE [prefs EXCEPT !.apiKey = key]
    /\ UNCHANGED <<dialog, table, checks, validation>>

\* The cancellation is thrown through add_keys.  Mutated: it is not.
CancelIgnored == /\ modal = "keys" /\ modal' = "none"
                 /\ Assign([table EXCEPT !.validKeys = "true"], NoCheck)
                 /\ UNCHANGED <<prefs, dialog, validation>>

KeysCancel == /\ modal = "keys" /\ modal' = "none"
              /\ UNCHANGED <<prefs, dialog, table, checks, validation>>

-----------------------------------------------------------------------------
(* The button for the bucket: add_bucket and showBucketDialog.             *)

PressBucket == /\ dialog # "closed" /\ modal = "none"
               /\ checks.bucket <= MaxChecks
               /\ \E v \in Validations : validation[v] = NoValidation
               /\ modal' = "bucket"
               /\ IF dialog = "new" THEN Assign(NoBucket(table), NoCheck)
                                    ELSE UNCHANGED <<table, checks>>
               /\ UNCHANGED <<prefs, dialog, validation>>

\* OK: the bucket is stored, and a task started to validate it.  Mutated: a nil
\* passes through trim.
BucketNilOK(name, v) ==
    /\ modal = "bucket"
    /\ validation[v] = NoValidation
    /\ modal' = "none"
    /\ prefs' = [prefs EXCEPT !.bucket = name]
    /\ validation' = [validation EXCEPT
                         ![v] = [pc |-> "starting", bucket |-> None]]
    /\ UNCHANGED <<dialog, table, checks>>

BucketOK(name, v) ==
    /\ modal = "bucket"
    /\ name # None /\ validation[v] = NoValidation
    /\ modal' = "none"
    /\ prefs' = [prefs EXCEPT !.bucket = name]
    /\ validation' = [validation EXCEPT
                         ![v] = [pc |-> "starting", bucket |-> None]]
    /\ UNCHANGED <<dialog, table, checks>>

\* Cancelled, or OK with the field still nil: an error either way.
BucketCancel == /\ modal = "bucket" /\ modal' = "none"
                /\ UNCHANGED <<prefs, dialog, table, checks, validation>>

\* The task, up to the wait for the answer: the address has the bucket that is
\* stored now.
ValidationStarts(v) ==
    /\ validation[v].pc = "starting"
    /\ validation' = [validation EXCEPT
                         ![v] = [pc |-> "waiting", bucket |-> prefs.bucket]]
    /\ Assign([table EXCEPT !.bucketStatus =
                  [kind |-> "verifying", bucket |-> None]], NoCheck)
    /\ UNCHANGED <<prefs, dialog, modal>>

\* The cleanup handler at the end of the task.
Cleanup(t) == IF StoredBucketIsValid(t) THEN t ELSE NoBucket(t)

\* The table after the answer.  Mutated: it names the bucket that was asked for;
\* or a bad bucket is left to the observer of validBucket to show.
AskedBucket(v, answer) ==
    IF answer = "valid"
    THEN [HasBucket(table) EXCEPT !.bucketStatus.bucket = validation[v].bucket]
    ELSE BadBucket(table)
LeftToObserver(v, answer) == IF answer = "valid" THEN HasBucket(table)
                             ELSE [table EXCEPT !.validBucket = "false"]
Verdict(v, answer) == Cleanup(IF answer = "valid" THEN HasBucket(table)
                                                  ELSE BadBucket(table))

Answers == {"valid", "invalid"}

\* The answer, or none: only a bucket that exists is found valid.
ValidationEnds(v, answer) ==
    /\ validation[v].pc = "waiting"
    /\ answer = "valid" => validation[v].bucket \in GoodBuckets
    /\ Assign(Verdict(v, answer), NoCheck)
    /\ validation' = [validation EXCEPT ![v] = NoValidation]
    /\ UNCHANGED <<prefs, dialog, modal>>

-----------------------------------------------------------------------------
(* The tasks of verifyKeys and verifyBucket.                               *)

CheckKeys == /\ checks.keys > 0
             /\ Assign(IF StoredKeysAreValid THEN HasKeys(table)
                                             ELSE NoKeys(table), KeyCheck)
             /\ UNCHANGED <<prefs, dialog, modal, validation>>

\* A bucket never validated is trusted.
CheckBucket == /\ checks.bucket > 0
               /\ Assign(IF StoredBucketIsValid(table) THEN HasBucket(table)
                                                       ELSE NoBucket(table),
                         BucketCheck)
               /\ UNCHANGED <<prefs, dialog, modal, validation>>

ValidationStep(v) == \/ ValidationStarts(v)
                     \/ \E answer \in Answers : ValidationEnds(v, answer)

Next == \/ StartDialog("new") \/ StartDialog("existing") \/ CloseDialog
        \/ PressKeys \/ KeysCancel
        \/ \E key \in Entered(prefs.apiKey, KeyTexts) :
           \E secret \in Entered(prefs.sharedSecret, KeyTexts) :
              KeysOK(key, secret) \/ KeysError(key, secret)
        \/ PressBucket \/ BucketCancel
        \/ \E name \in Entered(prefs.bucket, BucketTexts), v \in Validations :
              BucketOK(name, v)
        \/ \E v \in Validations : ValidationStep(v)
        \/ CheckKeys \/ CheckBucket

Spec == Init /\ [][Next]_vars

\* A request of LrHttp.get ends, with an answer or without, and Lightroom runs
\* the tasks it was asked to start.
FairSpec == /\ Spec
            /\ WF_vars(CheckKeys) /\ WF_vars(CheckBucket)
            /\ \A v \in Validations : WF_vars(ValidationStep(v))

-----------------------------------------------------------------------------
(* Properties.                                                             *)

Flags == {"nil", "true", "false"}

Statuses == [kind : {"blank", "verifying", "invalid", "none"},
             bucket : {None}]
            \cup [kind : {"bucket"}, bucket : Buckets]

Tables == [validKeys : Flags, validBucket : Flags,
           accountStatus : {"blank", "stored", "none"},
           bucketStatus : Statuses]

\* Types; a bucket shown is never nil or empty, and a validation never joins a
\* nil to its address.
TypeOK ==
    /\ prefs \in [apiKey : KeyTexts \cup {None},
                  sharedSecret : KeyTexts \cup {None},
                  bucket : BucketTexts \cup {None}]
    /\ dialog \in {"closed", "new", "existing"}
    /\ modal \in {"none", "keys", "bucket"}
    /\ table \in Tables
    /\ checks \in [keys : Nat, bucket : Nat]
    /\ validation \in [Validations ->
           {NoValidation} \cup [pc : {"starting"}, bucket : {None}]
                          \cup [pc : {"waiting"}, bucket : BucketTexts]]

\* While the dialog lets the user publish, nothing the command line of s3.py is
\* joined from is nil: not after a cancelled dialog, an OK that failed half-way,
\* nor after checks and validations that ran at any time in between.
ExportIsConfigured ==
    CanExport => /\ prefs.apiKey # None /\ prefs.sharedSecret # None
                 /\ prefs.bucket # None

\* Whatever the user entered and in whichever order the checks ran, once none
\* waits the account shown is the one that decides whether to publish.
AccountIsShown ==
    dialog # "closed" /\ checks.keys = 0
    => (table.accountStatus = "stored" <=> table.validKeys = "true")

Validating == \E v \in Validations : validation[v] # NoValidation

\* Once no task is left, a bucket shown is the bucket stored and one that may be
\* published to; and in the dialog of an existing connection, a bucket that may
\* be published to is shown.  Left out of the latter is an empty name: when it is
\* stored before an earlier bucket is found valid, noBucket shows an invalid one,
\* and leaves validBucket alone.
BucketIsShown ==
    ~Validating =>
        /\ table.bucketStatus.kind = "bucket"
           => table.validBucket = "true"
              /\ table.bucketStatus.bucket = prefs.bucket
        /\ /\ table.validBucket = "true" /\ dialog = "existing"
           /\ checks.bucket = 0 /\ prefs.bucket # Empty
           => table.bucketStatus.kind = "bucket"

\* `Verifying bucket...' does not stay: a verdict takes its place, although the
\* validations that overlap write to the same line.
VerifyingEnds == table.bucketStatus.kind = "verifying"
                 ~> table.bucketStatus.kind # "verifying"

-----------------------------------------------------------------------------
(* What comments say, and the code does not do.                            *)

\* `Make sure bucket is valid when done, or is marked as invalid.'
\* (DreamObjectsUser.lua, in add_bucket): when the last validation ends, the
\* bucket that is stored exists, or validBucket is not true.
ValidOrMarked ==
    [][Validating /\ ~Validating' /\ dialog' # "closed"
       => prefs'.bucket \in GoodBuckets \/ table'.validBucket # "true"]_vars
=============================================================================
