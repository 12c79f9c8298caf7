--------------------------- MODULE AccountProofs ----------------------------
(***************************************************************************)
(* What holds of Account for every set of buckets and of validations.      *)
(* The properties rest on one inductive invariant: types; that the         *)
(* account stays stored as long as a flag or a pending validation rests on *)
(* it; that a check is waiting whenever the line of the keys or of the     *)
(* bucket does not say what the flags do; and that a closed dialog leaves  *)
(* nothing behind.                                                         *)
(***************************************************************************)
EXTENDS Account, TLAPS

\* A flag that is true, or a validation under way, has something stored behind.
Configured ==
    /\ table.validKeys = "true" => /\ prefs.apiKey # None
                                   /\ prefs.sharedSecret # None
    /\ table.validBucket = "true" => prefs.bucket # None
    /\ \A v \in Validations :
          validation[v].pc # "none" => prefs.bucket # None

\* The line of the account says what validKeys does, or a check will.
KeysAgree == \/ table.accountStatus = "stored" <=> table.validKeys = "true"
             \/ checks.keys > 0

\* A bucket shown is valid, and stored but for one whose validation will start.
ShownIsValid ==
    table.bucketStatus.kind = "bucket" =>
        /\ table.validBucket = "true"
        /\ \/ table.bucketStatus.bucket = prefs.bucket
           \/ \E v \in Validations : validation[v].pc = "starting"

\* In the dialog of an existing connection a valid bucket is shown, or a
\* validation or a check is there that will write the line.
ValidIsShown ==
    /\ table.validBucket = "true" /\ dialog = "existing"
    /\ prefs.bucket # Empty
    => \/ table.bucketStatus.kind = "bucket"
       \/ \E v \in Validations : validation[v].pc # "none"
       \/ checks.bucket > 0

\* No dialog, nothing that belongs to one.
NothingLeft ==
    dialog = "closed" =>
        /\ modal = "none" /\ table = Fresh /\ checks = NoCheck
        /\ \A v \in Validations : validation[v].pc = "none"

IInv == /\ TypeOK /\ Configured /\ KeysAgree
        /\ ShownIsValid /\ ValidIsShown /\ NothingLeft

-----------------------------------------------------------------------------
\* Assign keeps the number of waiting checks a natural number, counts a change
\* of validKeys or validBucket as a check, and takes away those that ran.
LEMMA ChecksCounted ==
    ASSUME TypeOK, NEW t, NEW run \in [keys : Nat, bucket : Nat],
           run.keys <= checks.keys, run.bucket <= checks.bucket,
           Assign(t, run)
    PROVE  /\ table' = t
           /\ checks' \in [keys : Nat, bucket : Nat]
           /\ checks'.keys >= checks.keys - run.keys
           /\ checks'.bucket >= checks.bucket - run.bucket
           /\ table.validKeys # t.validKeys => checks'.keys > 0
           /\ table.validBucket # t.validBucket => checks'.bucket > 0
  BY DEF TypeOK, Tables, Assign, Observed

\* What the functions on the property table leave alone and what they set.
LEMMA NoKeysFacts ==
    ASSUME NEW t \in Tables
    PROVE  /\ NoKeys(t) \in Tables
           /\ NoKeys(t).validKeys = "false"
           /\ NoKeys(t).accountStatus = "none"
           /\ NoKeys(t).validBucket = t.validBucket
           /\ NoKeys(t).bucketStatus = t.bucketStatus
  BY DEF NoKeys, Tables, Flags

LEMMA HasKeysFacts ==
    ASSUME NEW t \in Tables
    PROVE  /\ HasKeys(t) \in Tables
           /\ HasKeys(t).validKeys = "true"
           /\ HasKeys(t).accountStatus = "stored"
           /\ HasKeys(t).validBucket = t.validBucket
           /\ HasKeys(t).bucketStatus = t.bucketStatus
  BY DEF HasKeys, Tables, Flags

LEMMA NoBucketFacts ==
    ASSUME NEW t \in Tables
    PROVE  /\ NoBucket(t) \in Tables
           /\ NoBucket(t).validKeys = t.validKeys
           /\ NoBucket(t).accountStatus = t.accountStatus
           /\ NoBucket(t).validBucket = t.validBucket
           /\ NoBucket(t).bucketStatus.kind # "bucket"
<1> DEFINE status(kind) == [kind |-> kind, bucket |-> None]
<1>1. PICK kind \in {"none", "invalid"} :
        NoBucket(t) = [t EXCEPT !.bucketStatus = status(kind)]
  BY DEF NoBucket
<1>2. status(kind) \in Statuses /\ status(kind).kind # "bucket"
  BY DEF Statuses
<1> HIDE DEF status
<1> QED BY <1>1, <1>2 DEF Tables

LEMMA HasBucketFacts ==
    ASSUME TypeOK, prefs.bucket \in Buckets, NEW t \in Tables
    PROVE  /\ HasBucket(t) \in Tables
           /\ HasBucket(t).validKeys = t.validKeys
           /\ HasBucket(t).accountStatus = t.accountStatus
           /\ HasBucket(t).validBucket = "true"
           /\ HasBucket(t).bucketStatus.kind = "bucket"
           /\ HasBucket(t).bucketStatus.bucket = prefs.bucket
<1> DEFINE status == [kind |-> "bucket", bucket |-> prefs.bucket]
<1>1. HasBucket(t) = [t EXCEPT !.validBucket = "true",
                               !.bucketStatus = status]
  BY DEF HasBucket
<1>2. /\ status \in Statuses
      /\ status.kind = "bucket" /\ status.bucket = prefs.bucket
  BY DEF Statuses
<1> HIDE DEF status
<1> QED BY <1>1, <1>2 DEF Tables, Flags

\* The tables whose status is one of a set: HasBucket makes one with an empty
\* name, for which Cleanup writes another status.
TablesOf(S) == [validKeys : Flags, validBucket : Flags,
                accountStatus : {"blank", "stored", "none"}, bucketStatus : S]

LEMMA StatusSet ==
    ASSUME NEW t \in Tables, NEW flag \in Flags, NEW status
    PROVE  LET u == [t EXCEPT !.validBucket = flag, !.bucketStatus = status] IN
           /\ u \in TablesOf({status})
           /\ u.validKeys = t.validKeys /\ u.accountStatus = t.accountStatus
  BY DEF Tables, TablesOf

LEMMA StatusAmended ==
    ASSUME NEW S, NEW t \in TablesOf(S), NEW status \in Statuses
    PROVE  LET u == [t EXCEPT !.bucketStatus = status] IN
           /\ u \in Tables /\ u.bucketStatus = status
           /\ u.validKeys = t.validKeys /\ u.accountStatus = t.accountStatus
  BY DEF Tables, TablesOf

\* What the end of a validation makes of the table.
LEMMA VerdictFacts ==
    ASSUME TypeOK, prefs.bucket # None, NEW v, NEW answer \in Answers
    PROVE  LET t == Verdict(v, answer) IN
           /\ t \in Tables
           /\ t.validKeys = table.validKeys
           /\ t.accountStatus = table.accountStatus
           /\ \/ /\ t.bucketStatus.kind = "bucket" /\ t.validBucket = "true"
                 /\ t.bucketStatus.bucket = prefs.bucket
              \/ /\ t.bucketStatus.kind # "bucket"
                 /\ t.validBucket # "true" \/ prefs.bucket = Empty
<1>1. prefs.bucket \in Buckets \/ prefs.bucket = Empty
  BY DEF TypeOK, BucketTexts
<1>2. CASE answer = "valid" /\ prefs.bucket \in Buckets
  <2>1. HasBucket(table).validBucket # "false"
    BY <1>2, HasBucketFacts DEF TypeOK
  <2>2. Verdict(v, answer) = HasBucket(table)
    BY <1>2, <2>1 DEF Verdict, Cleanup, StoredBucketIsValid
  <2> QED BY <1>2, <2>2, HasBucketFacts DEF TypeOK
<1>3. CASE answer = "valid" /\ prefs.bucket = Empty
  <2> DEFINE t == HasBucket(table)
  <2>1. Verdict(v, answer) = NoBucket(t)
    BY <1>3, TextsAssumption DEF Verdict, Cleanup, StoredBucketIsValid
  <2> DEFINE empty   == [kind |-> "bucket", bucket |-> prefs.bucket]
             invalid == [kind |-> "invalid", bucket |-> None]
  <2>2. t = [table EXCEPT !.validBucket = "true", !.bucketStatus = empty]
    BY DEF HasBucket
  <2>3. NoBucket(t) = [t EXCEPT !.bucketStatus = invalid]
    BY <1>3, TextsAssumption DEF NoBucket
  <2>4. invalid \in Statuses /\ invalid.kind # "bucket"
    BY DEF Statuses
  <2> HIDE DEF t, empty, invalid
  <2>5. /\ t \in TablesOf({empty})
        /\ t.validKeys = table.validKeys
        /\ t.accountStatus = table.accountStatus
    BY <2>2, StatusSet DEF TypeOK, Flags
  <2>6. /\ NoBucket(t) \in Tables
        /\ NoBucket(t).validKeys = t.validKeys
        /\ NoBucket(t).accountStatus = t.accountStatus
        /\ NoBucket(t).bucketStatus = invalid
    BY <2>3, <2>4, <2>5, StatusAmended
  <2> QED BY <1>3, <2>1, <2>4, <2>5, <2>6
<1>4. CASE answer = "invalid"
  <2> DEFINE t == BadBucket(table)
             status == [kind |-> "invalid", bucket |-> None]
  <2>1. status \in Statuses /\ status.kind # "bucket"
    BY DEF Statuses
  <2>2. t = [table EXCEPT !.validBucket = "false", !.bucketStatus = status]
    BY DEF BadBucket
  <2>3. /\ t \in Tables /\ t.validBucket = "false"
        /\ t.validKeys = table.validKeys
        /\ t.accountStatus = table.accountStatus
    BY <2>1, <2>2 DEF TypeOK, Tables, Flags
  <2>4. Verdict(v, answer) = NoBucket(t)
    BY <1>4, <2>3 DEF Verdict, Cleanup, StoredBucketIsValid
  <2> HIDE DEF t
  <2> QED BY <2>3, <2>4, NoBucketFacts
<1> QED BY <1>1, <1>2, <1>3, <1>4 DEF Answers

LEMMA InitIInv == Init => IInv
  BY TextsAssumption
     DEF Init, IInv, TypeOK, Configured, KeysAgree, ShownIsValid, ValidIsShown,
         NothingLeft, NoCheck, Fresh, Blank, Tables, Statuses, Flags, NoValidation

\* Steps that touch nothing the invariant speaks of but modal and what the user
\* entered for the keys.
LEMMA KeysOfDialogKept ==
    ASSUME IInv, KeysCancel \/ BucketCancel
    PROVE  IInv'
  BY DEF IInv, TypeOK, Configured, KeysAgree, ShownIsValid, ValidIsShown,
         NothingLeft, KeysCancel, BucketCancel, CanExport

LEMMA StartDialogIInv ==
    ASSUME IInv, NEW kind \in {"new", "existing"}, StartDialog(kind)
    PROVE  IInv'
  BY TextsAssumption
     DEF IInv, TypeOK, Configured, KeysAgree, ShownIsValid, ValidIsShown,
         NothingLeft, StartDialog, Fresh, Blank, Tables, Statuses, Flags, NoValidation

LEMMA CloseDialogIInv ==
    ASSUME IInv, CloseDialog
    PROVE  IInv'
  BY TextsAssumption
     DEF IInv, TypeOK, Configured, KeysAgree, ShownIsValid, ValidIsShown,
         NothingLeft, CloseDialog, NoCheck, Fresh, Blank, Tables, Statuses, Flags, NoValidation

LEMMA KeysErrorIInv ==
    ASSUME IInv, NEW key \in Entered(prefs.apiKey, KeyTexts),
           NEW secret \in Entered(prefs.sharedSecret, KeyTexts),
           KeysError(key, secret)
    PROVE  IInv'
  BY DEF IInv, TypeOK, Configured, KeysAgree, ShownIsValid, ValidIsShown,
         NothingLeft, KeysError, Entered, KeyTexts

\* What an action makes of the property table, and the checks that go with it.
LEMMA TableKeepsIInv ==
    ASSUME IInv, dialog # "closed", UNCHANGED dialog,
           prefs' \in [apiKey : KeyTexts \cup {None},
                       sharedSecret : KeyTexts \cup {None},
                       bucket : BucketTexts \cup {None}],
           modal' \in {"none", "keys", "bucket"},
           validation' = validation,
           NEW t \in Tables,
           NEW run \in [keys : Nat, bucket : Nat],
           run.keys <= checks.keys, run.bucket <= checks.bucket,
           Assign(t, run),
           prefs'.bucket = prefs.bucket,
           t.validKeys = "true" => /\ prefs'.apiKey # None
                                   /\ prefs'.sharedSecret # None,
           t.validBucket = "true" => prefs'.bucket # None,
           \/ t.accountStatus = "stored" <=> t.validKeys = "true"
           \/ /\ t.accountStatus = table.accountStatus
              /\ run.keys = 0,
           \/ /\ t.bucketStatus = table.bucketStatus
              /\ t.validBucket = table.validBucket /\ run.bucket = 0
           \/ /\ t.bucketStatus.kind = "bucket" /\ t.validBucket = "true"
              /\ t.bucketStatus.bucket = prefs.bucket
           \/ /\ t.bucketStatus.kind # "bucket"
              /\ \/ t.validBucket # "true" \/ dialog = "new"
                 \/ prefs.bucket = Empty
    PROVE  IInv'
<1>1. /\ table' = t
      /\ checks' \in [keys : Nat, bucket : Nat]
      /\ checks'.keys >= checks.keys - run.keys
      /\ checks'.bucket >= checks.bucket - run.bucket
      /\ table.validKeys # t.validKeys => checks'.keys > 0
  BY ChecksCounted DEF IInv
<1>2. TypeOK' /\ Configured' /\ NothingLeft'
  BY <1>1 DEF IInv, TypeOK, Tables, Configured, NothingLeft
<1>3. KeysAgree'
  BY <1>1 DEF IInv, TypeOK, Tables, KeysAgree
<1>4. ShownIsValid'
  BY <1>1 DEF IInv, TypeOK, Tables, ShownIsValid
<1>5. ValidIsShown'
  BY <1>1 DEF IInv, TypeOK, Tables, ValidIsShown
<1> QED BY <1>2, <1>3, <1>4, <1>5 DEF IInv

\* The buttons, the OK of the keys and the two checks are steps of that kind.
LEMMA ButtonsIInv ==
    ASSUME IInv, PressKeys \/ PressBucket
    PROVE  IInv'
<1>1. PICK t : /\ \/ t = table
                  \/ t = NoKeys(table)
                  \/ /\ t = NoBucket(table)
                     /\ dialog = "new"
               /\ Assign(t, NoCheck)
  <2>1. Assign(table, NoCheck) <=> UNCHANGED <<table, checks>>
    BY DEF IInv, TypeOK, Assign, Observed, NoCheck
  <2> QED BY <2>1 DEF PressKeys, PressBucket
<1>2. t \in Tables
  BY <1>1, NoKeysFacts, NoBucketFacts DEF IInv, TypeOK
<1>3. NoCheck \in [keys : Nat, bucket : Nat]
      /\ NoCheck.keys = 0 /\ NoCheck.bucket = 0
  BY DEF NoCheck
<1>4. /\ dialog # "closed" /\ UNCHANGED <<dialog, prefs, validation>>
      /\ modal' \in {"none", "keys", "bucket"}
  BY DEF PressKeys, PressBucket
<1>5. \/ t.accountStatus = "stored" <=> t.validKeys = "true"
      \/ t.accountStatus = table.accountStatus
  BY <1>1, NoKeysFacts, NoBucketFacts DEF IInv, TypeOK
<1>6. \/ /\ t.bucketStatus = table.bucketStatus
         /\ t.validBucket = table.validBucket
      \/ t.bucketStatus.kind # "bucket" /\ dialog = "new"
  BY <1>1, NoKeysFacts, NoBucketFacts DEF IInv, TypeOK
<1>7. /\ t.validKeys = "true" => table.validKeys = "true"
      /\ t.validBucket = "true" => table.validBucket = "true"
  BY <1>1, NoKeysFacts, NoBucketFacts DEF IInv, TypeOK
<1> QED
  BY <1>1, <1>2, <1>3, <1>4, <1>5, <1>6, <1>7, TableKeepsIInv
     DEF IInv, TypeOK, Configured

LEMMA KeysOKIInv ==
    ASSUME IInv, NEW key \in Entered(prefs.apiKey, KeyTexts),
           NEW secret \in Entered(prefs.sharedSecret, KeyTexts),
           KeysOK(key, secret)
    PROVE  IInv'
<1> DEFINE t == [table EXCEPT !.validKeys = "true"]
<1>1. t \in Tables
  BY DEF IInv, TypeOK, Tables, Flags
<1>2. /\ t.accountStatus = table.accountStatus
      /\ t.bucketStatus = table.bucketStatus
      /\ t.validBucket = table.validBucket
  BY DEF IInv, TypeOK
<1>3. NoCheck \in [keys : Nat, bucket : Nat]
      /\ NoCheck.keys = 0 /\ NoCheck.bucket = 0
  BY DEF NoCheck
<1>4. dialog # "closed"
  BY DEF IInv, NothingLeft, KeysOK
<1>5. /\ prefs' \in [apiKey : KeyTexts \cup {None},
                      sharedSecret : KeyTexts \cup {None},
                      bucket : BucketTexts \cup {None}]
      /\ prefs'.apiKey # None /\ prefs'.sharedSecret # None
      /\ prefs'.bucket = prefs.bucket
  BY DEF IInv, TypeOK, KeysOK, Entered
<1>6. /\ modal' = "none" /\ UNCHANGED <<dialog, validation>>
      /\ Assign(t, NoCheck)
  BY DEF KeysOK
<1> HIDE DEF t
<1> QED
  BY <1>1, <1>2, <1>3, <1>4, <1>5, <1>6, TableKeepsIInv
     DEF IInv, TypeOK, Configured

LEMMA CheckKeysIInv ==
    ASSUME IInv, CheckKeys
    PROVE  IInv'
<1> DEFINE t == IF StoredKeysAreValid THEN HasKeys(table) ELSE NoKeys(table)
<1>1. t \in Tables
  BY DEF IInv, TypeOK, Tables, Flags, HasKeys, NoKeys
<1>2. /\ t.accountStatus = "stored" <=> t.validKeys = "true"
      /\ t.bucketStatus = table.bucketStatus
      /\ t.validBucket = table.validBucket
      /\ t.validKeys = "true" => StoredKeysAreValid
  BY HasKeysFacts, NoKeysFacts DEF IInv, TypeOK
<1>3. /\ KeyCheck \in [keys : Nat, bucket : Nat]
      /\ KeyCheck.keys <= checks.keys
      /\ KeyCheck.bucket = 0 /\ 0 <= checks.bucket
  BY DEF IInv, TypeOK, KeyCheck, CheckKeys
<1>4. dialog # "closed"
  BY DEF IInv, NothingLeft, NoCheck, CheckKeys
<1>5. StoredKeysAreValid => prefs.apiKey # None /\ prefs.sharedSecret # None
  BY TextsAssumption DEF StoredKeysAreValid
<1>6. UNCHANGED <<prefs, dialog, modal, validation>> /\ Assign(t, KeyCheck)
  BY DEF CheckKeys
<1> HIDE DEF t
<1> QED
  BY <1>1, <1>2, <1>3, <1>4, <1>5, <1>6, TableKeepsIInv
     DEF IInv, TypeOK, Configured

LEMMA CheckBucketIInv ==
    ASSUME IInv, CheckBucket
    PROVE  IInv'
<1> DEFINE t == IF StoredBucketIsValid(table) THEN HasBucket(table)
                                              ELSE NoBucket(table)
<1>1. CASE StoredBucketIsValid(table)
  <2>1. /\ t \in Tables
        /\ t.validKeys = table.validKeys
        /\ t.accountStatus = table.accountStatus
        /\ t.bucketStatus.kind = "bucket" /\ t.validBucket = "true"
        /\ t.bucketStatus.bucket = prefs.bucket
    BY <1>1, HasBucketFacts DEF IInv, TypeOK, StoredBucketIsValid
  <2>2. prefs.bucket # None
    BY <1>1, TextsAssumption DEF StoredBucketIsValid
  <2>3. /\ BucketCheck \in [keys : Nat, bucket : Nat]
        /\ BucketCheck.bucket <= checks.bucket
        /\ BucketCheck.keys = 0 /\ 0 <= checks.keys
    BY DEF IInv, TypeOK, BucketCheck, CheckBucket
  <2>4. dialog # "closed"
    BY DEF IInv, NothingLeft, NoCheck, CheckBucket
  <2>5. UNCHANGED <<prefs, dialog, modal, validation>> /\ Assign(t, BucketCheck)
    BY DEF CheckBucket
  <2> HIDE DEF t
  <2> QED BY <2>1, <2>2, <2>3, <2>4, <2>5, TableKeepsIInv
             DEF IInv, TypeOK, Configured
<1>2. CASE ~StoredBucketIsValid(table)
  <2>1. /\ t \in Tables
        /\ t.validKeys = table.validKeys
        /\ t.accountStatus = table.accountStatus
        /\ t.bucketStatus.kind # "bucket"
        /\ t.validBucket = table.validBucket
    BY <1>2, NoBucketFacts DEF IInv, TypeOK
  <2>2. t.validBucket # "true" \/ prefs.bucket = Empty
    BY <1>2, <2>1 DEF IInv, TypeOK, Configured, StoredBucketIsValid, BucketTexts
  <2>3. /\ BucketCheck \in [keys : Nat, bucket : Nat]
        /\ BucketCheck.bucket <= checks.bucket
        /\ BucketCheck.keys = 0 /\ 0 <= checks.keys
    BY DEF IInv, TypeOK, BucketCheck, CheckBucket
  <2>4. dialog # "closed"
    BY DEF IInv, NothingLeft, NoCheck, CheckBucket
  <2>5. UNCHANGED <<prefs, dialog, modal, validation>> /\ Assign(t, BucketCheck)
    BY DEF CheckBucket
  <2> HIDE DEF t
  <2> QED BY <2>1, <2>2, <2>3, <2>4, <2>5, TableKeepsIInv
             DEF IInv, TypeOK, Configured
<1> QED BY <1>1, <1>2

LEMMA BucketOKIInv ==
    ASSUME IInv, NEW name \in Entered(prefs.bucket, BucketTexts),
           NEW v \in Validations, BucketOK(name, v)
    PROVE  IInv'
<1> DEFINE starting == [pc |-> "starting", bucket |-> None]
<1>1. /\ validation' = [validation EXCEPT ![v] = starting]
      /\ starting \in [pc : {"starting"}, bucket : {None}]
      /\ starting.pc = "starting"
  BY DEF BucketOK
<1> HIDE DEF starting
<1>2. validation'[v].pc = "starting"
  BY <1>1 DEF IInv, TypeOK
<1>3. /\ prefs' \in [apiKey : KeyTexts \cup {None},
                      sharedSecret : KeyTexts \cup {None},
                      bucket : BucketTexts \cup {None}]
      /\ prefs'.bucket # None
      /\ prefs'.apiKey = prefs.apiKey /\ prefs'.sharedSecret = prefs.sharedSecret
  BY DEF IInv, TypeOK, BucketOK, Entered
<1>4. /\ modal' = "none" /\ UNCHANGED <<dialog, table, checks>>
      /\ dialog # "closed"
  BY DEF IInv, NothingLeft, BucketOK
<1>5. TypeOK' /\ Configured' /\ KeysAgree'
  BY <1>1, <1>3, <1>4 DEF IInv, TypeOK, Configured, KeysAgree
<1>6. ShownIsValid' /\ ValidIsShown' /\ NothingLeft'
  BY <1>2, <1>4 DEF IInv, ShownIsValid, ValidIsShown, NothingLeft
<1> QED BY <1>5, <1>6 DEF IInv

\* The start and the end of a validation, from what they make of the table.
LEMMA ValidationStartsIInv ==
    ASSUME IInv, NEW v \in Validations, ValidationStarts(v)
    PROVE  IInv'
<1> DEFINE status == [kind |-> "verifying", bucket |-> None]
           t == [table EXCEPT !.bucketStatus = status]
           waiting == [pc |-> "waiting", bucket |-> prefs.bucket]
<1>1. status \in Statuses /\ status.kind = "verifying"
  BY DEF Statuses
<1>2. /\ prefs.bucket # None /\ dialog # "closed"
      /\ validation[v].pc = "starting"
      /\ UNCHANGED <<prefs, dialog, modal>>
      /\ validation' = [validation EXCEPT ![v] = waiting]
      /\ Assign(t, NoCheck)
  BY DEF IInv, Configured, NothingLeft, ValidationStarts
<1>3. /\ waiting \in [pc : {"waiting"}, bucket : BucketTexts]
      /\ waiting.pc = "waiting"
  BY <1>2 DEF IInv, TypeOK
<1> HIDE DEF status, waiting
<1>4. /\ t \in Tables /\ t.validKeys = table.validKeys
      /\ t.accountStatus = table.accountStatus
      /\ t.validBucket = table.validBucket
      /\ t.bucketStatus.kind = "verifying"
  BY <1>1 DEF IInv, TypeOK, Tables
<1>5. /\ NoCheck \in [keys : Nat, bucket : Nat]
      /\ NoCheck.keys = 0 /\ NoCheck.bucket = 0
  BY DEF NoCheck
<1> HIDE DEF t
<1>6. /\ table' = t /\ checks' \in [keys : Nat, bucket : Nat]
      /\ checks'.keys >= checks.keys /\ checks'.bucket >= checks.bucket
  BY <1>2, <1>5, ChecksCounted DEF IInv, TypeOK
<1>7. validation'[v].pc = "waiting"
  BY <1>2, <1>3 DEF IInv, TypeOK
<1>8. TypeOK' /\ Configured' /\ KeysAgree'
  BY <1>2, <1>3, <1>4, <1>6 DEF IInv, TypeOK, Configured, KeysAgree
<1>9. ShownIsValid' /\ ValidIsShown' /\ NothingLeft'
  BY <1>2, <1>4, <1>6, <1>7 DEF IInv, ShownIsValid, ValidIsShown, NothingLeft
<1> QED BY <1>8, <1>9 DEF IInv

LEMMA ValidationEndsIInv ==
    ASSUME IInv, NEW v \in Validations, NEW answer \in Answers,
           ValidationEnds(v, answer)
    PROVE  IInv'
<1> DEFINE t == Verdict(v, answer)
<1>1. /\ prefs.bucket # None /\ dialog # "closed"
      /\ UNCHANGED <<prefs, dialog, modal>>
      /\ validation' = [validation EXCEPT ![v] = NoValidation]
      /\ Assign(t, NoCheck)
  BY DEF IInv, Configured, NothingLeft, ValidationEnds
<1>2. /\ t \in Tables /\ t.validKeys = table.validKeys
      /\ t.accountStatus = table.accountStatus
      /\ \/ /\ t.bucketStatus.kind = "bucket" /\ t.validBucket = "true"
            /\ t.bucketStatus.bucket = prefs.bucket
         \/ /\ t.bucketStatus.kind # "bucket"
            /\ t.validBucket # "true" \/ prefs.bucket = Empty
  BY <1>1, VerdictFacts DEF IInv
<1>3. /\ NoCheck \in [keys : Nat, bucket : Nat]
      /\ NoCheck.keys = 0 /\ NoCheck.bucket = 0
  BY DEF NoCheck
<1>4. NoValidation.pc = "none"
  BY DEF NoValidation
<1> HIDE DEF t
<1>5. /\ table' = t /\ checks' \in [keys : Nat, bucket : Nat]
      /\ checks'.keys >= checks.keys
  BY <1>1, <1>3, ChecksCounted DEF IInv, TypeOK
<1>6. TypeOK' /\ Configured' /\ KeysAgree'
  BY <1>1, <1>2, <1>4, <1>5 DEF IInv, TypeOK, Configured, KeysAgree
<1>7. ShownIsValid' /\ ValidIsShown' /\ NothingLeft'
  BY <1>1, <1>2, <1>5 DEF ShownIsValid, ValidIsShown, NothingLeft
<1> QED BY <1>6, <1>7 DEF IInv

LEMMA NextIInv == IInv /\ [Next]_vars => IInv'
<1> SUFFICES ASSUME IInv, [Next]_vars PROVE IInv'
  OBVIOUS
<1>1. CASE UNCHANGED vars
  BY <1>1 DEF vars, IInv, TypeOK, Configured, KeysAgree, ShownIsValid,
              ValidIsShown, NothingLeft
<1>2. ASSUME NEW v \in Validations, ValidationStep(v) PROVE IInv'
  BY <1>2, ValidationStartsIInv, ValidationEndsIInv DEF ValidationStep
<1>3. ASSUME NEW key \in Entered(prefs.apiKey, KeyTexts),
             NEW secret \in Entered(prefs.sharedSecret, KeyTexts),
             KeysOK(key, secret) \/ KeysError(key, secret)
      PROVE  IInv'
  BY <1>3, KeysOKIInv, KeysErrorIInv
<1> QED
  BY <1>1, <1>2, <1>3, StartDialogIInv, CloseDialogIInv, KeysOfDialogKept,
     ButtonsIInv, BucketOKIInv, CheckKeysIInv, CheckBucketIInv DEF Next

\* Everything below is read off this invariant.
THEOREM Invariant == Spec => []IInv
BY InitIInv, NextIInv, PTL DEF Spec

\* Types; no validation joins a nil to its address.
THEOREM TypeCorrect == Spec => []TypeOK
<1>1. IInv => TypeOK BY DEF IInv
<1> QED BY <1>1, Invariant, PTL

\* updateCantExportBecause lets the user publish only with a key, a secret and a
\* bucket to join the command line of s3.py from.
THEOREM ExportConfigured == Spec => []ExportIsConfigured
<1>1. IInv => ExportIsConfigured
  BY DEF IInv, Configured, ExportIsConfigured, CanExport
<1> QED BY <1>1, Invariant, PTL

\* Once no check of verifyKeys waits, the line of the account says what
\* validKeys does.
THEOREM AccountShown == Spec => []AccountIsShown
<1>1. IInv => AccountIsShown
  BY DEF IInv, TypeOK, KeysAgree, AccountIsShown
<1> QED BY <1>1, Invariant, PTL

\* Once no validation of add_bucket is under way, the bucket shown is the one
\* stored and valid, and a valid one is shown.
THEOREM BucketShown == Spec => []BucketIsShown
<1>1. IInv => BucketIsShown
  BY DEF IInv, TypeOK, ShownIsValid, ValidIsShown, BucketIsShown, Validating,
         NoValidation
<1> QED BY <1>1, Invariant, PTL
=============================================================================
