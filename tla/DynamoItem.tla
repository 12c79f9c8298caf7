----------------------------- MODULE DynamoItem -----------------------------
(***************************************************************************)
(* Item of boto/dynamodb2/items.py: an object that holds the data of a row *)
(* of DynamoDB, remembers what was changed, and saves all of it or the     *)
(* changes, on the condition that the row is still what it was.  Others    *)
(* write the same row, and a read that does not ask for consistency, as    *)
(* get_item does unless told, may find it in a copy that is behind.        *)
(***************************************************************************)
EXTENDS Integers, FiniteSets

CONSTANTS Fields,
          KeyField,   \* the key; the row exists when it has it
          Values,
          Absent,     \* no such field
          NEWVALUE,   \* in _orig_data: a field that was not there
          MaxOthers   \* bound: what others write

ASSUME ItemAssumption == /\ KeyField \in Fields /\ MaxOthers \in Nat
                         /\ {Absent, NEWVALUE} \cap Values = {}
                         /\ Absent # NEWVALUE

VARIABLES row,     \* the row in DynamoDB
          copy,    \* the row in a copy that may be behind
          item,    \* the Item: _data, _orig_data, _is_dirty
          answer,  \* what the last call made of it
          base,    \* ghost: the row as the Item last knew it
          behind,  \* ghost: the fields in which that is not the row: the read was
                   \* behind, or others wrote since, or an answer was lost
          again,   \* ghost: the fields assigned more than once since
          wrote    \* how often others wrote

itemVars == <<row, copy, item, answer, base, behind, again, wrote>>

\* All rows are those of one key.
TheKey == CHOOSE v \in Values : TRUE
Empty  == [f \in Fields |-> Absent]
Rows   == {Empty} \cup {r \in [Fields -> Values \cup {Absent}] :
                            r[KeyField] = TheKey}
Has(r) == {f \in Fields : r[f] # Absent}

\* mark_clean
CleanItem(data) == [data |-> data, orig |-> Empty, dirty |-> "no"]

ItemInit == /\ row \in Rows
            /\ copy = row
            /\ item = CleanItem(Empty)
            /\ answer = "none"
            /\ base = Empty
            /\ behind = {}
            /\ again = {}
            /\ wrote = 0

HasData == Has(item.data) # {}

-----------------------------------------------------------------------------
\* Item(table, data)
NewItem ==
    /\ ~HasData
    /\ \E data \in Rows \ {Empty} :
          item' = [data |-> data, dirty |-> "yes",
                   orig |-> [f \in Fields |-> IF data[f] = Absent THEN Absent
                                                                  ELSE NEWVALUE]]
    /\ base' = Empty
    /\ behind' = Has(row)
    /\ again' = {}
    /\ answer' = "none"
    /\ UNCHANGED <<row, copy, wrote>>

\* get_item and load, of a row that is found; or the Item is loaded again.  With
\* consistent=True the row is read, and otherwise maybe the copy.
Differ(r1, r2) == {f \in Fields : r1[f] # r2[f]}
LoadItem ==
    /\ \E read \in {row, copy} \ {Empty} :
          /\ item' = CleanItem(read)
          /\ base' = read
          /\ behind' = Differ(row, read)
    /\ again' = {}
    /\ answer' = "none"
    /\ UNCHANGED <<row, copy, wrote>>

\* __setitem__ and __delitem__: the value before goes to _orig_data, also when
\* the field was assigned before.
Stowed(f) == IF item.data[f] = Absent THEN NEWVALUE ELSE item.data[f]
Change(f, value) ==
    /\ item' = [data |-> [item.data EXCEPT ![f] = value], dirty |-> "yes",
                orig |-> [item.orig EXCEPT ![f] = Stowed(f)]]
    /\ again' = IF item.orig[f] = Absent THEN again ELSE again \cup {f}
    /\ answer' = "none"
    /\ UNCHANGED <<row, copy, base, behind, wrote>>

SetField    == HasData /\ \E f \in Fields \ {KeyField}, v \in Values : Change(f, v)
DeleteField == HasData /\ \E f \in Has(item.data) \ {KeyField} : Change(f, Absent)

-----------------------------------------------------------------------------
(* build_expects.                                                          *)

Changed == Has(item.orig)

\* The value a field of the row must have, Absent when it must not exist.
\* Mutated: a changed field is expected as it is now.
ExpectsNow(f) == item.data[f]
Expects(f) == CASE item.orig[f] = Absent   -> item.data[f]
                [] item.orig[f] = NEWVALUE -> Absent
                [] OTHER                   -> item.orig[f]
Holds(fields) == \A f \in fields : row[f] = Expects(f)

\* After a save there are no changes.  Mutated: only the flag says so.
NotMarked   == [item EXCEPT !.dirty = "no"]
MarkedClean == CleanItem(item.data)

\* A call that succeeds, one that is refused, and one that is carried out while
\* its answer is lost: _mexe sends it again, and then it is refused.
Succeeds(new, fields, done) ==
    /\ row' = new
    /\ item' = MarkedClean
    /\ base' = [f \in Fields |-> IF f \in fields THEN new[f] ELSE base[f]]
    /\ behind' = behind \ fields
    /\ again' = {}
    /\ answer' = done
    /\ UNCHANGED <<copy, wrote>>

IsRefused == /\ answer' = "refused"
             /\ UNCHANGED <<row, copy, item, base, behind, again, wrote>>

IsLost(new) == /\ row' = new
               /\ answer' = "lost"
               /\ behind' = Fields
               /\ UNCHANGED <<copy, item, base, again, wrote>>

\* save: all fields are put in place of the row.
Known == Has(item.data) \cup Changed
Save ==
    /\ HasData /\ item.dirty = "yes"
    /\ \/ Holds(Known) /\ Succeeds(item.data, Fields, "put")
       \/ Holds(Known) /\ IsLost(item.data)
       \/ ~Holds(Known) /\ IsRefused

Overwrite == HasData /\ item.dirty = "yes"
             /\ Succeeds(item.data, Fields, "overwritten")

\* partial_save: the changed fields are written, which also makes a row that was
\* gone; an update of the key is refused.
WithChanges == [f \in Fields |-> IF f \in Changed \cup {KeyField} THEN item.data[f]
                                                               ELSE row[f]]
PartialSave ==
    /\ HasData /\ item.dirty = "yes"
    /\ IF KeyField \notin Changed /\ Holds(Changed)
       THEN Succeeds(WithChanges, Changed, "updated") \/ IsLost(WithChanges)
       ELSE IsRefused

OthersPut ==
    /\ wrote < MaxOthers
    /\ wrote' = wrote + 1
    /\ row' \in Rows \ {row}
    /\ behind' = behind \cup Differ(row, row')
    /\ UNCHANGED <<copy, item, answer, base, again>>

\* DynamoDB: the copy is brought up to date, in its own time.
CatchUp == copy' = row /\ UNCHANGED <<row, item, answer, base, behind, again, wrote>>

ItemNext == \/ NewItem \/ LoadItem \/ SetField \/ DeleteField
            \/ Save \/ Overwrite \/ PartialSave \/ OthersPut \/ CatchUp

ItemSpec == ItemInit /\ [][ItemNext]_itemVars

-----------------------------------------------------------------------------
(* Properties.                                                             *)

ItemTypeOK ==
    /\ row \in Rows /\ copy \in Rows /\ base \in [Fields -> Values \cup {Absent}]
    /\ item \in [data : Rows, dirty : {"no", "yes"},
                 orig : [Fields -> Values \cup {Absent, NEWVALUE}]]
    /\ item.dirty = "no" => Changed = {}
    /\ answer \in {"none", "put", "updated", "overwritten", "refused", "lost"}
    /\ behind \subseteq Fields /\ again \subseteq Fields
    /\ wrote \in 0..MaxOthers

\* A save takes no change of others with it, of a field that is written and was
\* assigned once: the row has it as the Item read it, however old the copy was that
\* it read, and however many loads, saves and refused saves came before.
NoLostUpdate ==
    [][answer # answer' =>
         /\ answer' = "put" => \A f \in Known \ again : row[f] = base[f]
         /\ answer' = "updated" => \A f \in Changed \ again : row[f] = base[f]
      ]_itemVars

\* A save is refused only for a reason: the read was behind the row, others wrote
\* it or an answer was lost since, a field was assigned twice, or the key of a new
\* Item is to be updated.
RefusedForReason ==
    answer = "refused" =>
        behind # {} \/ again # {} \/ item.orig[KeyField] # Absent

\* An Item without changes is the row, but for the fields in which what it read was
\* behind, or which others wrote since.
CleanIsRow ==
    item.dirty = "no" /\ HasData =>
        \A f \in Fields \ behind : item.data[f] = row[f]

\* Whatever loads, saves, refused saves, lost answers and writes of others come
\* before, and whatever copy was read, a save loses no change, fails for no other
\* reason, and leaves the Item in agreement with its row.
ItemAgrees == [](RefusedForReason /\ CleanIsRow) /\ NoLostUpdate

-----------------------------------------------------------------------------
(* What a doc says, and the code does not do.                              *)

\* `If any fields have changed in between when the Item was constructed & when it
\* is saved, this call will fail so as not to cause any data loss.'
NoDataLoss == [][answer # answer' /\ answer' = "put" => row = base]_itemVars
=============================================================================
