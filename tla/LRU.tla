-------------------------------- MODULE LRU --------------------------------
(***************************************************************************)
(* What a cache promises that keeps the most recently used items: the keys *)
(* it holds, the one used last first, and what a lookup finds.             *)
(***************************************************************************)
EXTENDS Integers, Sequences, SequencesExt

CONSTANTS Keys, Capacity

VARIABLES recent,  \* the keys held, most recently used first
          found    \* the last call: its key and what became of it

ToFront(key, s) == <<key>> \o RemoveFirst(s, key)
Bounded(s) == SubSeq(s, 1, IF Len(s) < Capacity THEN Len(s) ELSE Capacity)

Init == recent = <<>> /\ found = <<"none">>

Set(key) == /\ recent' = Bounded(ToFront(key, recent))
            /\ found' = <<key, "set">>

Get(key) == IF key \in ToSet(recent)
            THEN recent' = ToFront(key, recent) /\ found' = <<key, "yes">>
            ELSE UNCHANGED recent /\ found' = <<key, "no">>

Next == \E key \in Keys : Set(key) \/ Get(key)

Spec == Init /\ [][Next]_<<recent, found>>
=============================================================================
