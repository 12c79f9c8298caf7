------------------------------ MODULE Sequence ------------------------------
(***************************************************************************)
(* The Sequence of boto/sdb/db/sequence.py: a counter kept in an item of   *)
(* SimpleDB, that several clients count up with conditional puts.          *)
(***************************************************************************)
EXTENDS Integers

CONSTANTS Clients,
          MaxValue,    \* bound: the values that are counted to
          Unset

ASSUME SequenceAssumption == MaxValue \in Nat /\ Unset \notin Nat

VARIABLES stored,     \* the item: current_value and last_value in SimpleDB
          counter,    \* a Sequence object of each client, and where it is
          counted     \* ghost: the puts of next since the item was initialised

sequenceVars == <<stored, counter, counted>>

SequenceInit == /\ stored = [current |-> Unset, last |-> Unset]
                /\ counter = [c \in Clients |->
                      [pc |-> "new", value |-> Unset, last |-> Unset,
                       put |-> Unset, result |-> Unset]]
                /\ counted = 0

\* increment_by_one
fnc(cv) == IF cv = Unset THEN 0 ELSE cv + 1

\* get: a consistent read; _value and last_value stay as they are when the item
\* does not have them.
Got(c) == [c EXCEPT !.value = IF stored.current = Unset THEN @ ELSE stored.current,
                    !.last = IF stored.last = Unset THEN @ ELSE stored.last]

\* Sequence(): the value is read, and set to the first when it is false, as both
\* None and 0 are.
Construct(c) ==
    LET fetched == Got(counter[c]) IN
    /\ counter[c].pc = "new"
    /\ counter' = [counter EXCEPT ![c] =
         IF fetched.value \in {Unset, 0} THEN [fetched EXCEPT !.pc = "init", !.put = 0]
                                     ELSE [fetched EXCEPT !.pc = "ready"]]
    /\ UNCHANGED <<stored, counted>>

\* next: the value is read, and the next one put.
CountUp(c) ==
    LET fetched == Got(counter[c]) IN
    /\ counter[c].pc = "ready" /\ fetched.value # Unset /\ fetched.value < MaxValue
    /\ counter' = [counter EXCEPT ![c] =
         [fetched EXCEPT !.pc = "put", !.put = fnc(fetched.value), !.result = Unset]]
    /\ UNCHANGED <<stored, counted>>

\* set: a put on the condition that the value is still _value, or on none when
\* no value has been read.  Mutated: on none at all.
Unconditional(c) == TRUE
Expected(c)      == counter[c].value \in {Unset, stored.current}

PutValue(c) ==
    /\ counter[c].pc \in {"init", "put"} /\ Expected(c)
    /\ stored' = [current |-> counter[c].put,
                last |-> IF counter[c].value = Unset THEN stored.last
                                                     ELSE counter[c].value]
    /\ counted' = IF counter[c].pc = "put" THEN counted + 1 ELSE 0
    /\ \/ counter' = [counter EXCEPT ![c].pc =
                         IF @ = "put" THEN "return" ELSE "ready"]
       \/ counter' = [counter EXCEPT ![c].pc = "error"]  \* the answer is lost

\* SimpleDB refuses, or the request fails: an exception.
PutRefused(c) ==
    /\ counter[c].pc \in {"init", "put"}
    /\ counter' = [counter EXCEPT ![c].pc = "error"]
    /\ UNCHANGED <<stored, counted>>

\* next returns what is read once more.
ReturnValue(c) ==
    /\ counter[c].pc = "return"
    /\ counter' = [counter EXCEPT ![c] =
                     [Got(@) EXCEPT !.pc = "ready", !.result = stored.current]]
    /\ UNCHANGED <<stored, counted>>

\* The caller goes on after an exception, or makes another Sequence.
NewSequence(c) ==
    /\ counter[c].pc \in {"error", "ready"}
    /\ \/ counter' = [counter EXCEPT ![c] =
             [pc |-> "new", value |-> Unset, last |-> Unset, put |-> Unset,
              result |-> Unset]]
       \/ counter' = [counter EXCEPT ![c].pc = "ready"]
    /\ UNCHANGED <<stored, counted>>

SequenceStep(c) == \/ Construct(c) \/ CountUp(c) \/ PutValue(c) \/ PutRefused(c)
                   \/ ReturnValue(c) \/ NewSequence(c)

SequenceNext == \E c \in Clients : SequenceStep(c)

SequenceSpec == SequenceInit /\ [][SequenceNext]_sequenceVars

-----------------------------------------------------------------------------
(* Properties.                                                             *)

SequenceTypeOK ==
    /\ stored \in [current : 0..MaxValue \cup {Unset},
                 last : 0..MaxValue \cup {Unset}]
    /\ counter \in [Clients -> [pc : {"new", "init", "ready", "put", "return",
                                      "error"},
                                value : 0..MaxValue \cup {Unset},
                                last : 0..MaxValue \cup {Unset},
                                put : 0..MaxValue \cup {Unset},
                                result : 0..MaxValue \cup {Unset}]]

\* No increment is lost: the value is the number of puts of next since it was
\* initialised, for all clients together.
EveryPutCounts == stored.current # Unset => stored.current = counted

\* The value goes back only when a client puts the first value without a condition,
\* as it found none, and others have counted since it looked; one that found a zero
\* takes no increment back.
OnlyFirstPut ==
    [][stored.current # Unset /\ stored'.current < stored.current =>
         \E c \in Clients : counter[c].pc = "init" /\ counter[c].value = Unset
      ]_sequenceVars

\* The counter counts every increment, but for those before a late first put.
CountsUp == []EveryPutCounts /\ OnlyFirstPut
=============================================================================
