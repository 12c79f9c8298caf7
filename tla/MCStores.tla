------------------------------ MODULE MCStores ------------------------------
(* Instances of what several clients do to the same queues, results and    *)
(* rows, one at a time: two servers and a ResultProcessor at work on two   *)
(* files, whose results may have the same name; and an Item of a row that  *)
(* others write.  `which' is the one at work; the other stays as it        *)
(* begins.  Files, names and servers are all alike.                        *)
EXTENDS BatchService, DynamoItem, TLC

CONSTANTS f1, f2, n1, n2, s1, s2

VARIABLE which

TwoFiles   == {f1, f2}
TwoNames   == {n1, n2}
TwoServers == {s1, s2}
KeyAndTwo  == {"key", "f", "g"}

Alike == Permutations(TwoFiles) \cup Permutations(TwoNames)
         \cup Permutations(TwoServers)

Init == /\ which \in {"service", "item"}
        /\ ServiceInit
        /\ ItemInit /\ (which # "item" => row = Empty)

Next == /\ UNCHANGED which
        /\ \/ which = "service" /\ ServiceNext /\ UNCHANGED itemVars
           \/ which = "item" /\ ItemNext /\ UNCHANGED serviceVars

Spec == Init /\ [][Next]_<<which, serviceVars, itemVars>>

\* The types of both.
TypeOK == ServiceTypeOK /\ ItemTypeOK
=============================================================================
