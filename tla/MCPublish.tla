----------------------------- MODULE MCPublish ------------------------------
(* Instances of Publish, each with a stray call: one photo that is edited  *)
(* and published to two buckets; and two collections with a photo each, of *)
(* which one may be renamed, and get the leaf name of the other.           *)
EXTENDS Publish, TLC

CONSTANTS c1, c2, p1, p2, n1, n2, b1, b2

OneCollection == {c1}
OnePhoto      == {p1}
OneMember     == c1 :> {p1}
OneName       == p1 :> {n1}
OneKey        == {n1}
TwoKeys       == {n1, n2}
OneBucket     == {b1}
TwoBuckets    == {b1, b2}

TwoCollections == {c1, c2}
TwoPhotos      == {p1, p2}
MemberEach     == c1 :> {p1} @@ c2 :> {p2}
Colliding      == p1 :> {n1} @@ p2 :> {n1, n2}
=============================================================================
