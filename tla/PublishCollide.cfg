CONSTANTS
    c1 = c1
    c2 = c2
    p1 = p1
    p2 = p2
    n1 = n1
    n2 = n2
    b1 = b1
    b2 = b2
    None = None
    Collections <- TwoCollections
    Photos <- TwoPhotos
    Members <- MemberEach
    Names <- Colliding
    Keys <- TwoKeys
    Buckets <- OneBucket
    MaxVersion = 0
    MaxStray = 1
SPECIFICATION Spec
INVARIANT PublishedIsStored
PROPERTY DeletedIsGone
