CONSTANTS
    c1 = c1
    c2 = c2
    p1 = p1
    p2 = p2
    n1 = n1
    n2 = n2
    b1 = b1
    b2 = b2
    None = None
    Collections <- OneCollection
    Photos <- OnePhoto
    Members <- OneMember
    Names <- OneName
    Keys <- OneKey
    Buckets <- TwoBuckets
    MaxVersion = 1
    MaxStray = 1
SPECIFICATION FairSpec
INVARIANTS
    TypeOK
    PublishedIsStored
PROPERTIES
    DeletedIsGone
    TasksEnd
