SPECIFICATION Spec
CONSTANTS
    f1 = f1
    f2 = f2
    n1 = n1
    n2 = n2
    s1 = s1
    s2 = s2
    Files <- TwoFiles
    Names <- TwoNames
    Servers <- TwoServers
    RetryCount = 1
    NoFile = NoFile
    Fields <- KeyAndTwo
    KeyField = "key"
    Values = {"v"}
    Absent = Absent
    NEWVALUE = NEWVALUE
    MaxOthers = 2
SYMMETRY Alike
INVARIANTS
    TypeOK
    NothingLost
PROPERTY ItemAgrees
CHECK_DEADLOCK FALSE
