SPECIFICATION ItemSpec
CONSTANTS
    Fields = {"key", "f", "g"}
    KeyField = "key"
    Values = {a, b}
    Absent = Absent
    NEWVALUE = NEWVALUE
    MaxOthers = 1
PROPERTY NoDataLoss
