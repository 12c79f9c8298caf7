SPECIFICATION Spec
CONSTANTS
    good = good
    bad = bad
    v1 = v1
    v2 = v2
    Key = Key
    Empty = Empty
    None = None
    Buckets <- TheBuckets
    GoodBuckets <- TheGood
    Validations <- TwoValidations
    MaxChecks = 1
PROPERTIES ValidOrMarked
