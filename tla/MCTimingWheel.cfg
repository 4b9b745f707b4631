SPECIFICATION FairSpec
CONSTANTS
    s1 = s1
    s2 = s2
    s3 = s3
    n1 = n1
    n2 = n2
    n3 = n3
    Owners = {s1, s2, s3}
    Nodes = {n1, n2, n3}
    Slots = 3
PROPERTIES
    KeepsTime RunsWhenDue
