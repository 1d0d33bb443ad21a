SPECIFICATION Spec
CONSTANTS
    a1 = a1
    a2 = a2
    a3 = a3
    Auctions = {a1, a2, a3}
    Matching = {a1, a3}
    Drafts = {a1, a2}
    EndingSoon = {a2, a3}
    Key <- MCKey
    PageSize = 2
    MaxLoads = 3

    
PROPERTIES
    ListSettles
CHECK_DEADLOCK FALSE
