SPECIFICATION WebSpec
CONSTANTS
    t1 = t1
    t2 = t2
    b1 = b1
    b2 = b2
    k1 = k1
    k2 = k2
    c1 = c1
    c2 = c2
    Nobody = Nobody
    Gone = Gone
    Tabs <- TwoTabs
    Browsers <- TwoBrowsers
    Keys <- TwoKeys
    Calls <- TwoCalls
    Kinds <- TwoKinds
    MaxClicks = 2
    MaxChanges = 2
INVARIANTS
    WebTypeOK
    ActsForAddressShown
    BalancesOfAddressShown
    RequestsAnswered
SYMMETRY WebSymmetry
