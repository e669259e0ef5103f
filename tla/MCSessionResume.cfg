SPECIFICATION FairSpec
CONSTANTS
    h1 = h1
    h2 = h2
    h3 = h3
    n1 = n1
    n2 = n2
    n3 = n3
    a1 = a1
    a2 = a2
    a3 = a3
    Hashes = {h1, h2, h3}
    Names = {n1, n2, n3}
    NameOf <- OwnNames
    Arenas <- MCArenas
    MaxTorrents = 3
    MaxWork = 1
    Faults <- NoFaults
PROPERTY
    RestoredGoesOn
CHECK_DEADLOCK FALSE
