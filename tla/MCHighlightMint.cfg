CONSTANTS
    r1 = r1
    r2 = r2
    u1 = u1
    u2 = u2
    v1 = v1
    v2 = v2
    v3 = v3
    a1 = a1
    a2 = a2
    k1 = k1
    k2 = k2
    Requests = {r1, r2}
    Users = {u1, u2}
    Wallets = {v1, v2, v3}
    Addresses = {a1, a2}
    WalletsFor <- SecondIsEither
    OwnerOf <- OwnerOfWallet
    AddressOf <- AddressOfWallet
    FirstOwned = {v1, v2}
    Workers = {k1, k2}
    MaxAttempts = 1
    Tracked = {r1}
    MaxFaults = 1

SPECIFICATION FairSpec
INVARIANT ClaimsInv
INVARIANT OneMint
INVARIANT MediaIsTold
PROPERTY FinalStays
PROPERTY Settles
CHECK_DEADLOCK FALSE
