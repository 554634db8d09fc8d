\* The token ledger of one contract: class creation, MintFT, MintNFT,
\* Attach and cascading BurnCoins.
CONSTANTS
    a1 = a1
    a2 = a2
    p1 = p1
    p2 = p2
    v1 = v1
    v2 = v2
    bad = bad
    Accounts <- MCAccounts
    Permissions = {}
    Values = {v1, bad}
    InvalidValues = {bad}
    Amounts = {1, 2}
    MaxContracts = 1
    MaxFTClasses = 1
    MaxNFTClasses = 2
    MaxNFTs = 2
    MaxMinted = 3
    MaxBatch = 2
SPECIFICATION Spec
SYMMETRY Symmetry
INVARIANT TypeOK
INVARIANT SupplyIsMintedMinusBurnt
INVARIANT NFTSupplyMatchesBalances
INVARIANT FTHeldWithinSupply
INVARIANT NFTOwnership
INVARIANT HierarchyConsistent
INVARIANT InstanceCounters
PROPERTY ClassRecordsStable
