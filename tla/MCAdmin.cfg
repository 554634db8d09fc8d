\* Two contracts: contract and class creation, grants, and the Modify
\* operations, with a small ledger beside them.
CONSTANTS
    a1 = a1
    a2 = a2
    p1 = p1
    p2 = p2
    v1 = v1
    v2 = v2
    bad = bad
    Accounts <- MCAccounts
    Permissions = {p1}
    Values = {v1, v2}
    InvalidValues = {}
    Amounts = {1}
    MaxContracts = 1
    MaxFTClasses = 1
    MaxNFTClasses = 1
    MaxNFTs = 1
    MaxMinted = 0
    MaxBatch = 2
SPECIFICATION Spec
SYMMETRY Symmetry
INVARIANT ModifyAppliesChanges
