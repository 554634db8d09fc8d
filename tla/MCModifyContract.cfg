\* ModifyContract with a base_img_uri change: the setter writes the name.
CONSTANTS
    a1 = a1
    a2 = a2
    p1 = p1
    p2 = p2
    v1 = v1
    v2 = v2
    bad = bad
    Accounts <- MCAccounts
    Permissions = {}
    Values = {v1, v2}
    InvalidValues = {}
    Amounts = {1}
    MaxContracts = 1
    MaxFTClasses = 0
    MaxNFTClasses = 0
    MaxNFTs = 0
    MaxMinted = 0
    MaxBatch = 1
SPECIFICATION Spec
INVARIANT ModifyContractAppliesChanges
