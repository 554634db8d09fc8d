\* Two MintFT calls to one account: mintFT sets the balance instead of
\* adding to it, so the supply and the held amount part.
CONSTANTS
    a1 = a1
    a2 = a2
    p1 = p1
    p2 = p2
    v1 = v1
    v2 = v2
    bad = bad
    Accounts <- MCAccounts
    Permissions = {}
    Values = {v1}
    InvalidValues = {}
    Amounts = {1}
    MaxContracts = 1
    MaxFTClasses = 1
    MaxNFTClasses = 0
    MaxNFTs = 0
    MaxMinted = 2
    MaxBatch = 1
SPECIFICATION Spec
INVARIANT SupplyMatchesBalances
