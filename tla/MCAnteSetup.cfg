CONSTANTS
    Width = 4
    GasLimits <- MCGasLimits
    MaxGases <- MCMaxGases
SPECIFICATION Spec
INVARIANTS
    TypeOK
    AcceptedGasWithinMaxGas
