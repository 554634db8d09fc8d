CONSTANTS
    ChainIDs = {c1, c2}
    Heights = {1, 2}
SPECIFICATION Spec
\* A behaviour validates one message and then stops.
CHECK_DEADLOCK FALSE
INVARIANTS
    TypeOK
    AcceptedIsFork
