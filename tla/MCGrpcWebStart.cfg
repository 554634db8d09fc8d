\* ServerStartTime is 5 s; one tick is 100 ms.
CONSTANT ServerStartTime = 50
SPECIFICATION Spec
\* StartGRPCWeb returns and the model ends there, or in the leaked state.
CHECK_DEADLOCK FALSE
INVARIANT TypeOK
