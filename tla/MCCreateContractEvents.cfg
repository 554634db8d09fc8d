CONSTANTS
    Replicas = {r1, r2}
    Permissions = {issue, modify, mint}
    Unspecified = unspecified
    creator = creator
SPECIFICATION Spec
\* Both replicas return from CreateContract and the model ends.
CHECK_DEADLOCK FALSE
INVARIANT ReplicasAgreeOnEvents
