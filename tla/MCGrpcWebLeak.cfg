CONSTANT ServerStartTime = 50
SPECIFICATION Spec
CHECK_DEADLOCK FALSE
PROPERTY ServeGoroutineEnds
