\* The user drops the client in cleanupCallback_.
SPECIFICATION ClientSpec
INVARIANTS SafeToDropInCleanup
CHECK_DEADLOCK FALSE
