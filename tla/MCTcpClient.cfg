\* The constants are the code's own: ten attempts, delays from 500 ms up.
SPECIFICATION ClientFairSpec
INVARIANTS CallbackProtocol SafeToDrop
PROPERTIES HeardBack
CHECK_DEADLOCK FALSE
